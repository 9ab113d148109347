-------------------------- MODULE CliParser_proofs --------------------------
(***************************************************************************)
(* Proofs about the command parser, for every set of commands of the shape *)
(* ParserAssumption, RequestAssumption and PayloadAssumption demand, every *)
(* set of slot masks and every bound.                                      *)
(***************************************************************************)
EXTENDS RpcRequest, SequenceTheorems, FiniteSetTheorems, WellFoundedInduction, TLAPS

-----------------------------------------------------------------------------
(* The text builder keeps its type. *)

LEMMA SymbolTexts ==
  /\ <<>> \in Seq(Symbol) /\ <<"[">> \in Seq(Symbol) /\ <<"]">> \in Seq(Symbol)
  /\ <<"{">> \in Seq(Symbol) /\ <<"}">> \in Seq(Symbol) /\ <<",">> \in Seq(Symbol)
  /\ <<"v">> \in Seq(Symbol) /\ <<"k">> \in Seq(Symbol) /\ <<"s">> \in Seq(Symbol)
BY DEF Symbol

LEMMA SeparatorType ==
  ASSUME NEW b \in Builder
  PROVE  Separator(b) \in Seq(Symbol)
BY SymbolTexts DEF Separator

LEMMA ConvertValType ==
  ASSUME NEW b \in Builder
  PROVE  ConvertVal(b) \in Builder
<1>1. b.text \in Seq(Symbol)
  BY DEF Builder
<1>2. b.text \o Separator(b) \o <<"v">> \in Seq(Symbol)
  BY <1>1, SymbolTexts, SeparatorType, ConcatProperties
<1> QED
  BY <1>2 DEF Builder, ConvertVal

LEMMA ConvertKeyType ==
  ASSUME NEW b \in Builder
  PROVE  ConvertKey(b) \in Builder
<1> DEFINE brace == IF b.in_map THEN <<>> ELSE <<"{">>
<1>1. b.text \in Seq(Symbol)
  BY DEF Builder
<1>2. brace \in Seq(Symbol)
  BY SymbolTexts
<1>3. b.text \o Separator(b) \o brace \o <<"k">> \in Seq(Symbol)
  <2> HIDE DEF brace
  <2> QED BY <1>1, <1>2, SymbolTexts, SeparatorType, ConcatProperties
<1> QED
  BY <1>3 DEF Builder, ConvertKey

LEMMA ConvertSectionType ==
  ASSUME NEW b \in Builder
  PROVE  ConvertSection(b) \in Builder
<1> DEFINE comma == IF b.in_pair THEN <<>> ELSE <<",">>
           brace == IF b.in_map THEN <<",">> ELSE <<"{">>
<1>1. b.text \in Seq(Symbol)
  BY DEF Builder
<1>2. comma \in Seq(Symbol) /\ brace \in Seq(Symbol)
  BY SymbolTexts
<1>3. b.text \o comma \o brace \o <<"s">> \in Seq(Symbol)
  <2> HIDE DEF comma, brace
  <2> QED BY <1>1, <1>2, SymbolTexts, ConcatProperties
<1> QED
  BY <1>3 DEF Builder, ConvertSection

LEMMA CloseJsonType ==
  ASSUME NEW b \in Builder, NEW u \in BOOLEAN, NEW r \in BOOLEAN
  PROVE  CloseJson(b, u, r) \in Builder
<1> DEFINE c == IF u THEN ConvertSection(b) ELSE b
           d == IF r THEN ConvertSection(c) ELSE c
           brace == IF d.in_map THEN <<"}">> ELSE <<>>
           bracket == IF d.in_list THEN <<"]">> ELSE <<>>
<1>1. c \in Builder
  BY ConvertSectionType
<1>2. d \in Builder
  <2> HIDE DEF c
  <2> QED BY <1>1, ConvertSectionType
<1>3. brace \in Seq(Symbol) /\ bracket \in Seq(Symbol)
  <2> HIDE DEF d
  <2> QED BY SymbolTexts
<1>4. d.text \in Seq(Symbol)
  <2> HIDE DEF d
  <2> QED BY <1>2 DEF Builder
<1>5. d.text \o brace \o bracket \in Seq(Symbol)
  <2> HIDE DEF d, brace, bracket
  <2> QED BY <1>3, <1>4, ConcatProperties
<1>6. CloseJson(b, u, r) = [d EXCEPT !.text = @ \o brace \o bracket]
  BY DEF CloseJson
<1> QED
  <2> HIDE DEF d, brace, bracket
  <2> QED BY <1>2, <1>5, <1>6 DEF Builder

\* The loop over hash_outports appends a comma and a value for every id.
LEMMA OutportsType ==
  ASSUME NEW n \in Nat
  PROVE  [i \in 1..(2 * n) |-> IF i % 2 = 1 THEN "," ELSE "v"] \in Seq(Symbol)
<1>1. 2 * n \in Nat
  OBVIOUS
<1>2. [i \in 1..(2 * n) |-> IF i % 2 = 1 THEN "," ELSE "v"] \in [1..(2 * n) -> Symbol]
  BY DEF Symbol
<1>3. [1..(2 * n) -> Symbol] \subseteq Seq(Symbol)
  BY <1>1, SeqDef
<1> QED
  BY <1>2, <1>3

-----------------------------------------------------------------------------
(* Type correctness. *)

LEMMA InitType == Init => TypeOK
<1> SUFFICES ASSUME Init PROVE TypeOK
  OBVIOUS
<1>1. EmptyBuilder \in Builder /\ <<>> \in Seq(Request)
  BY DEF EmptyBuilder, Builder
<1>2. 0 \in 0..MaxItems /\ 0 \in 0..(RangeLimit + 1) /\ EmptyLine \in Commands
  BY ParserAssumption
<1>3. eos \in BOOLEAN /\ ud_flag \in BOOLEAN /\ range_flag \in BOOLEAN
        /\ tcpflag \in BOOLEAN /\ tainted \in BOOLEAN
  BY DEF Init
<1> QED
  BY <1>1, <1>2, <1>3 DEF Init, TypeOK

LEMMA StepType ==
  ASSUME TypeOK, [Next]_vars
  PROVE  TypeOK'
<1> USE DEF TypeOK
<1>a. EmptyBuilder \in Builder /\ <<>> \in Seq(Request) /\ EmptyLine \in Commands
  BY ParserAssumption DEF EmptyBuilder, Builder
<1>b. RangeLimit \in Nat /\ MaxItems \in Nat /\ SlotMasks \subseteq Nat
  BY ParserAssumption
<1>c. ResetCommand => /\ json' \in Builder /\ ud_flag' \in BOOLEAN /\ range_flag' \in BOOLEAN
                       /\ tcpflag' \in BOOLEAN /\ range_num' \in 0..(RangeLimit + 1)
                       /\ outports_num' \in Nat /\ tainted' \in BOOLEAN
  <2>1. 0 \in 0..(RangeLimit + 1) /\ 0 \in Nat
    BY <1>b
  <2> QED
    BY <1>a, <2>1, Zenon DEF ResetCommand
<1>d. NoCommand => /\ cmd' \in Commands /\ pc' \in Nat \ {0}
                    /\ sent' \in Seq(Request) /\ assigned' \subseteq SlotMasks
  BY <1>a DEF NoCommand
<1>1. CASE StartParse
  BY <1>1 DEF StartParse, resetVars, history
<1>2. ASSUME NEW c \in Commands, Begin(c) PROVE TypeOK'
  <2>1. eos' \in BOOLEAN
    BY <1>2 DEF Begin
  <2>2. items' \in 0..MaxItems
    BY <1>2, <1>b DEF Begin
  <2> QED
    BY <1>2, <2>1, <2>2 DEF Begin, resetVars, history
<1>3. CASE EndOfLine
  <2>1. eos' \in BOOLEAN
    BY <1>3 DEF EndOfLine
  <2>2. items' \in 0..MaxItems
    BY <1>3, <1>b DEF EndOfLine
  <2> QED
    BY <1>3, <2>1, <2>2 DEF EndOfLine, resetVars, history
<1>4. CASE EndCommand
  BY <1>4, <1>c, <1>d DEF EndCommand
<1>5. CASE SyntaxError
  BY <1>5 DEF SyntaxError, resetVars, history
<1>6. CASE Reject
  BY <1>6 DEF Reject, resetVars, history
<1>7. CASE Resync
  <2>1. eos' \in BOOLEAN
    BY <1>7 DEF Resync
  <2>2. items' \in 0..MaxItems
    BY <1>7, <1>b DEF Resync
  <2> QED
    BY <1>7, <2>1, <2>2, <1>c, <1>d DEF Resync
<1>8. CASE Abort
  <2>1. eos' \in BOOLEAN /\ tainted' \in BOOLEAN
    BY <1>8 DEF Abort
  <2>2. items' \in 0..MaxItems
    BY <1>8, <1>b DEF Abort
  <2> QED
    BY <1>8, <2>1, <2>2, <1>d DEF Abort, resetVars
<1>9. CASE Accept
  <2>1. eos' \in BOOLEAN /\ tainted' \in BOOLEAN
    BY <1>9 DEF Accept
  <2>2. items' \in 0..MaxItems
    BY <1>9, <1>b DEF Accept
  <2> QED
    BY <1>9, <2>1, <2>2, <1>d DEF Accept, resetVars
<1>10. CASE ReadToken
  <2>1. eos' \in BOOLEAN
    BY <1>10 DEF ReadToken
  <2> QED
    BY <1>10, <2>1 DEF ReadToken, Advance, resetVars, history
<1>11. CASE ReadEos
  BY <1>11 DEF ReadEos, Advance, resetVars, history
<1>12. CASE Pass
  BY <1>12 DEF Pass, Advance, resetVars, history
<1>13. CASE Skip
  <2>1. cmd.ops \in Seq(Ops)
    BY ParserAssumption
  <2>2. Len(cmd.ops) + 1 \in Nat \ {0}
    BY <2>1
  <2> QED
    BY <1>13, <2>2 DEF Skip, resetVars, history
<1>14. ASSUME NEW m \in SlotMasks, SetSlot(m) PROVE TypeOK'
  BY <1>14 DEF SetSlot, Advance, resetVars
<1>15. CASE WriteVal
  BY <1>15, ConvertValType DEF WriteVal, Advance, history
<1>16. CASE WriteKey
  BY <1>16, ConvertKeyType DEF WriteKey, Advance, history
<1>17. CASE AddUd
  BY <1>17 DEF AddUd, Advance, history
<1>18. CASE AddRange
  BY <1>18, <1>b DEF AddRange, Advance, history
<1>19. CASE SetTcpflag
  BY <1>19 DEF SetTcpflag, Advance, history
<1>20. CASE AddOutport
  BY <1>20 DEF AddOutport, Advance, history
<1>21. CASE WriteOutports
  <2> DEFINE ids == [i \in 1..(2 * outports_num) |-> IF i % 2 = 1 THEN "," ELSE "v"]
  <2>1. json.text \in Seq(Symbol) /\ ids \in Seq(Symbol)
    BY OutportsType DEF Builder
  <2>2. json.text \o ids \in Seq(Symbol)
    <3> HIDE DEF ids
    <3> QED BY <2>1, ConcatProperties
  <2>3. json' = [json EXCEPT !.text = json.text \o ids]
    BY <1>21 DEF WriteOutports
  <2>4. json' \in Builder
    <3> HIDE DEF ids
    <3> QED BY <2>2, <2>3 DEF Builder
  <2> HIDE DEF ids
  <2>5. UNCHANGED <<eos, ud_flag, range_flag, range_num, tcpflag, outports_num,
                    slot_mask, sent, assigned, tainted, mode, cmd, items, rv>> /\ pc' = pc + 1
    BY <1>21 DEF WriteOutports, Advance, history
  <2> QED
    BY <2>4, <2>5
<1>22. CASE Close
  BY <1>22, CloseJsonType DEF Close, Advance, history
<1>23. CASE Send
  <2>1. json.text \in Seq(Symbol) /\ slot_mask \in Nat
    BY <1>b DEF Builder
  <2>2. sent' \in Seq(Request)
    BY <1>23, <2>1 DEF Send, Request
  <2>3. json' \in Builder
    BY <1>23, SymbolTexts DEF Send, FreeText, Builder
  <2> QED
    BY <1>23, <2>2, <2>3 DEF Send, Advance
<1>24. CASE UNCHANGED vars
  BY <1>24 DEF vars, readVars, resetVars, history
<1> QED
  BY <1>1, <1>2, <1>3, <1>4, <1>5, <1>6, <1>7, <1>8, <1>9, <1>10, <1>11, <1>12, <1>13,
     <1>14, <1>15, <1>16, <1>17, <1>18, <1>19, <1>20, <1>21, <1>22, <1>23, <1>24
  DEF Next, ParserStep, Write

\* Every variable keeps its type: in particular range_num never passes the
\* limit by more than one, and what is sent is a text and a slot mask.
THEOREM TypeCorrect == Spec => []TypeOK
<1>1. Init => TypeOK
  BY InitType
<1>2. TypeOK /\ [Next]_vars => TypeOK'
  BY StepType
<1> QED
  BY <1>1, <1>2, PTL DEF Spec

-----------------------------------------------------------------------------
(***************************************************************************)
(* Isolation of commands, and where their requests go.  The properties of  *)
(* CliParser are not inductive by themselves: what holds between commands  *)
(* has to be carried through them.  The strengthening says                 *)
(*   - how cmd, pc and the history stand between commands (Fresh);         *)
(*   - that the globals stay clean while a command has only read tokens,   *)
(*     which is all that EXIT does before YYACCEPT skips the reset;        *)
(*   - that something sent means a send op behind pc, so that no op that   *)
(*     can fail or name a slot is left in the command;                     *)
(*   - that slot_mask is one of the masks the command has assigned to it.   *)
(***************************************************************************)
Fresh == mode \in {"idle", "boundary"} => pc = 1 /\ sent = <<>> /\ assigned = {}

CleanWhileReading ==
  /\ mode = "command" /\ ~tainted
  /\ \A i \in 1..Len(cmd.ops) : i < pc => cmd.ops[i] \in {"tok", "eos"}
  => Clean

SendIsBehind ==
  mode = "command" /\ sent # <<>> =>
    \E i \in 1..Len(cmd.ops) : i < pc /\ cmd.ops[i] = "send"

MaskIsAssigned == mode = "command" /\ assigned # {} => slot_mask \in assigned

IInv ==
  /\ Fresh /\ CleanBetweenCommands /\ CleanWhileReading
  /\ RejectedSendsNothing /\ SendIsBehind
  /\ MaskIsAssigned /\ AddressedAsAssigned

\* While an op is still to come that a send may not precede, nothing is sent.
LEMMA NothingSentYet ==
  ASSUME TypeOK, SendIsBehind, NEW op \in Ops \ {"val", "close", "send"}, At(op)
  PROVE  sent = <<>>
<1> SUFFICES ASSUME sent # <<>> PROVE FALSE
  OBVIOUS
<1>1. mode = "command" /\ pc \in Nat /\ pc <= Len(cmd.ops) /\ cmd.ops[pc] = op
  BY DEF At, TypeOK
<1>2. PICK i \in 1..Len(cmd.ops) : i < pc /\ cmd.ops[i] = "send"
  BY <1>1 DEF SendIsBehind
<1>3. cmd \in Commands /\ cmd.ops \in Seq(Ops)
  BY ParserAssumption DEF TypeOK
<1>4. pc \in 1..Len(cmd.ops)
  BY <1>1, <1>2, <1>3
<1>5. cmd.ops[pc] \in {"val", "close", "send"}
  BY <1>2, <1>3, <1>4, ParserAssumption
<1> QED
  BY <1>1, <1>5

\* A command that accepts has not written anything before.
LEMMA CleanAtAccept ==
  ASSUME TypeOK, CleanWhileReading, At("accept"), ~tainted
  PROVE  Clean
<1>1. mode = "command" /\ pc \in Nat \ {0} /\ pc <= Len(cmd.ops) /\ cmd.ops[pc] = "accept"
  BY DEF At, TypeOK
<1>2. cmd \in Commands /\ cmd.ops \in Seq(Ops)
  BY ParserAssumption DEF TypeOK
<1>3. pc \in 1..Len(cmd.ops)
  BY <1>1, <1>2
<1>4. \A i \in 1..Len(cmd.ops) : i < pc => cmd.ops[i] \in {"tok", "eos"}
  BY <1>1, <1>2, <1>3, ParserAssumption
<1> QED
  BY <1>1, <1>4 DEF CleanWhileReading

\* A step to the next op that neither sends nor names anything disturbs only
\* what is said of the globals.
LEMMA QuietStep ==
  ASSUME TypeOK, IInv, mode = "command", Advance,
         UNCHANGED <<slot_mask, sent, assigned, tainted>>
  PROVE  /\ Fresh' /\ CleanBetweenCommands' /\ RejectedSendsNothing'
         /\ SendIsBehind' /\ MaskIsAssigned' /\ AddressedAsAssigned'
<1>1. mode' = "command" /\ cmd' = cmd /\ pc' = pc + 1 /\ pc \in Nat
  BY DEF Advance, TypeOK
<1>2. Fresh' /\ CleanBetweenCommands' /\ RejectedSendsNothing'
  BY <1>1 DEF Fresh, CleanBetweenCommands, RejectedSendsNothing
<1>3. SendIsBehind'
  <2> SUFFICES ASSUME sent # <<>>
               PROVE  \E i \in 1..Len(cmd.ops) : i < pc + 1 /\ cmd.ops[i] = "send"
    BY <1>1 DEF SendIsBehind
  <2>1. PICK i \in 1..Len(cmd.ops) : i < pc /\ cmd.ops[i] = "send"
    BY DEF IInv, SendIsBehind
  <2> QED
    BY <1>1, <2>1
<1>4. MaskIsAssigned' /\ AddressedAsAssigned'
  BY <1>1 DEF IInv, MaskIsAssigned, AddressedAsAssigned
<1> QED
  BY <1>2, <1>3, <1>4

\* A step past an op that is no token leaves nothing to say of clean globals.
LEMMA NoTokenStep ==
  ASSUME TypeOK, Advance, NEW op \in Ops \ {"tok", "eos"}, At(op)
  PROVE  CleanWhileReading'
<1>1. cmd' = cmd /\ pc' = pc + 1 /\ pc \in Nat \ {0}
        /\ pc <= Len(cmd.ops) /\ cmd.ops[pc] = op
  BY DEF Advance, At, TypeOK
<1>2. cmd.ops \in Seq(Ops)
  BY ParserAssumption DEF TypeOK
<1>3. pc \in 1..Len(cmd.ops)
  BY <1>1, <1>2
<1> QED
  BY <1>1, <1>3 DEF CleanWhileReading

\* A step past a token leaves the globals as they are.
LEMMA TokenStep ==
  ASSUME TypeOK, CleanWhileReading, mode = "command", Advance,
         UNCHANGED resetVars, UNCHANGED tainted
  PROVE  CleanWhileReading'
<1>1. mode' = "command" /\ cmd' = cmd /\ pc' = pc + 1 /\ pc \in Nat
  BY DEF Advance, TypeOK
<1>2. Clean <=> Clean'
  BY DEF Clean, resetVars
<1> QED
  BY <1>1, <1>2 DEF CleanWhileReading

\* The ops of Write, in the terms of the lemmas above.
LEMMA WriteShape ==
  ASSUME Write
  PROVE  /\ mode = "command" /\ Advance /\ UNCHANGED <<slot_mask, sent, assigned, tainted>>
         /\ \E op \in Ops \ {"tok", "eos"} : At(op)
<1> USE DEF Ops, At, history
<1>1. CASE WriteVal
  BY <1>1 DEF WriteVal
<1>2. CASE WriteKey
  BY <1>2 DEF WriteKey
<1>3. CASE AddUd
  BY <1>3 DEF AddUd
<1>4. CASE AddRange
  BY <1>4 DEF AddRange
<1>5. CASE SetTcpflag
  BY <1>5 DEF SetTcpflag
<1>6. CASE AddOutport
  BY <1>6 DEF AddOutport
<1>7. CASE WriteOutports
  BY <1>7 DEF WriteOutports
<1>8. CASE Close
  BY <1>8 DEF Close
<1> QED
  BY <1>1, <1>2, <1>3, <1>4, <1>5, <1>6, <1>7, <1>8 DEF Write

LEMMA InitInv == Init => IInv
BY DEF Init, IInv, Fresh, CleanBetweenCommands, CleanWhileReading, RejectedSendsNothing,
       SendIsBehind, MaskIsAssigned, AddressedAsAssigned, Clean

LEMMA StepInv ==
  ASSUME TypeOK, IInv, [Next]_vars
  PROVE  IInv'
<1> USE DEF IInv
\* What is left to show where the mode leaves "command" or has not reached it.
<1>a. ASSUME mode' \in {"idle", "boundary"}, pc' = 1, sent' = <<>>, assigned' = {},
             ~tainted' => Clean'
      PROVE  IInv'
  BY <1>a DEF Fresh, CleanBetweenCommands, CleanWhileReading, RejectedSendsNothing,
              SendIsBehind, MaskIsAssigned, AddressedAsAssigned
<1>b. ASSUME mode' = "discard", sent' = <<>>
      PROVE  IInv'
  <2>1. AddressedAsAssigned'
    BY <1>b DEF AddressedAsAssigned
  <2> QED
    BY <1>b, <2>1 DEF Fresh, CleanBetweenCommands, CleanWhileReading,
                      RejectedSendsNothing, SendIsBehind, MaskIsAssigned
<1>c. ResetCommand => Clean'
  BY DEF ResetCommand, Clean
<1>d. UNCHANGED resetVars => (Clean <=> Clean')
  BY DEF Clean, resetVars
<1>1. CASE StartParse
  BY <1>1, <1>a, <1>d DEF StartParse, Fresh, CleanBetweenCommands, history
<1>2. ASSUME NEW c \in Commands, Begin(c) PROVE IInv'
  <2>1. /\ mode' = "command" /\ sent' = <<>> /\ assigned' = {}
        /\ ~tainted' => Clean'
    BY <1>2, <1>d DEF Begin, Fresh, CleanBetweenCommands, history
  <2> QED
    BY <2>1 DEF Fresh, CleanBetweenCommands, CleanWhileReading, RejectedSendsNothing,
                SendIsBehind, MaskIsAssigned, AddressedAsAssigned
<1>3. CASE EndOfLine
  BY <1>3, <1>a, <1>d DEF EndOfLine, Fresh, CleanBetweenCommands, history
<1>4. CASE EndCommand
  BY <1>4, <1>a, <1>c DEF EndCommand, NoCommand
<1>5. CASE SyntaxError
  <2>1. sent = <<>>
    BY <1>5, NothingSentYet DEF SyntaxError, Ops
  <2> QED
    BY <1>5, <2>1, <1>b DEF SyntaxError, history
<1>6. CASE Reject
  <2>1. sent = <<>>
    BY <1>6, NothingSentYet DEF Reject, Ops
  <2> QED
    BY <1>6, <2>1, <1>b DEF Reject, history
<1>7. CASE Resync
  BY <1>7, <1>a, <1>c DEF Resync, NoCommand
<1>8. CASE Abort
  BY <1>8, <1>a DEF Abort, NoCommand
<1>9. CASE Accept
  <2>1. ~tainted => Clean
    BY <1>9, CleanAtAccept DEF Accept
  <2> QED
    BY <1>9, <2>1, <1>a, <1>d DEF Accept, NoCommand
<1>10. CASE ReadToken \/ ReadEos
  <2>1. mode = "command" /\ Advance /\ UNCHANGED <<resetVars, slot_mask, sent, assigned, tainted>>
    BY <1>10 DEF ReadToken, ReadEos, At, history
  <2> QED
    BY <2>1, QuietStep, TokenStep
<1>11. CASE Pass
  <2>1. mode = "command" /\ Advance /\ UNCHANGED <<slot_mask, sent, assigned, tainted>>
    BY <1>11 DEF Pass, At, history
  <2>2. CleanWhileReading'
    BY <1>11, NoTokenStep DEF Pass, Ops
  <2> QED
    BY <2>1, <2>2, QuietStep
<1>12. CASE Skip
  <2>1. sent = <<>>
    BY <1>12, NothingSentYet DEF Skip, Ops
  <2>2. /\ mode = "command" /\ mode' = mode /\ cmd' = cmd /\ pc' = Len(cmd.ops) + 1
        /\ UNCHANGED <<resetVars, slot_mask, sent, assigned, tainted>>
        /\ pc \in Nat \ {0} /\ pc <= Len(cmd.ops) /\ cmd.ops[pc] = "guard"
    BY <1>12 DEF Skip, At, history, TypeOK
  <2>3. cmd.ops \in Seq(Ops)
    BY ParserAssumption DEF TypeOK
  <2>4. pc \in 1..Len(cmd.ops) /\ pc < pc'
    BY <2>2, <2>3
  <2>5. CleanWhileReading'
    BY <2>2, <2>4 DEF CleanWhileReading
  <2> QED
    BY <2>1, <2>2, <2>5 DEF Fresh, CleanBetweenCommands, RejectedSendsNothing,
                            SendIsBehind, MaskIsAssigned, AddressedAsAssigned
<1>13. ASSUME NEW m \in SlotMasks, SetSlot(m) PROVE IInv'
  <2>1. sent = <<>>
    BY <1>13, NothingSentYet DEF SetSlot, Ops
  <2>2. CleanWhileReading'
    BY <1>13, NoTokenStep DEF SetSlot, Ops
  <2>3. mode' = "command" /\ sent' = <<>> /\ slot_mask' \in assigned'
    BY <1>13, <2>1 DEF SetSlot, Advance, At
  <2> QED
    BY <2>2, <2>3 DEF Fresh, CleanBetweenCommands, RejectedSendsNothing,
                      SendIsBehind, MaskIsAssigned, AddressedAsAssigned
<1>14. CASE Write
  <2>1. PICK op \in Ops \ {"tok", "eos"} : At(op)
    BY <1>14, WriteShape
  <2>2. CleanWhileReading'
    BY <1>14, <2>1, WriteShape, NoTokenStep
  <2> QED
    BY <1>14, <2>2, WriteShape, QuietStep
<1>15. CASE Send
  <2>1. /\ mode = "command" /\ mode' = "command" /\ cmd' = cmd /\ pc' = pc + 1
        /\ pc \in Nat \ {0} /\ pc <= Len(cmd.ops) /\ cmd.ops[pc] = "send"
        /\ slot_mask' = slot_mask /\ assigned' = assigned
        /\ sent' = Append(sent, [text |-> json.text, mask |-> slot_mask])
    BY <1>15 DEF Send, Advance, At, TypeOK
  <2>2. cmd.ops \in Seq(Ops) /\ sent \in Seq(Request)
    BY ParserAssumption DEF TypeOK
  <2>3. CleanWhileReading'
    BY <1>15, NoTokenStep DEF Send, Ops
  <2>4. SendIsBehind'
    <3>1. pc \in 1..Len(cmd.ops) /\ pc < pc'
      BY <2>1, <2>2
    <3> QED
      BY <2>1, <3>1 DEF SendIsBehind
  <2>5. AddressedAsAssigned'
    <3> SUFFICES ASSUME assigned # {}, NEW i \in 1..Len(sent') PROVE sent'[i].mask \in assigned
      BY <2>1 DEF AddressedAsAssigned
    <3>1. slot_mask \in assigned /\ \A j \in 1..Len(sent) : sent[j].mask \in assigned
      BY <2>1 DEF MaskIsAssigned, AddressedAsAssigned
    <3>2. CASE i = Len(sent) + 1
      <4>1. sent'[i].mask = slot_mask
        BY <2>1, <2>2, <3>2
      <4> QED
        BY <3>1, <4>1
    <3>3. CASE i # Len(sent) + 1
      <4>1. i \in 1..Len(sent) /\ sent'[i] = sent[i]
        BY <2>1, <2>2, <3>3
      <4> QED
        BY <3>1, <4>1
    <3> QED
      BY <3>2, <3>3
  <2> QED
    BY <2>1, <2>3, <2>4, <2>5 DEF Fresh, CleanBetweenCommands, RejectedSendsNothing,
                                  MaskIsAssigned
<1>16. CASE UNCHANGED vars
  BY <1>16 DEF vars, readVars, resetVars, history, Fresh, CleanBetweenCommands,
               CleanWhileReading, RejectedSendsNothing, SendIsBehind, MaskIsAssigned,
               AddressedAsAssigned, Clean
<1> QED
  BY <1>1, <1>2, <1>3, <1>4, <1>5, <1>6, <1>7, <1>8, <1>9, <1>10, <1>11, <1>12, <1>13,
     <1>14, <1>15, <1>16 DEF Next, ParserStep

THEOREM Invariance == Spec => []IInv
<1>1. Init => IInv
  BY InitInv
<1>2. TypeOK /\ IInv /\ [Next]_vars => IInv'
  BY StepInv
<1> QED
  BY <1>1, <1>2, TypeCorrect, PTL DEF Spec

\* Whatever commands a line holds and wherever the parser gave one of them up,
\* the next one starts from the values cli_reset_command sets, unless a
\* yyparse has returned 1.
THEOREM Isolation == Spec => []CleanBetweenCommands
<1>1. IInv => CleanBetweenCommands
  BY DEF IInv
<1> QED
  BY <1>1, Invariance, PTL

\* A command that is given up has sent no request.
THEOREM RejectionIsSilent == Spec => []RejectedSendsNothing
<1>1. IInv => RejectedSendsNothing
  BY DEF IInv
<1> QED
  BY <1>1, Invariance, PTL

\* A command whose slots the parser has stored in slot_mask sends to no others.
\* Nothing is said of commands that name this board's slot or ports alone.
THEOREM Addressing == Spec => []AddressedAsAssigned
<1>1. IInv => AddressedAsAssigned
  BY DEF IInv
<1> QED
  BY <1>1, Invariance, PTL

-----------------------------------------------------------------------------
(***************************************************************************)
(* The text of a request.  A text is built symbol by symbol, and is good   *)
(* as long as neighbours fit and the map, once opened, holds no values but *)
(* those of its pairs.  The punctuation has names here, because the prover *)
(* takes two strings without letters for the same one.                     *)
(***************************************************************************)
Bracket == "["
Brace == "{"
Comma == ","
EndBrace == "}"
EndBracket == "]"

LEMMA Punctuation ==
  /\ {Bracket, Brace, Comma, EndBrace, EndBracket, "v", "k", "s"} = Symbol
  /\ Bracket # Brace /\ Bracket # Comma /\ Bracket # EndBrace /\ Bracket # EndBracket
  /\ Brace # Comma /\ Brace # EndBrace /\ Brace # EndBracket
  /\ Comma # EndBrace /\ Comma # EndBracket /\ EndBrace # EndBracket
  /\ \A s \in {"v", "k", "s"} : /\ s # Bracket /\ s # Brace /\ s # Comma
                                /\ s # EndBrace /\ s # EndBracket
BY Zenon DEF Symbol, Bracket, Brace, Comma, EndBrace, EndBracket

Opened(t) == \E i \in 1..Len(t) : t[i] = Brace
End(t) == t[Len(t)]
Fit(a, b) == <<a, b>> \in Follows
NoLooseValue(t) ==
  \A i, j \in 1..Len(t) :
     t[i] = Brace /\ i < j => t[j] # Brace /\ (t[j] = Comma /\ j < Len(t) => t[j + 1] # "v")
Good(t) ==
  /\ t \in Seq(Symbol) /\ t # <<>> /\ t[1] = Bracket
  /\ \A i \in 1..(Len(t) - 1) : Fit(t[i], t[i + 1])
  /\ NoLooseValue(t)

LEMMA Fitting ==
  /\ Fit(Bracket, "v") /\ Fit(Bracket, Brace) /\ Fit("v", Comma) /\ Fit("v", EndBrace)
  /\ Fit("v", EndBracket) /\ Fit(Comma, Comma) /\ Fit(Comma, "v") /\ Fit(Comma, "k")
  /\ Fit(Comma, Brace) /\ Fit(Comma, "s") /\ Fit(Brace, "k") /\ Fit(Brace, "s") /\ Fit("k", "v")
  /\ Fit("s", Comma) /\ Fit("s", EndBrace) /\ Fit(EndBrace, EndBracket)
BY Zenon DEF Fit, Follows, Bracket, Brace, Comma, EndBrace, EndBracket

\* What is to be shown of a complete text.
LEMMA CompleteText ==
  ASSUME NEW t, Good(t), Len(t) >= 3, End(t) = EndBracket, Opened(t) <=> t[Len(t) - 1] = EndBrace
  PROVE  WellFormed(t)
<1>1. Adjacent(t)
  BY Zenon DEF Adjacent, Good, Fit
<1>2. OneMap(t)
  BY Zenon DEF OneMap, Good, NoLooseValue, Brace, Comma
<1>3. t[1] = "[" /\ t[Len(t)] = "]"
  BY Zenon DEF Good, End, Bracket, EndBracket
<1>4. (\E i \in 1..Len(t) : t[i] = "{") <=> t[Len(t) - 1] = "}"
  BY Zenon DEF Opened, Brace, EndBrace
<1> QED
  BY <1>1, <1>2, <1>3, <1>4, Zenon DEF WellFormed

LEMMA FirstSymbol == Good(<<Bracket>>) /\ ~Opened(<<Bracket>>) /\ End(<<Bracket>>) = Bracket
BY Punctuation DEF Good, Opened, End, NoLooseValue

\* A symbol is added that may follow the last one.
LEMMA NextSymbol ==
  ASSUME NEW t, Good(t), NEW s \in Symbol, Fit(End(t), s),
         s = Brace => ~Opened(t), End(t) = Comma /\ s = "v" => ~Opened(t)
  PROVE  /\ Good(t \o <<s>>) /\ End(t \o <<s>>) = s
         /\ Opened(t \o <<s>>) <=> Opened(t) \/ s = Brace
         /\ Len(t \o <<s>>) = Len(t) + 1 /\ (t \o <<s>>)[Len(t)] = End(t)
<1> DEFINE n == Len(t)
           u == t \o <<s>>
<1>1. t \in Seq(Symbol) /\ n \in Nat \ {0} /\ <<s>> \in Seq(Symbol)
  BY DEF Good
<1>2. /\ u \in Seq(Symbol) /\ Len(u) = n + 1 /\ u # <<>> /\ u[n + 1] = s
      /\ \A i \in 1..n : u[i] = t[i]
  BY <1>1
<1> HIDE DEF u
<1>3. 1..Len(u) = 1..n \cup {n + 1}
  BY <1>1, <1>2
<1>4. \A i \in 1..(Len(u) - 1) : Fit(u[i], u[i + 1])
  <2> SUFFICES ASSUME NEW i \in 1..n PROVE Fit(u[i], u[i + 1])
    BY <1>1, <1>2
  <2>1. CASE i = n
    BY <1>1, <1>2, <2>1 DEF End
  <2>2. CASE i # n
    <3>1. i \in 1..(n - 1) /\ i + 1 \in 1..n
      BY <1>1, <2>2
    <3>2. Fit(t[i], t[i + 1])
      BY <3>1 DEF Good
    <3> QED
      BY <1>2, <3>1, <3>2
  <2> QED
    BY <2>1, <2>2
<1>5. NoLooseValue(u)
  <2> SUFFICES ASSUME NEW i \in 1..(n + 1), NEW j \in 1..(n + 1), u[i] = Brace, i < j
               PROVE  u[j] # Brace /\ (u[j] = Comma /\ j < n + 1 => u[j + 1] # "v")
    BY <1>2 DEF NoLooseValue
  <2>1. i \in 1..n /\ t[i] = Brace /\ Opened(t)
    BY <1>1, <1>2 DEF Opened
  <2>2. CASE j = n + 1
    BY <1>1, <1>2, <2>1, <2>2
  <2>3. CASE j = n
    <3>1. t[j] # Brace
      BY <1>1, <2>1, <2>3 DEF Good, NoLooseValue
    <3> QED
      BY <1>1, <1>2, <2>1, <2>3, <3>1 DEF End
  <2>4. CASE j # n + 1 /\ j # n
    <3>1. j \in 1..n /\ j < n /\ j + 1 \in 1..n
      BY <1>1, <2>4
    <3>2. t[j] # Brace /\ (t[j] = Comma => t[j + 1] # "v")
      BY <2>1, <3>1 DEF Good, NoLooseValue
    <3> QED
      BY <1>2, <3>1, <3>2
  <2> QED
    BY <2>2, <2>3, <2>4
<1>6. Opened(u) <=> Opened(t) \/ s = Brace
  BY <1>2, <1>3 DEF Opened
<1>7. u[1] = Bracket /\ u[n] = t[n]
  BY <1>1, <1>2 DEF Good
<1> QED
  BY <1>1, <1>2, <1>4, <1>5, <1>6, <1>7 DEF Good, End, u

-----------------------------------------------------------------------------
(* The writers of the builder, in front of the end of the list. *)

\* The flags say where the text stands.
Writing(b) ==
  /\ ~b.in_list => b.text = <<>> /\ ~b.in_map /\ ~b.in_pair
  /\ b.in_list => /\ Good(b.text) /\ End(b.text) = (IF b.in_pair THEN "k" ELSE "v")
                  /\ Opened(b.text) <=> b.in_map

\* A value or a section is behind, and no key waits.
Standing(b) ==
  /\ b.in_list /\ ~b.in_pair
  /\ Good(b.text) /\ End(b.text) \in {"v", "s"} /\ (Opened(b.text) <=> b.in_map)
  /\ End(b.text) = "s" => b.in_map

\* Nothing is added, or nothing was there.
LEMMA NothingAppended ==
  ASSUME NEW t \in Seq(Symbol)
  PROVE  t \o <<>> = t /\ <<>> \o t = t
OBVIOUS

\* A value may be written until the map is open, and behind a key.
LEMMA ValWritten ==
  ASSUME NEW b \in Builder, Writing(b), b.in_map => b.in_pair
  PROVE  /\ Writing(ConvertVal(b)) /\ ConvertVal(b).in_list
         /\ ConvertVal(b).in_map = b.in_map /\ ~ConvertVal(b).in_pair
<1> DEFINE c == ConvertVal(b)
<1>1. /\ c.in_list /\ ~c.in_pair /\ c.in_map = b.in_map
      /\ c.text = b.text \o Separator(b) \o <<"v">> /\ b.text \in Seq(Symbol)
  BY DEF Builder, ConvertVal
<1>s. "v" \in Symbol /\ Comma \in Symbol /\ "v" # Brace /\ Comma # Brace /\ Comma # "v"
  BY Punctuation
<1> SUFFICES Good(c.text) /\ End(c.text) = "v" /\ (Opened(c.text) <=> b.in_map)
  BY <1>1 DEF Writing
<1> HIDE DEF c
<1>2. CASE ~b.in_list
  <2>1. Separator(b) = <<Bracket>> /\ b.text = <<>> /\ ~b.in_map
    BY <1>2, Zenon DEF Separator, Bracket, Writing
  <2>2. c.text = <<Bracket>> \o <<"v">>
    BY <1>1, <2>1, FirstSymbol, NothingAppended DEF Good
  <2>3. Good(<<Bracket>>) /\ ~Opened(<<Bracket>>) /\ End(<<Bracket>>) = Bracket /\ Bracket # Comma
    BY FirstSymbol, Punctuation
  <2>4. Fit(End(<<Bracket>>), "v")
    BY <2>3, Fitting
  <2> QED
    BY <2>1, <2>2, <2>3, <2>4, <1>s, NextSymbol
<1>3. CASE b.in_list /\ b.in_pair
  <2>1. Separator(b) = <<>> /\ Good(b.text) /\ End(b.text) = "k" /\ (Opened(b.text) <=> b.in_map)
    BY <1>3, Zenon DEF Separator, Writing
  <2>2. c.text = b.text \o <<"v">>
    BY <1>1, <2>1, NothingAppended
  <2>3. Fit(End(b.text), "v") /\ End(b.text) # Comma
    BY <2>1, Fitting, Punctuation
  <2> QED
    BY <2>1, <2>2, <2>3, <1>s, NextSymbol
<1>4. CASE b.in_list /\ ~b.in_pair
  <2>1. Separator(b) = <<Comma>> /\ Good(b.text) /\ End(b.text) = "v" /\ ~Opened(b.text) /\ ~b.in_map
    BY <1>4, Zenon DEF Separator, Writing, Comma
  <2> DEFINE u == b.text \o <<Comma>>
  <2>2. c.text = u \o <<"v">>
    BY <1>1, <2>1
  <2>3. Fit(End(b.text), Comma)
    BY <2>1, Fitting
  <2>4. Good(u) /\ End(u) = Comma /\ ~Opened(u)
    BY <2>1, <2>3, <1>s, NextSymbol
  <2> HIDE DEF u
  <2>5. Fit(End(u), "v")
    BY <2>4, Fitting
  <2> QED
    BY <2>1, <2>2, <2>4, <2>5, <1>s, NextSymbol
<1> QED
  BY <1>2, <1>3, <1>4

\* What stands in front of a key, once its brace is due or written.
LEMMA KeyWritten ==
  ASSUME NEW b \in Builder, Writing(b), ~b.in_pair
  PROVE  /\ Writing(ConvertKey(b)) /\ ConvertKey(b).in_list
         /\ ConvertKey(b).in_map /\ ConvertKey(b).in_pair
<1> DEFINE c == ConvertKey(b)
           brace == IF b.in_map THEN <<>> ELSE <<Brace>>
           t == b.text \o Separator(b)
<1>1. c.in_list /\ c.in_pair /\ c.in_map /\ b.text \in Seq(Symbol)
  BY DEF Builder, ConvertKey
<1>2. c.text = t \o brace \o <<"k">>
  BY Zenon DEF Builder, ConvertKey, Brace
<1>s. /\ "k" \in Symbol /\ Comma \in Symbol /\ Brace \in Symbol
      /\ "k" # Brace /\ Comma # Brace /\ Comma # "v" /\ Comma # "k" /\ "k" # "v" /\ Brace # "v"
  BY Punctuation
<1> SUFFICES Good(c.text) /\ End(c.text) = "k" /\ Opened(c.text)
  BY <1>1 DEF Writing
<1> HIDE DEF c
<1>3. /\ Good(t) /\ (Opened(t) <=> b.in_map) /\ End(t) \in {Bracket, Comma}
      /\ End(t) = Bracket => ~b.in_map
  <2>1. CASE ~b.in_list
    <3>1. Separator(b) = <<Bracket>> /\ b.text = <<>> /\ ~b.in_map
      BY <2>1, Zenon DEF Separator, Bracket, Writing
    <3>2. t = <<Bracket>>
      BY <3>1, FirstSymbol, NothingAppended DEF Good
    <3> QED
      BY <3>1, <3>2, FirstSymbol, Zenon
  <2>2. CASE b.in_list
    <3>1. /\ Separator(b) = <<Comma>> /\ Good(b.text) /\ End(b.text) = "v"
          /\ Opened(b.text) <=> b.in_map
      BY <2>2, Zenon DEF Separator, Writing, Comma
    <3>2. Fit(End(b.text), Comma) /\ Comma # Bracket
      BY <3>1, Fitting, Punctuation
    <3>3. t = b.text \o <<Comma>>
      BY <3>1
    <3> HIDE DEF t
    <3>4. Good(t) /\ End(t) = Comma /\ (Opened(t) <=> Opened(b.text) \/ Comma = Brace)
      BY <3>1, <3>2, <3>3, <1>s, NextSymbol
    <3> QED
      BY <3>1, <3>2, <3>4, <1>s
  <2> QED
    BY <2>1, <2>2
<1> HIDE DEF t
<1>4. CASE b.in_map
  <2>1. brace = <<>> /\ End(t) = Comma /\ t \in Seq(Symbol)
    BY <1>3, <1>4 DEF Good
  <2>2. c.text = t \o <<"k">>
    BY <1>2, <2>1, NothingAppended
  <2>3. Fit(End(t), "k")
    BY <2>1, Fitting
  <2> QED
    BY <1>3, <1>4, <2>1, <2>2, <2>3, <1>s, NextSymbol
<1>5. CASE ~b.in_map
  <2> DEFINE u == t \o <<Brace>>
  <2>1. c.text = u \o <<"k">>
    BY <1>2, <1>5
  <2>2. Fit(End(t), Brace)
    BY <1>3, Fitting
  <2>3. Good(u) /\ End(u) = Brace /\ Opened(u)
    BY <1>3, <1>5, <2>2, <1>s, NextSymbol
  <2> HIDE DEF u
  <2>4. Fit(End(u), "k")
    BY <2>3, Fitting
  <2> QED
    BY <2>1, <2>3, <2>4, <1>s, NextSymbol
<1> QED
  BY <1>4, <1>5

LEMMA SectionWritten ==
  ASSUME NEW b \in Builder, Standing(b)
  PROVE  Standing(ConvertSection(b))
<1> DEFINE c == ConvertSection(b)
           s == IF b.in_map THEN Comma ELSE Brace
           t == b.text \o <<Comma>>
           u == t \o <<s>>
<1>1. /\ c.in_list = b.in_list /\ c.in_pair = b.in_pair /\ c.in_map
      /\ c.text = t \o (IF b.in_map THEN <<Comma>> ELSE <<Brace>>) \o <<"s">>
  BY Zenon DEF Standing, Builder, ConvertSection, Comma, Brace
<1>2. c.text = u \o <<"s">>
  BY <1>1
<1>s. /\ "s" \in Symbol /\ Comma \in Symbol /\ Brace \in Symbol
      /\ "s" # Brace /\ Comma # Brace /\ "s" # "v" /\ "v" # Comma /\ Brace # "v"
  BY Punctuation
<1> SUFFICES Good(c.text) /\ End(c.text) = "s" /\ Opened(c.text)
  BY <1>1 DEF Standing
<1> HIDE DEF c
<1>3. Good(t) /\ End(t) = Comma /\ (Opened(t) <=> b.in_map)
  <2>1. Fit(End(b.text), Comma)
    BY Fitting DEF Standing
  <2> QED
    BY <2>1, <1>s, NextSymbol DEF Standing
<1> HIDE DEF t
<1>4. Good(u) /\ End(u) = s /\ Opened(u)
  <2>1. Fit(End(t), s) /\ s \in Symbol /\ s # "v" /\ (s = Brace => ~Opened(t))
          /\ (s = Brace \/ b.in_map)
    BY <1>3, <1>s, Fitting
  <2> HIDE DEF s
  <2> QED
    BY <1>3, <2>1, NextSymbol
<1>5. Fit(End(u), "s") /\ End(u) \in {Comma, Brace}
  BY <1>4, Fitting
<1> HIDE DEF u
<1> QED
  BY <1>2, <1>4, <1>5, <1>s, NextSymbol

\* What close_json completes.
LEMMA ClosedWhole ==
  ASSUME NEW b \in Builder, Standing(b)
  PROVE  WellFormed(b.text \o (IF b.in_map THEN <<EndBrace>> ELSE <<>>) \o <<EndBracket>>)
<1> DEFINE n == Len(b.text)
           t == b.text \o (IF b.in_map THEN <<EndBrace>> ELSE <<>>) \o <<EndBracket>>
<1>s. /\ EndBrace \in Symbol /\ EndBracket \in Symbol /\ EndBrace # Brace /\ EndBracket # Brace
      /\ EndBrace # "v" /\ EndBracket # "v" /\ EndBracket # EndBrace
      /\ "v" # EndBrace /\ "s" # EndBrace /\ "v" # Bracket /\ "s" # Bracket
  BY Punctuation
<1>1. b.text \in Seq(Symbol) /\ n \in Nat /\ n >= 2 /\ Good(b.text)
  <2>1. Good(b.text) /\ b.text[n] # Bracket /\ b.text \in Seq(Symbol)
    BY <1>s DEF Standing, End, Good
  <2>2. b.text # <<>> /\ b.text[1] = Bracket
    BY <2>1 DEF Good
  <2>3. n # 0 /\ n # 1 /\ n \in Nat
    BY <2>1, <2>2
  <2> HIDE DEF n
  <2> QED
    BY <2>1, <2>3
<1>2. CASE b.in_map
  <2> DEFINE u == b.text \o <<EndBrace>>
  <2>1. t = u \o <<EndBracket>>
    BY <1>2
  <2> HIDE DEF t
  <2>2. Fit(End(b.text), EndBrace)
    BY Fitting DEF Standing
  <2>3. Good(u) /\ End(u) = EndBrace /\ Opened(u) /\ Len(u) = n + 1
    BY <1>1, <1>2, <2>2, <1>s, NextSymbol DEF Standing
  <2> HIDE DEF u, n
  <2>4. Fit(End(u), EndBracket)
    BY <2>3, Fitting
  <2>5. /\ Good(t) /\ End(t) = EndBracket /\ Opened(t) /\ Len(t) = Len(u) + 1
        /\ t[Len(u)] = EndBrace
    <3>1. /\ Good(u \o <<EndBracket>>) /\ End(u \o <<EndBracket>>) = EndBracket
          /\ Opened(u \o <<EndBracket>>) <=> Opened(u) \/ EndBracket = Brace
          /\ Len(u \o <<EndBracket>>) = Len(u) + 1 /\ (u \o <<EndBracket>>)[Len(u)] = End(u)
      BY <2>3, <2>4, <1>s, NextSymbol
    <3> QED
      BY <2>1, <2>3, <3>1
  <2>6. Len(t) >= 3 /\ Len(t) - 1 = Len(u)
    BY <1>1, <2>3, <2>5
  <2> QED
    BY <2>5, <2>6, CompleteText DEF t
<1>3. CASE ~b.in_map
  <2>1. t = b.text \o <<EndBracket>>
    BY <1>1, <1>3, NothingAppended
  <2> HIDE DEF t
  <2>2. End(b.text) = "v" /\ ~Opened(b.text)
    BY <1>3 DEF Standing
  <2>3. Fit(End(b.text), EndBracket)
    BY <2>2, Fitting
  <2>4. /\ Good(t) /\ End(t) = EndBracket /\ ~Opened(t) /\ Len(t) = n + 1
        /\ t[n] = "v"
    BY <1>1, <2>1, <2>2, <2>3, <1>s, NextSymbol
  <2> HIDE DEF n
  <2>5. Len(t) >= 3 /\ Len(t) - 1 = n
    BY <1>1, <2>4
  <2> QED
    BY <1>s, <2>4, <2>5, CompleteText DEF t
<1> QED
  BY <1>2, <1>3

LEMMA Closed ==
  ASSUME NEW b \in Builder, Writing(b), ~b.in_pair, NEW ud \in BOOLEAN, NEW rg \in BOOLEAN,
         ud \/ rg => b.in_list
  PROVE  CloseJson(b, ud, rg).text = <<>> \/ WellFormed(CloseJson(b, ud, rg).text)
<1> DEFINE c == IF ud THEN ConvertSection(b) ELSE b
           d == IF rg THEN ConvertSection(c) ELSE c
           brace == IF d.in_map THEN <<EndBrace>> ELSE <<>>
           bracket == IF d.in_list THEN <<EndBracket>> ELSE <<>>
<1>1. c \in Builder /\ d \in Builder
  <2>1. c \in Builder
    BY ConvertSectionType
  <2> HIDE DEF c
  <2> QED
    BY <2>1, ConvertSectionType
<1>2. CloseJson(b, ud, rg) = [d EXCEPT !.text = @ \o brace \o bracket]
  BY Zenon DEF CloseJson, EndBrace, EndBracket
<1>3. CloseJson(b, ud, rg).text = d.text \o brace \o bracket
  <2> HIDE DEF d, brace, bracket
  <2> QED
    BY <1>1, <1>2 DEF Builder
<1>4. CASE b.in_list
  <2>1. Standing(b)
    BY <1>4 DEF Writing, Standing
  <2>2. Standing(c)
    BY <2>1, SectionWritten
  <2>3. Standing(d)
    <3> HIDE DEF c
    <3> QED BY <1>1, <2>2, SectionWritten
  <2> HIDE DEF d
  <2>4. bracket = <<EndBracket>>
    BY <2>3 DEF Standing
  <2> QED
    BY <1>1, <1>3, <2>3, <2>4, ClosedWhole
<1>5. CASE ~b.in_list
  <2>1. c = b /\ d = b /\ b.text = <<>> /\ ~b.in_map
    BY <1>5 DEF Writing
  <2>2. brace = <<>> /\ bracket = <<>>
    BY <1>5, <2>1
  <2>3. CloseJson(b, ud, rg).text = <<>> \o <<>> \o <<>>
    BY <1>3, <2>1, <2>2
  <2> QED
    BY <2>3
<1> QED
  BY <1>4, <1>5

LEMMA Parity ==
  ASSUME NEW k \in Nat
  PROVE  (k % 2 = 1 /\ (k + 1) % 2 # 1) \/ (k % 2 # 1 /\ (k + 1) % 2 = 1)
OBVIOUS

\* The ids of a hash list follow its count.
LEMMA OutportsWritten ==
  ASSUME NEW b \in Builder, Writing(b), b.in_list, ~b.in_map, ~b.in_pair, NEW n \in Nat,
         NEW c \in Builder, c.in_list, ~c.in_map, ~c.in_pair,
         c.text = b.text \o [i \in 1..(2 * n) |-> IF i % 2 = 1 THEN Comma ELSE "v"]
  PROVE  Writing(c)
<1> DEFINE ids == [i \in 1..(2 * n) |-> IF i % 2 = 1 THEN Comma ELSE "v"]
           t == b.text
           u == c.text
           l == Len(t)
<1>1. /\ "v" \in Symbol /\ Comma \in Symbol /\ Comma # Brace /\ "v" # Brace
      /\ Fit("v", Comma) /\ Fit(Comma, "v")
  BY Punctuation, Fitting
<1>2. t \in Seq(Symbol) /\ l \in Nat \ {0} /\ Good(t) /\ t[l] = "v" /\ ~Opened(t) /\ t[1] = Bracket
  BY DEF Writing, Good, End
<1>3. ids \in Seq(Symbol) /\ Len(ids) = 2 * n /\ 2 * n \in Nat
  <2>1. ids \in [1..(2 * n) -> Symbol] /\ 2 * n \in Nat
    BY <1>1
  <2> QED
    BY <2>1, SeqDef
<1>4. \A k \in 1..(2 * n) : ids[k] = IF k % 2 = 1 THEN Comma ELSE "v"
  OBVIOUS
<1> HIDE DEF ids
<1>5. /\ u \in Seq(Symbol) /\ Len(u) = l + 2 * n
      /\ \A i \in 1..l : u[i] = t[i]
      /\ \A k \in 1..(2 * n) : u[l + k] = ids[k]
  <2>1. u = t \o ids
    BY DEF ids
  <2> HIDE DEF t, u
  <2> QED
    BY <1>2, <1>3, <2>1 DEF l
<1> HIDE DEF t, u, l
<1>6. \A i \in 1..(l + 2 * n) : i \in 1..l \/ (i - l \in 1..(2 * n) /\ l + (i - l) = i)
  BY <1>2, <1>3
<1>7. \A i \in 1..(l + 2 * n) : u[i] # Brace
  <2> TAKE i \in 1..(l + 2 * n)
  <2>1. CASE i \in 1..l
    BY <1>2, <1>5, <2>1 DEF Opened, l
  <2>2. CASE i - l \in 1..(2 * n) /\ l + (i - l) = i
    BY <1>1, <1>4, <1>5, <2>2
  <2> QED
    BY <1>6, <2>1, <2>2
<1>8. \A i \in 1..((l + 2 * n) - 1) : Fit(u[i], u[i + 1])
  <2> TAKE i \in 1..((l + 2 * n) - 1)
  <2>1. CASE i < l
    <3>1. i \in 1..(l - 1) /\ i \in 1..l /\ i + 1 \in 1..l
      BY <1>2, <2>1
    <3>2. Fit(t[i], t[i + 1])
      BY <1>2, <3>1 DEF Good, l
    <3> QED
      BY <1>5, <3>1, <3>2
  <2>2. CASE i = l
    <3>1. 1 \in 1..(2 * n) /\ l \in 1..l
      BY <1>2, <1>3, <2>2
    <3>2. u[l] = "v" /\ u[l + 1] = Comma
      <4>1. ids[1] = Comma
        BY <1>4, <3>1
      <4> QED
        BY <1>2, <1>5, <3>1, <4>1
    <3> QED
      BY <1>1, <2>2, <3>2
  <2>3. CASE i > l
    <3> DEFINE k == i - l
    <3>1. k \in 1..(2 * n) /\ k + 1 \in 1..(2 * n) /\ l + k = i /\ l + (k + 1) = i + 1
      BY <1>2, <1>3, <2>3
    <3>2. u[i] = ids[k] /\ u[i + 1] = ids[k + 1]
      BY <1>5, <3>1, SMTT(30)
    <3> HIDE DEF k
    <3>3. (k % 2 = 1 /\ (k + 1) % 2 # 1) \/ (k % 2 # 1 /\ (k + 1) % 2 = 1)
      BY <3>1, Parity
    <3>4. (ids[k] = Comma /\ ids[k + 1] = "v") \/ (ids[k] = "v" /\ ids[k + 1] = Comma)
      BY <1>4, <3>1, <3>3
    <3> QED
      BY <1>1, <3>2, <3>4
  <2> QED
    BY <1>2, <1>3, <2>1, <2>2, <2>3
<1>9. u[l + 2 * n] = "v"
  <2>1. CASE n = 0
    <3>1. l + 2 * n = l /\ l \in 1..l
      BY <1>2, <2>1
    <3> QED
      BY <1>2, <1>5, <3>1
  <2>2. CASE n # 0
    <3>1. 2 * n \in 1..(2 * n) /\ (2 * n) % 2 # 1
      BY <1>3, <2>2
    <3> QED
      BY <1>4, <1>5, <3>1
  <2> QED
    BY <2>1, <2>2
<1>10. ~Opened(u) /\ NoLooseValue(u)
  BY <1>5, <1>7 DEF Opened, NoLooseValue
<1>11. u # <<>> /\ u[1] = Bracket
  <2>1. 1 \in 1..l /\ Len(u) # 0
    BY <1>2, <1>3, <1>5
  <2> QED
    BY <1>2, <1>5, <2>1
<1>12. Good(u) /\ End(u) = "v"
  <2>1. u \in Seq(Symbol) /\ Len(u) = l + 2 * n
    BY <1>5
  <2>2. \A i \in 1..(Len(u) - 1) : Fit(u[i], u[i + 1])
    BY <1>8, <2>1, Zenon
  <2>3. Good(u)
    BY <1>10, <1>11, <2>1, <2>2, Zenon DEF Good
  <2>4. End(u) = "v"
    BY <1>9, <2>1, Zenon DEF End
  <2> QED
    BY <2>3, <2>4
<1> QED
  BY <1>10, <1>12 DEF Writing, u

-----------------------------------------------------------------------------
(* The ops in front of the next one. *)
LEMMA NothingBefore ==
  ASSUME NEW ops
  PROVE  Before(ops, 1) = {} /\ ~Pending(ops, 1)
<1>1. 1..(1 - 1) = {}
  OBVIOUS
<1> QED
  BY <1>1 DEF Before, Pending

LEMMA OneMoreBefore ==
  ASSUME NEW ops \in Seq(Ops), NEW j \in 1..Len(ops)
  PROVE  /\ Before(ops, j + 1) = Before(ops, j) \cup {ops[j]}
         /\ Pending(ops, j + 1) <=> ops[j] = "key" \/ (Pending(ops, j) /\ ops[j] # "val")
<1>1. j \in Nat \ {0} /\ (j + 1) - 1 = j /\ 1..j = 1..(j - 1) \cup {j}
  OBVIOUS
<1>2. Before(ops, j + 1) = Before(ops, j) \cup {ops[j]}
  BY <1>1 DEF Before
<1>3. ASSUME ops[j] = "key" PROVE Pending(ops, j + 1)
  <2>1. j \in 1..((j + 1) - 1) /\ (j + 1)..((j + 1) - 1) = {}
    BY <1>1
  <2> QED
    BY <1>3, <2>1 DEF Pending
<1>4. ASSUME Pending(ops, j), ops[j] # "val" PROVE Pending(ops, j + 1)
  <2>1. PICK i \in 1..(j - 1) : ops[i] = "key" /\ \A k \in (i + 1)..(j - 1) : ops[k] # "val"
    BY <1>4 DEF Pending
  <2>2. i \in 1..((j + 1) - 1) /\ \A k \in (i + 1)..((j + 1) - 1) : k \in (i + 1)..(j - 1) \/ k = j
    BY <1>1, <2>1
  <2> QED
    BY <1>4, <2>1, <2>2 DEF Pending
<1>5. ASSUME Pending(ops, j + 1), ops[j] # "key"
      PROVE  Pending(ops, j) /\ ops[j] # "val"
  <2>1. PICK i \in 1..((j + 1) - 1) :
          ops[i] = "key" /\ \A k \in (i + 1)..((j + 1) - 1) : ops[k] # "val"
    BY <1>5 DEF Pending
  <2>2. i \in 1..(j - 1) /\ j \in (i + 1)..((j + 1) - 1)
          /\ \A k \in (i + 1)..(j - 1) : k \in (i + 1)..((j + 1) - 1)
    BY <1>1, <1>5, <2>1
  <2> QED
    BY <2>1, <2>2 DEF Pending
<1> QED
  BY <1>2, <1>3, <1>4, <1>5

\* Where the builder and the flags stand in front of the j-th op of a command
\* that has sent nothing.
RequestSoFar(ops, j, b, ud, range) ==
  LET before == Before(ops, j)
  IN  /\ "send" \notin before
      /\ ud <=> "ud" \in before
      /\ range <=> "range" \in before
      /\ "close" \notin before =>
           /\ b.in_list <=> "val" \in before \/ "key" \in before
           /\ b.in_map <=> "key" \in before
           /\ b.in_pair <=> Pending(ops, j)
           /\ Writing(b)
      /\ "close" \in before => b.text = <<>> \/ WellFormed(b.text)

LEMMA NothingSoFar ==
  ASSUME NEW ops
  PROVE  RequestSoFar(ops, 1, EmptyBuilder, FALSE, FALSE)
BY NothingBefore DEF RequestSoFar, EmptyBuilder, Writing

\* What an op that sends nothing makes of a builder b and the flags.
Effect(op, b, ud, range, d, ud2, range2) ==
  /\ ud2 <=> ud \/ op = "ud"
  /\ range2 <=> range \/ op = "range"
  /\ op = "val" => d = ConvertVal(b)
  /\ op = "key" => d = ConvertKey(b)
  /\ op = "hashvals" =>
       \E n \in Nat : d = [b EXCEPT !.text = @ \o [i \in 1..(2 * n) |->
                                                 IF i % 2 = 1 THEN Comma ELSE "v"]]
  /\ op = "close" => d = CloseJson(b, ud, range)
  /\ op \notin {"val", "key", "hashvals", "close"} => d = b

\* One op more.
LEMMA RequestGrows ==
  ASSUME NEW c \in Commands, NEW j \in 1..Len(c.ops),
         NEW b \in Builder, NEW ud \in BOOLEAN, NEW range \in BOOLEAN,
         RequestSoFar(c.ops, j, b, ud, range),
         NEW d \in Builder, NEW ud2 \in BOOLEAN, NEW range2 \in BOOLEAN,
         c.ops[j] # "send",
         Effect(c.ops[j], b, ud, range, d, ud2, range2)
  PROVE  RequestSoFar(c.ops, j + 1, d, ud2, range2)
<1> DEFINE op == c.ops[j]
           before == Before(c.ops, j)
           after == Before(c.ops, j + 1)
           wait == Pending(c.ops, j)
           wait2 == Pending(c.ops, j + 1)
<1>1. c.ops \in Seq(Ops)
  BY ParserAssumption
<1>2. after = before \cup {op} /\ (wait2 <=> op = "key" \/ (wait /\ op # "val"))
  BY <1>1, OneMoreBefore
<1>3. /\ "send" \notin before
      /\ ud <=> "ud" \in before
      /\ range <=> "range" \in before
      /\ "close" \notin before =>
           /\ b.in_list <=> "val" \in before \/ "key" \in before
           /\ b.in_map <=> "key" \in before
           /\ b.in_pair <=> wait
           /\ Writing(b)
      /\ "close" \in before => b.text = <<>> \/ WellFormed(b.text)
  BY DEF RequestSoFar
<1>4. /\ op \in {"val", "key", "hashvals", "close"} => "close" \notin before
      /\ op = "val" /\ "key" \in before => wait
      /\ op \in {"key", "close"} => ~wait
      /\ op = "hashvals" => "val" \in before /\ "key" \notin before
      /\ op = "close" /\ ("ud" \in before \/ "range" \in before) => "val" \in before
  BY <1>3, RequestAssumption
<1> HIDE DEF op, before, after, wait, wait2
<1>5. /\ "send" \notin after
      /\ ud2 <=> "ud" \in after
      /\ range2 <=> "range" \in after
  BY <1>2, <1>3 DEF op, Effect
<1> SUFFICES
      /\ "close" \notin after =>
           /\ d.in_list <=> "val" \in after \/ "key" \in after
           /\ d.in_map <=> "key" \in after
           /\ d.in_pair <=> wait2
           /\ Writing(d)
      /\ "close" \in after => d.text = <<>> \/ WellFormed(d.text)
  BY <1>5, Zenon DEF RequestSoFar, after, wait2
<1>6. CASE op = "val"
  <2>1. d = ConvertVal(b) /\ (b.in_map => b.in_pair) /\ Writing(b) /\ "close" \notin before
    BY <1>3, <1>4, <1>6 DEF op, Effect
  <2>2. Writing(d) /\ d.in_list /\ d.in_map = b.in_map /\ ~d.in_pair
    BY <2>1, ValWritten
  <2> QED
    BY <1>2, <1>3, <1>6, <2>1, <2>2
<1>7. CASE op = "key"
  <2>1. d = ConvertKey(b) /\ ~b.in_pair /\ Writing(b) /\ "close" \notin before
    BY <1>3, <1>4, <1>7 DEF op, Effect
  <2>2. Writing(d) /\ d.in_list /\ d.in_map /\ d.in_pair
    BY <2>1, KeyWritten
  <2> QED
    BY <1>2, <1>3, <1>7, <2>1, <2>2
<1>8. CASE op = "hashvals"
  <2>1. /\ b.in_list /\ ~b.in_map /\ ~b.in_pair /\ Writing(b)
        /\ "close" \notin before /\ "val" \in before
    <3>1. ~wait
      BY <1>1, <1>4, <1>8 DEF wait, Pending, Before, before
    <3> QED
      BY <1>3, <1>4, <1>8, <3>1
  <2>2. PICK n \in Nat : d = [b EXCEPT !.text = @ \o [i \in 1..(2 * n) |->
                                                    IF i % 2 = 1 THEN Comma ELSE "v"]]
    BY <1>8 DEF op, Effect
  <2>3. /\ d.text = b.text \o [i \in 1..(2 * n) |-> IF i % 2 = 1 THEN Comma ELSE "v"]
        /\ d.in_list = b.in_list /\ d.in_map = b.in_map /\ d.in_pair = b.in_pair
    BY <2>2, Zenon DEF Builder
  <2>4. Writing(d)
    BY <2>1, <2>3, OutportsWritten
  <2> QED
    BY <1>2, <1>3, <1>8, <2>1, <2>3, <2>4
<1>9. CASE op = "close"
  <2>1. /\ d = CloseJson(b, ud, range) /\ ~b.in_pair /\ Writing(b)
        /\ ud \/ range => b.in_list
    BY <1>3, <1>4, <1>9 DEF op, Effect
  <2>2. d.text = <<>> \/ WellFormed(d.text)
    BY <2>1, Closed
  <2> QED
    BY <1>2, <1>9, <2>2
<1>10. CASE op \notin {"val", "key", "hashvals", "close"}
  <2>1. d = b
    BY <1>10 DEF op, Effect
  <2> QED
    BY <1>2, <1>3, <1>10, <2>1
<1> QED
  BY <1>6, <1>7, <1>8, <1>9, <1>10

\* The request that leaves first.
LEMMA RequestWhole ==
  ASSUME NEW c \in Commands, NEW j \in 1..Len(c.ops), c.ops[j] = "send",
         NEW b \in Builder, NEW ud \in BOOLEAN, NEW range \in BOOLEAN,
         RequestSoFar(c.ops, j, b, ud, range)
  PROVE  b.text = <<>> \/ WellFormed(b.text)
<1> DEFINE before == Before(c.ops, j)
<1>1. "send" \notin before
  BY DEF RequestSoFar
<1>2. "val" \in before \/ "key" \in before => "close" \in before
  BY <1>1, RequestAssumption
<1>3. "close" \notin before => ~b.in_list /\ Writing(b)
  BY <1>2 DEF RequestSoFar
<1> QED
  BY <1>3 DEF RequestSoFar, Writing

-----------------------------------------------------------------------------
(***************************************************************************)
(* Up to the first request the builder follows the ops, and the history    *)
(* keeps what left first.                                                  *)
(***************************************************************************)
PayloadInv ==
  mode = "command" /\ ~tainted /\ sent = <<>> /\ pc <= Len(cmd.ops) =>
    RequestSoFar(cmd.ops, pc, json, ud_flag, range_flag)

\* A step past an op that sends nothing.
LEMMA GrowingStep ==
  ASSUME TypeOK, TypeOK', PayloadInv, FirstPayloadWellFormed,
         mode = "command", pc <= Len(cmd.ops), Advance, UNCHANGED <<sent, tainted>>,
         cmd.ops[pc] # "send",
         Effect(cmd.ops[pc], json, ud_flag, range_flag, json', ud_flag', range_flag')
  PROVE  PayloadInv' /\ FirstPayloadWellFormed'
<1>1. FirstPayloadWellFormed'
  BY DEF FirstPayloadWellFormed, Advance
<1>2. /\ cmd \in Commands /\ pc \in 1..Len(cmd.ops) /\ cmd' = cmd /\ pc' = pc + 1
      /\ json \in Builder /\ json' \in Builder
      /\ ud_flag \in BOOLEAN /\ ud_flag' \in BOOLEAN
      /\ range_flag \in BOOLEAN /\ range_flag' \in BOOLEAN
  <2>1. cmd.ops \in Seq(Ops)
    BY ParserAssumption DEF TypeOK
  <2> QED
    BY <2>1 DEF TypeOK, Advance
<1>3. PayloadInv'
  <2> SUFFICES ASSUME ~tainted, sent = <<>>
               PROVE  RequestSoFar(cmd.ops, pc + 1, json', ud_flag', range_flag')
    BY <1>2, Zenon DEF PayloadInv
  <2>1. RequestSoFar(cmd.ops, pc, json, ud_flag, range_flag)
    BY DEF PayloadInv
  <2> QED
    BY <1>2, <2>1, RequestGrows
<1> QED
  BY <1>1, <1>3

LEMMA InitPayload == Init => PayloadInv /\ FirstPayloadWellFormed
BY DEF Init, PayloadInv, FirstPayloadWellFormed

LEMMA StepPayload ==
  ASSUME TypeOK, TypeOK', IInv, PayloadInv, FirstPayloadWellFormed, [Next]_vars
  PROVE  PayloadInv' /\ FirstPayloadWellFormed'
\* Outside a command nothing is claimed, and behind its last op neither.
<1>a. ASSUME mode' # "command" PROVE PayloadInv' /\ FirstPayloadWellFormed'
  BY <1>a DEF PayloadInv, FirstPayloadWellFormed
<1>b. /\ UNCHANGED resetVars => UNCHANGED <<json, ud_flag, range_flag>>
      /\ UNCHANGED history => UNCHANGED <<sent, tainted>>
  BY DEF resetVars, history
<1>1. CASE StartParse \/ EndOfLine \/ EndCommand \/ SyntaxError \/ Reject \/ Resync \/ Abort \/ Accept
  BY <1>1, <1>a DEF StartParse, EndOfLine, EndCommand, SyntaxError, Reject, Resync, Abort, Accept
<1>2. ASSUME NEW c \in Commands, Begin(c) PROVE PayloadInv' /\ FirstPayloadWellFormed'
  <2>1. /\ mode = "boundary" /\ cmd' = c /\ pc' = pc
        /\ UNCHANGED <<json, ud_flag, range_flag, sent, tainted>>
    BY <1>2, <1>b DEF Begin
  <2>2. pc = 1 /\ sent = <<>>
    BY <2>1 DEF IInv, Fresh
  <2>3. FirstPayloadWellFormed'
    BY <2>1, <2>2 DEF FirstPayloadWellFormed
  <2>4. ASSUME ~tainted PROVE RequestSoFar(c.ops, 1, json, ud_flag, range_flag)
    <3>1. json = EmptyBuilder /\ ud_flag = FALSE /\ range_flag = FALSE
      BY <2>1, <2>4 DEF IInv, CleanBetweenCommands, Clean, TypeOK
    <3> QED
      BY <3>1, NothingSoFar
  <2> QED
    BY <2>1, <2>2, <2>3, <2>4, Zenon DEF PayloadInv
<1>3. CASE ReadToken \/ ReadEos \/ Pass
  <2>1. mode = "command" /\ pc <= Len(cmd.ops) /\ cmd.ops[pc] \in {"tok", "eos", "check", "guard", "own"}
    BY <1>3 DEF ReadToken, ReadEos, Pass, At
  <2>2. Advance /\ UNCHANGED <<json, ud_flag, range_flag, sent, tainted>>
    BY <1>3, <1>b DEF ReadToken, ReadEos, Pass
  <2> QED
    BY <2>1, <2>2, GrowingStep DEF Effect
<1>4. CASE Skip
  <2>1. pc' = Len(cmd.ops) + 1 /\ UNCHANGED <<mode, cmd, sent, tainted>>
    BY <1>4, <1>b DEF Skip
  <2>2. cmd.ops \in Seq(Ops)
    BY ParserAssumption DEF TypeOK
  <2>3. ~(pc' <= Len(cmd'.ops))
    BY <2>1, <2>2
  <2> QED
    BY <2>1, <2>3 DEF PayloadInv, FirstPayloadWellFormed
<1>5. ASSUME NEW m \in SlotMasks, SetSlot(m) PROVE PayloadInv' /\ FirstPayloadWellFormed'
  BY <1>5, <1>b, GrowingStep DEF SetSlot, At, Effect
<1>6. CASE WriteVal
  BY <1>6, <1>b, GrowingStep DEF WriteVal, At, Effect
<1>7. CASE WriteKey
  BY <1>7, <1>b, GrowingStep DEF WriteKey, At, Effect
<1>8. CASE AddUd
  BY <1>8, <1>b, GrowingStep DEF AddUd, At, Effect
<1>9. CASE AddRange
  BY <1>9, <1>b, GrowingStep DEF AddRange, At, Effect
<1>10. CASE SetTcpflag \/ AddOutport
  <2>1. mode = "command" /\ pc <= Len(cmd.ops) /\ cmd.ops[pc] \in {"flag", "hash"}
    BY <1>10 DEF SetTcpflag, AddOutport, At
  <2>2. Advance /\ UNCHANGED <<json, ud_flag, range_flag, sent, tainted>>
    BY <1>10, <1>b DEF SetTcpflag, AddOutport
  <2> QED
    BY <2>1, <2>2, GrowingStep DEF Effect
<1>11. CASE WriteOutports
  <2>1. /\ At("hashvals") /\ Advance /\ UNCHANGED <<ud_flag, range_flag, sent, tainted>>
    BY <1>11, <1>b DEF WriteOutports
  <2>2. outports_num \in Nat /\ json' = [json EXCEPT !.text = @ \o [i \in 1..(2 * outports_num) |->
                                                          IF i % 2 = 1 THEN Comma ELSE "v"]]
    BY <1>11, Zenon DEF WriteOutports, Comma, TypeOK
  <2>3. \E n \in Nat : json' = [json EXCEPT !.text = @ \o [i \in 1..(2 * n) |->
                                                          IF i % 2 = 1 THEN Comma ELSE "v"]]
    BY <2>2, Zenon
  <2> QED
    BY <2>1, <2>3, GrowingStep DEF At, Effect
<1>12. CASE Close
  BY <1>12, <1>b, GrowingStep DEF Close, At, Effect
<1>13. CASE Send
  <2>1. /\ mode = "command" /\ cmd' = cmd /\ pc \in Nat \ {0} /\ pc <= Len(cmd.ops)
        /\ cmd.ops[pc] = "send" /\ tainted' = tainted
        /\ sent' = Append(sent, [text |-> json.text, mask |-> slot_mask])
    BY <1>13 DEF Send, Advance, At, TypeOK
  <2>2. cmd \in Commands /\ cmd.ops \in Seq(Ops) /\ sent \in Seq(Request)
    BY ParserAssumption DEF TypeOK
  <2>3. sent' # <<>> /\ sent'[1] = IF sent = <<>> THEN [text |-> json.text, mask |-> slot_mask]
                                                 ELSE sent[1]
    BY <2>1, <2>2
  <2>4. PayloadInv'
    BY <2>3 DEF PayloadInv
  <2>5. CASE sent = <<>>
    <3>1. ~tainted => json.text = <<>> \/ WellFormed(json.text)
      <4>1. pc \in 1..Len(cmd.ops)
        BY <2>1, <2>2
      <4> QED
        BY <2>1, <2>2, <2>5, <4>1, RequestWhole DEF PayloadInv, TypeOK
    <3>2. sent'[1].text = json.text
      BY <2>3, <2>5
    <3>3. FirstPayloadWellFormed'
      BY <2>1, <3>1, <3>2, Zenon DEF FirstPayloadWellFormed
    <3> QED
      BY <2>4, <3>3
  <2>6. CASE sent # <<>>
    BY <2>1, <2>3, <2>4, <2>6 DEF FirstPayloadWellFormed
  <2> QED
    BY <2>5, <2>6
<1>14. CASE UNCHANGED vars
  BY <1>14, <1>b DEF vars, readVars, PayloadInv, FirstPayloadWellFormed
<1> QED
  BY <1>1, <1>2, <1>3, <1>4, <1>5, <1>6, <1>7, <1>8, <1>9, <1>10, <1>11, <1>12, <1>13, <1>14
  DEF Next, ParserStep, Write

\* Whatever was typed before and wherever earlier commands were given up, the
\* first request that send of a command passes on is an empty buffer or one
\* complete list: close_json has closed what the convert functions opened, no
\* key is left without a value, and there is at most one map.
THEOREM FirstRequest == Spec => []FirstPayloadWellFormed
<1>1. Init => PayloadInv /\ FirstPayloadWellFormed
  BY InitPayload
<1>2. TypeOK /\ TypeOK' /\ IInv /\ PayloadInv /\ FirstPayloadWellFormed /\ [Next]_vars
        => PayloadInv' /\ FirstPayloadWellFormed'
  BY StepPayload
<1> QED
  BY <1>1, <1>2, TypeCorrect, Invariance, PTL DEF Spec

-----------------------------------------------------------------------------
(***************************************************************************)
(* What a request should say, symbol by symbol.                            *)
(***************************************************************************)
ListPiece == <<Comma>> \o <<"v">>
PairPiece == <<Comma>> \o <<"k", "v">>
SectionPiece == <<Comma, Comma>> \o <<"s">>

\* Two symbols, one behind the other.
LEMMA Couple ==
  ASSUME NEW a \in Symbol, NEW b \in Symbol
  PROVE  <<a>> \o <<b>> = <<a, b>> /\ <<a, b>> \in Seq(Symbol) /\ <<a>> \in Seq(Symbol)
<1>1. <<a, b>> \in Seq(Symbol) /\ <<a>> \in Seq(Symbol) /\ <<b>> \in Seq(Symbol)
        /\ Len(<<a>>) = 1 /\ Len(<<b>>) = 1 /\ Len(<<a, b>>) = 2
  OBVIOUS
<1>2. /\ <<a>> \o <<b>> \in Seq(Symbol) /\ Len(<<a>> \o <<b>>) = 2
      /\ \A i \in 1..2 : (<<a>> \o <<b>>)[i] = IF i <= 1 THEN <<a>>[i] ELSE <<b>>[i - 1]
  BY <1>1, ConcatProperties
<1>3. \A i \in 1..2 : (<<a>> \o <<b>>)[i] = <<a, b>>[i]
  BY <1>2
<1> QED
  BY <1>1, <1>2, <1>3, SeqEqual

\* What is written for a value, a pair or a section that is not the first.
LEMMA Pieces ==
  /\ ListPiece \in Seq(Symbol) /\ Len(ListPiece) = 2 /\ ListPiece[1] = Comma /\ ListPiece[2] = "v"
  /\ PairPiece \in Seq(Symbol) /\ Len(PairPiece) = 3
  /\ SectionPiece \in Seq(Symbol) /\ Len(SectionPiece) = 3
<1>1. Comma \in Symbol /\ "v" \in Symbol /\ "k" \in Symbol /\ "s" \in Symbol
  BY Punctuation
<1>2. ListPiece = <<Comma, "v">>
  BY <1>1, Couple DEF ListPiece
<1> QED
  BY <1>1, <1>2 DEF ListPiece, PairPiece, SectionPiece

\* A piece more is a piece behind those that are there.
LEMMA CopiesMore ==
  ASSUME NEW piece \in Seq(Symbol), Len(piece) \in {2, 3}, NEW n \in Nat
  PROVE  /\ Copies(0, piece) = <<>>
         /\ Copies(n, piece) \in Seq(Symbol) /\ Len(Copies(n, piece)) = n * Len(piece)
         /\ Copies(n + 1, piece) = Copies(n, piece) \o piece
<1> DEFINE c(k) == Copies(k, piece)
<1>1. Copies(0, piece) = <<>>
  <2>1. 1..(0 * Len(piece)) = {}
    OBVIOUS
  <2> QED
    BY <2>1 DEF Copies
<1>2. ASSUME NEW k \in Nat
      PROVE  /\ c(k) \in Seq(Symbol) /\ Len(c(k)) = k * Len(piece)
             /\ \A i \in 1..(k * Len(piece)) : c(k)[i] = piece[((i - 1) % Len(piece)) + 1]
  <2>1. k * Len(piece) \in Nat
    OBVIOUS
  <2>2. \A i \in 1..(k * Len(piece)) : ((i - 1) % Len(piece)) + 1 \in 1..Len(piece)
    <3> SUFFICES ASSUME NEW i \in 1..(k * Len(piece)) PROVE ((i - 1) % Len(piece)) + 1 \in 1..Len(piece)
      OBVIOUS
    <3>1. i - 1 \in Nat
      BY <2>1
    <3> QED
      BY <3>1
  <2>3. c(k) \in [1..(k * Len(piece)) -> Symbol]
    BY <2>2 DEF Copies
  <2> QED
    BY <2>1, <2>3, SeqDef DEF Copies
<1> HIDE DEF c
<1>3. c(n + 1) = c(n) \o piece
  <2> DEFINE l == n * Len(piece)
  <2>1. /\ c(n) \in Seq(Symbol) /\ Len(c(n)) = l /\ l \in Nat
        /\ c(n + 1) \in Seq(Symbol) /\ Len(c(n + 1)) = l + Len(piece)
        /\ \A i \in 1..(l + Len(piece)) : c(n + 1)[i] = piece[((i - 1) % Len(piece)) + 1]
        /\ \A i \in 1..l : c(n)[i] = piece[((i - 1) % Len(piece)) + 1]
    <3>1. (n + 1) * Len(piece) = n * Len(piece) + Len(piece) /\ n * Len(piece) \in Nat
      <4>1. CASE Len(piece) = 2
        BY <4>1
      <4>2. CASE Len(piece) = 3
        BY <4>2
      <4> QED
        BY <4>1, <4>2
    <3>2. /\ c(n) \in Seq(Symbol) /\ Len(c(n)) = l
          /\ \A i \in 1..l : c(n)[i] = piece[((i - 1) % Len(piece)) + 1]
      BY <1>2
    <3>3. /\ c(n + 1) \in Seq(Symbol) /\ Len(c(n + 1)) = (n + 1) * Len(piece)
          /\ \A i \in 1..((n + 1) * Len(piece)) : c(n + 1)[i] = piece[((i - 1) % Len(piece)) + 1]
      <4>1. n + 1 \in Nat
        OBVIOUS
      <4> QED
        BY <1>2, <4>1
    <3> QED
      BY <3>1, <3>2, <3>3
  <2>2. \A i \in 1..Len(piece) : ((l + i - 1) % Len(piece)) + 1 = i
    OBVIOUS
  <2> HIDE DEF l
  <2>3. /\ c(n) \o piece \in Seq(Symbol) /\ Len(c(n) \o piece) = l + Len(piece)
        /\ \A i \in 1..(l + Len(piece)) :
             (c(n) \o piece)[i] = IF i <= l THEN c(n)[i] ELSE piece[i - l]
    BY <2>1
  <2>4. ASSUME NEW i \in 1..(l + Len(piece)) PROVE c(n + 1)[i] = (c(n) \o piece)[i]
    <3>1. CASE i <= l
      BY <2>1, <2>3, <3>1
    <3>2. CASE i > l
      <4>1. i - l \in 1..Len(piece) /\ l + (i - l) - 1 = i - 1
        BY <2>1, <3>2
      <4>2. ((i - 1) % Len(piece)) + 1 = i - l
        BY <2>2, <4>1
      <4>3. c(n + 1)[i] = piece[i - l]
        BY <2>1, <4>2
      <4> QED
        BY <2>1, <2>3, <3>2, <4>3
    <3> QED
      BY <2>1, <3>1, <3>2
  <2> QED
    BY <2>1, <2>3, <2>4, SeqEqual
<1> QED
  BY <1>1, <1>2, <1>3 DEF c

\* The loop over hash_outports writes as many pieces as there are ids.
LEMMA CopiesAndIds ==
  ASSUME NEW m \in Nat, NEW n \in Nat
  PROVE  Copies(m + n, ListPiece) =
           Copies(m, ListPiece) \o [i \in 1..(2 * n) |-> IF i % 2 = 1 THEN Comma ELSE "v"]
<1> DEFINE ids == [i \in 1..(2 * n) |-> IF i % 2 = 1 THEN Comma ELSE "v"]
           s == Copies(m, ListPiece)
           t == Copies(m + n, ListPiece)
<1>1. /\ ListPiece \in Seq(Symbol) /\ Len(ListPiece) = 2
      /\ ListPiece[1] = Comma /\ ListPiece[2] = "v"
  BY Pieces
<1>2. /\ s \in Seq(Symbol) /\ Len(s) = 2 * m /\ t \in Seq(Symbol) /\ Len(t) = 2 * m + 2 * n
  <2>1. Len(s) = m * Len(ListPiece) /\ Len(t) = (m + n) * Len(ListPiece)
        /\ s \in Seq(Symbol) /\ t \in Seq(Symbol)
    <3>1. m \in Nat /\ m + n \in Nat /\ Len(ListPiece) \in {2, 3}
      BY <1>1
    <3> QED
      BY <1>1, <3>1, CopiesMore
  <2> HIDE DEF s, t
  <2> QED
    BY <1>1, <2>1
<1>3. /\ \A i \in 1..(2 * m) : s[i] = IF i % 2 = 1 THEN Comma ELSE "v"
      /\ \A i \in 1..(2 * m + 2 * n) : t[i] = IF i % 2 = 1 THEN Comma ELSE "v"
  <2>1. \A i \in Nat : ((i - 1) % 2) + 1 = IF i % 2 = 1 THEN 1 ELSE 2
    OBVIOUS
  <2>2. /\ s = [i \in 1..(m * 2) |-> ListPiece[((i - 1) % 2) + 1]]
        /\ t = [i \in 1..((m + n) * 2) |-> ListPiece[((i - 1) % 2) + 1]]
    BY <1>1 DEF Copies
  <2> HIDE DEF s, t
  <2> QED
    BY <1>1, <2>1, <2>2
<1>4. /\ ids \in Seq(Symbol) /\ Len(ids) = 2 * n
      /\ \A i \in 1..(2 * n) : ids[i] = IF i % 2 = 1 THEN Comma ELSE "v"
  <2>1. ids \in [1..(2 * n) -> Symbol] /\ 2 * n \in Nat
    BY Punctuation
  <2> QED
    BY <2>1, SeqDef
<1> HIDE DEF s, t, ids
<1>5. /\ s \o ids \in Seq(Symbol) /\ Len(s \o ids) = 2 * m + 2 * n
      /\ \A i \in 1..(2 * m + 2 * n) : (s \o ids)[i] = IF i <= 2 * m THEN s[i] ELSE ids[i - 2 * m]
  <2> USE <1>2, <1>4
  <2>1. s \o ids \in Seq(Symbol) /\ Len(s \o ids) = Len(s) + Len(ids)
    OBVIOUS
  <2>2. \A i \in 1..(Len(s) + Len(ids)) : (s \o ids)[i] = IF i <= Len(s) THEN s[i] ELSE ids[i - Len(s)]
    BY ConcatProperties
  <2> QED
    BY <2>1, <2>2
<1>6. ASSUME NEW i \in 1..(2 * m + 2 * n) PROVE t[i] = (s \o ids)[i]
  <2>1. CASE i <= 2 * m
    BY <1>3, <1>5, <2>1
  <2>2. CASE i > 2 * m
    <3>1. i - 2 * m \in 1..(2 * n) /\ (i - 2 * m) % 2 = i % 2
      BY <2>2
    <3>2. (s \o ids)[i] = ids[i - 2 * m]
      BY <1>5, <2>2
    <3> QED
      BY <1>3, <1>4, <3>1, <3>2
  <2>3. i <= 2 * m \/ i > 2 * m
    OBVIOUS
  <2> QED
    BY <2>1, <2>2, <2>3, Zenon
<1>7. t = s \o ids
  BY <1>2, <1>5, <1>6, SeqEqual
<1> QED
  BY <1>7 DEF s, t, ids

\* Lists, and what stands in front of the first member of a map.
Listed(v) == <<Bracket>> \o Joined(v, <<"v">>, <<Comma>>)
Opening(v) == Listed(v) \o (IF v > 0 THEN <<Comma>> ELSE <<>>) \o <<Brace>>
Pairs(p) == Joined(p, <<"k", "v">>, <<Comma>>)
Sections(n) == Joined(n, <<"s">>, <<Comma, Comma>>)

\* Texts behind each other.
LEMMA Joint ==
  ASSUME NEW s \in Seq(Symbol), NEW t \in Seq(Symbol)
  PROVE  s \o t \in Seq(Symbol) /\ s \o <<>> = s /\ <<>> \o s = s
BY ConcatProperties, ConcatEmptySeq

\* Brackets do not matter.
LEMMA Regrouped ==
  ASSUME NEW s \in Seq(Symbol), NEW t \in Seq(Symbol), NEW u \in Seq(Symbol)
  PROVE  s \o (t \o u) = (s \o t) \o u
BY ConcatAssociative, SMTT(30)

\* A list of pieces with commas, one piece longer.
LEMMA JoinedMore ==
  ASSUME NEW first \in Seq(Symbol), NEW comma \in Seq(Symbol), Len(comma \o first) \in {2, 3},
         NEW n \in Nat
  PROVE  /\ Joined(n, first, comma) \in Seq(Symbol)
         /\ Joined(0, first, comma) = <<>> /\ Joined(1, first, comma) = first
         /\ n > 0 => Joined(n + 1, first, comma) = Joined(n, first, comma) \o (comma \o first)
<1> DEFINE piece == comma \o first
<1>1. piece \in Seq(Symbol) /\ Len(piece) \in {2, 3} /\ <<>> \in Seq(Symbol)
  BY Joint
<1>2. \A k \in Nat : Copies(k, piece) \in Seq(Symbol) /\ Copies(0, piece) = <<>>
                       /\ Copies(k + 1, piece) = Copies(k, piece) \o piece
  <2> HIDE DEF piece
  <2> QED BY <1>1, CopiesMore
<1>3. Joined(0, first, comma) = <<>>
  BY DEF Joined
<1>4. \A k \in Nat \ {0} : Joined(k, first, comma) = first \o Copies(k - 1, piece)
  BY DEF Joined
<1> HIDE DEF piece
<1>5. \A k \in Nat \ {0} : k - 1 \in Nat /\ Joined(k, first, comma) \in Seq(Symbol)
  <2> SUFFICES ASSUME NEW k \in Nat \ {0}
               PROVE  k - 1 \in Nat /\ Joined(k, first, comma) \in Seq(Symbol)
    OBVIOUS
  <2>1. k - 1 \in Nat
    OBVIOUS
  <2>2. Copies(k - 1, piece) \in Seq(Symbol)
    BY <1>2, <2>1
  <2>3. first \o Copies(k - 1, piece) \in Seq(Symbol)
    BY <2>2, Joint
  <2> QED
    BY <1>4, <2>1, <2>3
<1>6. Joined(1, first, comma) = first
  <2>1. 1 \in Nat \ {0} /\ 1 - 1 = 0 /\ 0 \in Nat
    OBVIOUS
  <2>2. Joined(1, first, comma) = first \o Copies(0, piece) /\ Copies(0, piece) = <<>>
    BY <1>2, <1>4, <2>1
  <2> QED
    BY <2>2, Joint
<1>7. ASSUME n > 0 PROVE Joined(n + 1, first, comma) = Joined(n, first, comma) \o piece
  <2>1. n - 1 \in Nat /\ (n - 1) + 1 = n /\ (n + 1) - 1 = n /\ n \in Nat \ {0} /\ n + 1 \in Nat \ {0}
    BY <1>7
  <2>2. Joined(n + 1, first, comma) = first \o (Copies(n - 1, piece) \o piece)
    <3>1. Joined(n + 1, first, comma) = first \o Copies((n + 1) - 1, piece)
      BY <1>4, <2>1
    <3>2. Copies((n - 1) + 1, piece) = Copies(n - 1, piece) \o piece
      BY <1>2, <2>1
    <3> QED
      BY <2>1, <3>1, <3>2
  <2>3. Joined(n, first, comma) = first \o Copies(n - 1, piece)
    BY <1>4, <2>1
  <2>4. Copies(n - 1, piece) \in Seq(Symbol)
    BY <1>2, <2>1
  <2>5. first \o (Copies(n - 1, piece) \o piece) = (first \o Copies(n - 1, piece)) \o piece
    BY <1>1, <2>4, Regrouped, ZenonT(60)
  <2> QED
    BY <2>2, <2>3, <2>5
<1>8. n = 0 \/ n \in Nat \ {0}
  OBVIOUS
<1> QED
  BY <1>1, <1>3, <1>5, <1>6, <1>7, <1>8 DEF piece

\* The parts of a request, spelled out for the numbers that occur.
LEMMA PartTexts ==
  ASSUME NEW n \in Nat
  PROVE  /\ Listed(n) \in Seq(Symbol) /\ Opening(n) \in Seq(Symbol)
         /\ Pairs(n) \in Seq(Symbol) /\ Sections(n) \in Seq(Symbol)
         /\ Listed(0) = <<Bracket>> /\ Listed(1) = <<Bracket>> \o <<"v">>
         /\ Opening(0) = <<Bracket>> \o <<Brace>>
         /\ n > 0 => /\ Listed(n + 1) = (Listed(n) \o <<Comma>>) \o <<"v">>
                     /\ Opening(n) = (Listed(n) \o <<Comma>>) \o <<Brace>>
         /\ Pairs(0) = <<>> /\ Pairs(1) = <<"k">> \o <<"v">>
         /\ n > 0 => Pairs(n + 1) = ((Pairs(n) \o <<Comma>>) \o <<"k">>) \o <<"v">>
         /\ Sections(0) = <<>> /\ Sections(1) = <<"s">>
         /\ Sections(2) = ((<<"s">> \o <<Comma>>) \o <<Comma>>) \o <<"s">>
<1>1. /\ Comma \in Symbol /\ "v" \in Symbol /\ "k" \in Symbol /\ "s" \in Symbol
      /\ Bracket \in Symbol /\ Brace \in Symbol
  BY Punctuation
<1>2. /\ <<Bracket>> \in Seq(Symbol) /\ <<Brace>> \in Seq(Symbol) /\ <<Comma>> \in Seq(Symbol)
      /\ <<"v">> \in Seq(Symbol) /\ <<"k">> \in Seq(Symbol) /\ <<"s">> \in Seq(Symbol)
      /\ <<"k", "v">> \in Seq(Symbol) /\ <<Comma, Comma>> \in Seq(Symbol) /\ <<>> \in Seq(Symbol)
      /\ <<"k", "v">> = <<"k">> \o <<"v">> /\ <<Comma, Comma>> = <<Comma>> \o <<Comma>>
  BY <1>1, Couple
<1>3. /\ Len(<<Comma>> \o <<"v">>) \in {2, 3} /\ Len(<<Comma>> \o <<"k", "v">>) \in {2, 3}
      /\ Len(<<Comma, Comma>> \o <<"s">>) \in {2, 3}
  BY Pieces DEF ListPiece, PairPiece, SectionPiece
<1>4. /\ Joined(n, <<"v">>, <<Comma>>) \in Seq(Symbol) /\ Joined(0, <<"v">>, <<Comma>>) = <<>>
      /\ Joined(1, <<"v">>, <<Comma>>) = <<"v">>
      /\ n > 0 => Joined(n + 1, <<"v">>, <<Comma>>)
                    = Joined(n, <<"v">>, <<Comma>>) \o (<<Comma>> \o <<"v">>)
  BY <1>2, <1>3, JoinedMore
<1>5. /\ Listed(n) \in Seq(Symbol) /\ Listed(0) = <<Bracket>> /\ Listed(1) = <<Bracket>> \o <<"v">>
      /\ n > 0 => Listed(n + 1) = (Listed(n) \o <<Comma>>) \o <<"v">>
  <2> DEFINE j == Joined(n, <<"v">>, <<Comma>>)
  <2>1. /\ Listed(n) = <<Bracket>> \o j /\ Listed(0) = <<Bracket>> \o <<>>
        /\ Listed(1) = <<Bracket>> \o <<"v">> /\ j \in Seq(Symbol)
        /\ n > 0 => Listed(n + 1) = <<Bracket>> \o (j \o (<<Comma>> \o <<"v">>))
    BY <1>4 DEF Listed
  <2> HIDE DEF j
  <2>2. Listed(n) \in Seq(Symbol) /\ Listed(0) = <<Bracket>>
    <3>1. <<Bracket>> \o j \in Seq(Symbol)
      BY <1>2, <2>1, Joint
    <3>2. <<Bracket>> \o <<>> = <<Bracket>>
      BY <1>2, Joint
    <3> QED
      BY <2>1, <3>1, <3>2
  <2>3. <<Bracket>> \o (j \o (<<Comma>> \o <<"v">>)) = ((<<Bracket>> \o j) \o <<Comma>>) \o <<"v">>
    <3>1. <<Comma>> \o <<"v">> \in Seq(Symbol) /\ <<Bracket>> \o j \in Seq(Symbol)
      <4>1. <<Comma>> \o <<"v">> \in Seq(Symbol)
        BY <1>2, Joint
      <4>2. <<Bracket>> \o j \in Seq(Symbol)
        BY <1>2, <2>1, Joint
      <4> QED
        BY <4>1, <4>2
    <3>2. <<Bracket>> \o (j \o (<<Comma>> \o <<"v">>)) = (<<Bracket>> \o j) \o (<<Comma>> \o <<"v">>)
      BY <1>2, <2>1, <3>1, Regrouped
    <3>3. (<<Bracket>> \o j) \o (<<Comma>> \o <<"v">>) = ((<<Bracket>> \o j) \o <<Comma>>) \o <<"v">>
      BY <1>2, <3>1, Regrouped
    <3> QED
      BY <3>2, <3>3
  <2> QED
    BY <2>1, <2>2, <2>3, Zenon
<1>6. /\ Opening(n) \in Seq(Symbol) /\ Opening(0) = <<Bracket>> \o <<Brace>>
      /\ n > 0 => Opening(n) = (Listed(n) \o <<Comma>>) \o <<Brace>>
  <2>1. Opening(n) = IF n > 0 THEN (Listed(n) \o <<Comma>>) \o <<Brace>>
                              ELSE (Listed(n) \o <<>>) \o <<Brace>>
    BY DEF Opening
  <2>2. Opening(0) = (<<Bracket>> \o <<>>) \o <<Brace>>
    <3>1. ~(0 > 0) /\ Listed(0) = <<Bracket>>
      BY <1>5
    <3> QED
      BY <3>1, Zenon DEF Opening
  <2>3. Listed(n) \o <<Comma>> \in Seq(Symbol) /\ Listed(n) \o <<>> \in Seq(Symbol)
    BY <1>2, <1>5, Joint
  <2>4. Opening(n) \in Seq(Symbol)
    BY <1>2, <2>1, <2>3, Joint
  <2>5. <<Bracket>> \o <<>> = <<Bracket>>
    BY <1>2, Joint
  <2>6. n > 0 => Opening(n) = (Listed(n) \o <<Comma>>) \o <<Brace>>
    BY <2>1, Zenon
  <2> QED
    BY <2>2, <2>4, <2>5, <2>6, Zenon
<1>7. /\ Pairs(n) \in Seq(Symbol) /\ Pairs(0) = <<>> /\ Pairs(1) = <<"k">> \o <<"v">>
      /\ n > 0 => Pairs(n + 1) = ((Pairs(n) \o <<Comma>>) \o <<"k">>) \o <<"v">>
  <2>1. /\ Pairs(n) \in Seq(Symbol) /\ Pairs(0) = <<>> /\ Pairs(1) = <<"k", "v">>
        /\ n > 0 => Pairs(n + 1) = Pairs(n) \o (<<Comma>> \o <<"k", "v">>)
    BY <1>2, <1>3, JoinedMore DEF Pairs
  <2>2. Pairs(n) \o (<<Comma>> \o <<"k", "v">>) = (Pairs(n) \o <<Comma>>) \o (<<"k">> \o <<"v">>)
    BY <1>2, <2>1, Regrouped
  <2>3. Pairs(n) \o <<Comma>> \in Seq(Symbol)
    BY <1>2, <2>1, Joint
  <2>4. (Pairs(n) \o <<Comma>>) \o (<<"k">> \o <<"v">>)
          = ((Pairs(n) \o <<Comma>>) \o <<"k">>) \o <<"v">>
    BY <1>2, <2>3, Regrouped
  <2> QED
    BY <1>2, <2>1, <2>2, <2>4
<1>8. /\ Sections(n) \in Seq(Symbol) /\ Sections(0) = <<>> /\ Sections(1) = <<"s">>
      /\ Sections(2) = ((<<"s">> \o <<Comma>>) \o <<Comma>>) \o <<"s">>
  <2>1. Sections(n) \in Seq(Symbol) /\ Sections(0) = <<>> /\ Sections(1) = <<"s">>
    BY <1>2, <1>3, JoinedMore DEF Sections
  <2>2. Sections(1 + 1) = <<"s">> \o (<<Comma, Comma>> \o <<"s">>)
    <3>1. 1 \in Nat /\ 1 > 0
      OBVIOUS
    <3>2. Joined(1 + 1, <<"s">>, <<Comma, Comma>>)
            = Joined(1, <<"s">>, <<Comma, Comma>>) \o (<<Comma, Comma>> \o <<"s">>)
      BY <1>2, <1>3, <3>1, JoinedMore
    <3> QED
      BY <2>1, <3>2, Zenon DEF Sections
  <2>3. <<"s">> \o (<<Comma, Comma>> \o <<"s">>) = (<<"s">> \o (<<Comma>> \o <<Comma>>)) \o <<"s">>
    BY <1>2, Regrouped
  <2>4. <<"s">> \o (<<Comma>> \o <<Comma>>) = (<<"s">> \o <<Comma>>) \o <<Comma>>
    BY <1>2, Regrouped
  <2>5. 1 + 1 = 2
    OBVIOUS
  <2> QED
    BY <2>1, <2>2, <2>3, <2>4, <2>5
<1> QED
  BY <1>5, <1>6, <1>7, <1>8

\* A request that is not closed yet, by whether it has a map and sections.
LEMMA UnclosedForms ==
  ASSUME NEW v \in Nat, NEW p \in Nat, NEW n \in Nat
  PROVE  /\ Unclosed(v, 0, 0) = Listed(v)
         /\ p > 0 => /\ Unclosed(v, p, 0) = Opening(v) \o Pairs(p)
                     /\ n > 0 => Unclosed(v, p, n)
                                   = (Unclosed(v, p, 0) \o (<<Comma>> \o <<Comma>>)) \o Sections(n)
         /\ n > 0 => Unclosed(v, 0, n) = Opening(v) \o Sections(n)
<1>1. ASSUME NEW i, NEW j, NEW k
      PROVE  Unclosed(i, j, k) =
               Listed(i) \o (IF i > 0 /\ j + k > 0 THEN <<Comma>> ELSE <<>>)
                 \o (IF j + k > 0 THEN <<Brace>> ELSE <<>>)
                 \o Pairs(j) \o (IF j > 0 /\ k > 0 THEN <<Comma, Comma>> ELSE <<>>)
                 \o Sections(k)
  BY Zenon DEF Unclosed, Listed, Pairs, Sections, Bracket, Brace, Comma
<1>2. /\ ~(0 > 0) /\ ~(0 + 0 > 0)
      /\ p > 0 => p + 0 > 0 /\ p + n > 0
      /\ n > 0 => 0 + n > 0
  OBVIOUS
<1>3. /\ Listed(v) \in Seq(Symbol) /\ Opening(v) \in Seq(Symbol) /\ Pairs(p) \in Seq(Symbol)
      /\ Sections(n) \in Seq(Symbol) /\ Pairs(0) = <<>> /\ Sections(0) = <<>>
      /\ <<Comma>> \o <<Comma>> = <<Comma, Comma>>
      /\ <<>> \in Seq(Symbol) /\ <<Comma, Comma>> \in Seq(Symbol)
  <2>1. Comma \in Symbol
    BY Punctuation
  <2> QED
    BY <2>1, PartTexts, Couple
<1>4. Unclosed(v, 0, 0) = Listed(v)
  <2>1. Unclosed(v, 0, 0) = Listed(v) \o <<>> \o <<>> \o <<>> \o <<>> \o <<>>
    BY <1>1, <1>2, <1>3, Zenon
  <2>2. Listed(v) \o <<>> = Listed(v)
    BY <1>3, Joint
  <2> QED
    BY <2>1, <2>2, Zenon
<1> DEFINE x == IF v > 0 THEN <<Comma>> ELSE <<>>
<1>6. Opening(v) = Listed(v) \o x \o <<Brace>>
  BY DEF Opening
<1>7. ASSUME p > 0 PROVE Unclosed(v, p, 0) = Opening(v) \o Pairs(p)
  <2>1. (IF v > 0 /\ p + 0 > 0 THEN <<Comma>> ELSE <<>>) = x
    BY <1>2, <1>7, Zenon
  <2> HIDE DEF x
  <2>2. Unclosed(v, p, 0) = Listed(v) \o x \o <<Brace>> \o Pairs(p) \o <<>> \o <<>>
    BY <1>1, <1>2, <1>3, <1>7, <2>1, Zenon
  <2>3. Unclosed(v, p, 0) = Opening(v) \o Pairs(p) \o <<>> \o <<>>
    BY <1>6, <2>2, Zenon
  <2>4. Opening(v) \o Pairs(p) \in Seq(Symbol)
    BY <1>3, Joint
  <2>5. Opening(v) \o Pairs(p) \o <<>> = Opening(v) \o Pairs(p)
    BY <2>4, Joint
  <2> QED
    BY <2>3, <2>5, Zenon
<1>8. ASSUME p > 0, n > 0
      PROVE  Unclosed(v, p, n) = (Unclosed(v, p, 0) \o (<<Comma>> \o <<Comma>>)) \o Sections(n)
  <2>1. (IF v > 0 /\ p + n > 0 THEN <<Comma>> ELSE <<>>) = x
    BY <1>2, <1>8, Zenon
  <2> HIDE DEF x
  <2>2. Unclosed(v, p, n) = Listed(v) \o x \o <<Brace>> \o Pairs(p) \o <<Comma, Comma>> \o Sections(n)
    BY <1>1, <1>2, <1>8, <2>1, Zenon
  <2> QED
    BY <1>3, <1>6, <1>7, <1>8, <2>2, Zenon
<1>9. ASSUME n > 0 PROVE Unclosed(v, 0, n) = Opening(v) \o Sections(n)
  <2>1. (IF v > 0 /\ 0 + n > 0 THEN <<Comma>> ELSE <<>>) = x
    BY <1>2, <1>9, Zenon
  <2> HIDE DEF x
  <2>2. Unclosed(v, 0, n) = Listed(v) \o x \o <<Brace>> \o <<>> \o <<>> \o Sections(n)
    BY <1>1, <1>2, <1>3, <1>9, <2>1, Zenon
  <2>3. Opening(v) \o <<>> = Opening(v)
    BY <1>3, Joint
  <2> QED
    BY <1>6, <2>2, <2>3, Zenon
<1> QED
  BY <1>4, <1>7, <1>8, <1>9, Zenon

\* Brackets do not matter with four texts behind a fifth either.
LEMMA RegroupedFour ==
  ASSUME NEW o \in Seq(Symbol), NEW s \in Seq(Symbol), NEW t \in Seq(Symbol),
         NEW u \in Seq(Symbol), NEW w \in Seq(Symbol)
  PROVE  o \o (((s \o t) \o u) \o w) = (((o \o s) \o t) \o u) \o w
<1> DEFINE C(x, y) == x \o y
           S == Seq(Symbol)
<1>1. \A x, y, z \in S : C(x, C(y, z)) = C(C(x, y), z)
  BY Regrouped, Zenon
<1>2. \A x, y \in S : C(x, y) \in S
  BY Joint, Zenon
<1>3. o \in S /\ s \in S /\ t \in S /\ u \in S /\ w \in S
  OBVIOUS
<1> HIDE DEF C, S
<1>4. C(s, t) \in S /\ C(C(s, t), u) \in S
  BY <1>2, <1>3
<1>5. /\ C(o, C(C(C(s, t), u), w)) = C(C(o, C(C(s, t), u)), w)
      /\ C(o, C(C(s, t), u)) = C(C(o, C(s, t)), u)
      /\ C(o, C(s, t)) = C(C(o, s), t)
  BY <1>1, <1>3, <1>4
<1>6. C(o, C(C(C(s, t), u), w)) = C(C(C(C(o, s), t), u), w)
  BY <1>5
<1> QED
  BY <1>6 DEF C

\* What an op adds to a request that is not closed yet.
LEMMA UnclosedGrows ==
  ASSUME NEW v \in Nat, NEW p \in Nat
  PROVE  /\ Unclosed(v, p, 0) \in Seq(Symbol)
         /\ Unclosed(1, 0, 0) = <<Bracket>> \o <<"v">>
         /\ v > 0 => Unclosed(v + 1, 0, 0) = (Unclosed(v, 0, 0) \o <<Comma>>) \o <<"v">>
         /\ Unclosed(0, 1, 0) = ((<<Bracket>> \o <<Brace>>) \o <<"k">>) \o <<"v">>
         /\ v > 0 => Unclosed(v, 1, 0)
                       = (((Unclosed(v, 0, 0) \o <<Comma>>) \o <<Brace>>) \o <<"k">>) \o <<"v">>
         /\ p > 0 => Unclosed(v, p + 1, 0)
                       = ((Unclosed(v, p, 0) \o <<Comma>>) \o <<"k">>) \o <<"v">>
         /\ v > 0 => Unclosed(v, 0, 1) = ((Unclosed(v, 0, 0) \o <<Comma>>) \o <<Brace>>) \o <<"s">>
         /\ p > 0 => Unclosed(v, p, 1) = ((Unclosed(v, p, 0) \o <<Comma>>) \o <<Comma>>) \o <<"s">>
         /\ v > 0 \/ p > 0 =>
              Unclosed(v, p, 2) = ((Unclosed(v, p, 1) \o <<Comma>>) \o <<Comma>>) \o <<"s">>
<1>1. /\ <<Bracket>> \in Seq(Symbol) /\ <<Brace>> \in Seq(Symbol) /\ <<Comma>> \in Seq(Symbol)
      /\ <<"v">> \in Seq(Symbol) /\ <<"k">> \in Seq(Symbol) /\ <<"s">> \in Seq(Symbol)
  BY Punctuation, Couple
<1>2. /\ 0 \in Nat /\ 1 \in Nat /\ 2 \in Nat /\ v + 1 \in Nat /\ p + 1 \in Nat
      /\ 1 > 0 /\ 2 > 0 /\ p + 1 > 0 /\ (p = 0 \/ p > 0)
  OBVIOUS
<1>3. /\ Listed(v) \in Seq(Symbol) /\ Opening(v) \in Seq(Symbol) /\ Pairs(p) \in Seq(Symbol)
      /\ Unclosed(v, 0, 0) = Listed(v)
      /\ p > 0 => Unclosed(v, p, 0) = Opening(v) \o Pairs(p)
  BY PartTexts, UnclosedForms
<1>4. Opening(v) \o Pairs(p) \in Seq(Symbol)
  BY <1>3, Joint
<1>5. Unclosed(v, p, 0) \in Seq(Symbol)
  BY <1>2, <1>3, <1>4, Zenon
<1>6. /\ Unclosed(1, 0, 0) = <<Bracket>> \o <<"v">>
      /\ v > 0 => Unclosed(v + 1, 0, 0) = (Unclosed(v, 0, 0) \o <<Comma>>) \o <<"v">>
  <2>1. /\ Unclosed(1, 0, 0) = Listed(1) /\ Listed(1) = <<Bracket>> \o <<"v">>
        /\ Unclosed(v + 1, 0, 0) = Listed(v + 1)
        /\ v > 0 => Listed(v + 1) = (Listed(v) \o <<Comma>>) \o <<"v">>
    BY <1>2, PartTexts, UnclosedForms
  <2> QED
    BY <1>3, <2>1, Zenon
<1>7. /\ Unclosed(0, 1, 0) = ((<<Bracket>> \o <<Brace>>) \o <<"k">>) \o <<"v">>
      /\ v > 0 => Unclosed(v, 1, 0)
                    = (((Unclosed(v, 0, 0) \o <<Comma>>) \o <<Brace>>) \o <<"k">>) \o <<"v">>
  <2>1. /\ Unclosed(0, 1, 0) = Opening(0) \o Pairs(1)
        /\ Unclosed(v, 1, 0) = Opening(v) \o Pairs(1)
    BY <1>2, UnclosedForms
  <2>2. /\ Opening(0) = <<Bracket>> \o <<Brace>> /\ Opening(0) \in Seq(Symbol)
        /\ v > 0 => Opening(v) = (Listed(v) \o <<Comma>>) \o <<Brace>>
        /\ Pairs(1) = <<"k">> \o <<"v">>
    BY <1>2, PartTexts
  <2>3. Opening(0) \o (<<"k">> \o <<"v">>) = (Opening(0) \o <<"k">>) \o <<"v">>
    BY <1>1, <2>2, Regrouped
  <2>4. Opening(v) \o (<<"k">> \o <<"v">>) = (Opening(v) \o <<"k">>) \o <<"v">>
    BY <1>1, <1>3, Regrouped
  <2> QED
    BY <1>3, <2>1, <2>2, <2>3, <2>4, Zenon
<1>8. ASSUME p > 0
      PROVE  Unclosed(v, p + 1, 0) = ((Unclosed(v, p, 0) \o <<Comma>>) \o <<"k">>) \o <<"v">>
  <2> DEFINE o == Opening(v)
             q == Pairs(p)
  <2>1. /\ Unclosed(v, p + 1, 0) = o \o (((q \o <<Comma>>) \o <<"k">>) \o <<"v">>)
        /\ Unclosed(v, p, 0) = o \o q
    <3>1. Unclosed(v, p + 1, 0) = Opening(v) \o Pairs(p + 1)
      BY <1>2, UnclosedForms
    <3>2. Pairs(p + 1) = ((q \o <<Comma>>) \o <<"k">>) \o <<"v">>
      BY <1>8, PartTexts
    <3> QED
      BY <1>3, <1>8, <3>1, <3>2, Zenon
  <2>2. o \in Seq(Symbol) /\ q \in Seq(Symbol)
    BY <1>3
  <2> HIDE DEF o, q
  <2>3. o \o (((q \o <<Comma>>) \o <<"k">>) \o <<"v">>) = (((o \o q) \o <<Comma>>) \o <<"k">>) \o <<"v">>
    BY <1>1, <2>2, RegroupedFour
  <2> QED
    BY <2>1, <2>3, Zenon
<1>9. ASSUME v > 0
      PROVE  /\ Unclosed(v, 0, 1) = ((Unclosed(v, 0, 0) \o <<Comma>>) \o <<Brace>>) \o <<"s">>
             /\ Unclosed(v, 0, 2) = ((Unclosed(v, 0, 1) \o <<Comma>>) \o <<Comma>>) \o <<"s">>
  <2> DEFINE o == Opening(v)
  <2>1. Unclosed(v, 0, 1) = o \o <<"s">>
        /\ Unclosed(v, 0, 2) = o \o (((<<"s">> \o <<Comma>>) \o <<Comma>>) \o <<"s">>)
    <3>1. Unclosed(v, 0, 1) = Opening(v) \o Sections(1) /\ Unclosed(v, 0, 2) = Opening(v) \o Sections(2)
      BY <1>2, UnclosedForms
    <3>2. Sections(1) = <<"s">> /\ Sections(2) = ((<<"s">> \o <<Comma>>) \o <<Comma>>) \o <<"s">>
      BY PartTexts
    <3> QED
      BY <3>1, <3>2, Zenon
  <2>2. o = (Listed(v) \o <<Comma>>) \o <<Brace>> /\ o \in Seq(Symbol)
    BY <1>9, PartTexts
  <2>3. o \o (((<<"s">> \o <<Comma>>) \o <<Comma>>) \o <<"s">>)
          = (((o \o <<"s">>) \o <<Comma>>) \o <<Comma>>) \o <<"s">>
    <3> HIDE DEF o
    <3> QED BY <1>1, <2>2, RegroupedFour
  <2> QED
    BY <1>3, <2>1, <2>2, <2>3, Zenon
<1>10. ASSUME p > 0
       PROVE  /\ Unclosed(v, p, 1) = ((Unclosed(v, p, 0) \o <<Comma>>) \o <<Comma>>) \o <<"s">>
              /\ Unclosed(v, p, 2) = ((Unclosed(v, p, 1) \o <<Comma>>) \o <<Comma>>) \o <<"s">>
  <2> DEFINE o == Unclosed(v, p, 0) \o (<<Comma>> \o <<Comma>>)
  <2>1. Unclosed(v, p, 1) = o \o <<"s">>
        /\ Unclosed(v, p, 2) = o \o (((<<"s">> \o <<Comma>>) \o <<Comma>>) \o <<"s">>)
    <3>1. Unclosed(v, p, 1) = o \o Sections(1) /\ Unclosed(v, p, 2) = o \o Sections(2)
      <4>1. ASSUME NEW n \in Nat, n > 0 PROVE Unclosed(v, p, n) = o \o Sections(n)
        BY <1>10, <4>1, UnclosedForms
      <4> HIDE DEF o
      <4> QED
        BY <1>2, <4>1
    <3>2. Sections(1) = <<"s">> /\ Sections(2) = ((<<"s">> \o <<Comma>>) \o <<Comma>>) \o <<"s">>
      BY PartTexts
    <3> QED
      BY <3>1, <3>2, Zenon
  <2>2. o = (Unclosed(v, p, 0) \o <<Comma>>) \o <<Comma>>
    BY <1>1, <1>5, Regrouped
  <2>3. Unclosed(v, p, 0) \o <<Comma>> \in Seq(Symbol)
    BY <1>1, <1>5, Joint
  <2>4. o \in Seq(Symbol)
    BY <1>1, <2>2, <2>3, Joint
  <2>5. o \o (((<<"s">> \o <<Comma>>) \o <<Comma>>) \o <<"s">>)
          = (((o \o <<"s">>) \o <<Comma>>) \o <<Comma>>) \o <<"s">>
    <3> HIDE DEF o
    <3> QED BY <1>1, <2>4, RegroupedFour
  <2> QED
    BY <2>1, <2>2, <2>5, Zenon
<1>11. p = 0 \/ p > 0
  BY <1>2
<1>12. v > 0 \/ p > 0 =>
         Unclosed(v, p, 2) = ((Unclosed(v, p, 1) \o <<Comma>>) \o <<Comma>>) \o <<"s">>
  BY <1>9, <1>10, <1>11, Zenon
<1> QED
  BY <1>5, <1>6, <1>7, <1>8, <1>9, <1>10, <1>12, Zenon

\* The ids of a hash list, behind the first value.
LEMMA UnclosedIds ==
  ASSUME NEW v \in Nat \ {0}, NEW n \in Nat
  PROVE  Unclosed(v + n, 0, 0) =
           Unclosed(v, 0, 0) \o [i \in 1..(2 * n) |-> IF i % 2 = 1 THEN Comma ELSE "v"]
<1> DEFINE ids == [i \in 1..(2 * n) |-> IF i % 2 = 1 THEN Comma ELSE "v"]
           first == <<Bracket>> \o <<"v">>
<1>1. ids \in Seq(Symbol)
  <2>1. ids \in [1..(2 * n) -> Symbol] /\ 2 * n \in Nat
    BY Punctuation
  <2> QED
    BY <2>1, SeqDef
<1>2. <<Bracket>> \in Seq(Symbol) /\ <<"v">> \in Seq(Symbol) /\ <<Comma>> \in Seq(Symbol)
  BY Punctuation, Couple
<1>3. /\ v \in Nat /\ v - 1 \in Nat /\ v + n \in Nat /\ (v + n) - 1 = (v - 1) + n
      /\ v # 0 /\ v + n # 0
  OBVIOUS
<1>4. ASSUME NEW k \in Nat, k # 0
      PROVE  Unclosed(k, 0, 0) = <<Bracket>> \o (<<"v">> \o Copies(k - 1, ListPiece))
  <2>1. Unclosed(k, 0, 0) = Listed(k)
    BY <1>4, UnclosedForms
  <2> QED
    BY <1>4, <2>1, Zenon DEF Listed, Joined, ListPiece
<1>5. Copies(v - 1, ListPiece) \in Seq(Symbol)
  BY <1>3, Pieces, CopiesMore
<1>6. Copies((v - 1) + n, ListPiece) = Copies(v - 1, ListPiece) \o ids
  BY <1>3, CopiesAndIds
<1> HIDE DEF ids
<1>7. Unclosed(v + n, 0, 0) = <<Bracket>> \o (<<"v">> \o (Copies(v - 1, ListPiece) \o ids))
  BY <1>3, <1>4, <1>6
<1>8. <<"v">> \o (Copies(v - 1, ListPiece) \o ids) = (<<"v">> \o Copies(v - 1, ListPiece)) \o ids
  BY <1>1, <1>2, <1>5, Regrouped
<1>9. <<"v">> \o Copies(v - 1, ListPiece) \in Seq(Symbol)
  BY <1>2, <1>5, Joint
<1>10. <<Bracket>> \o ((<<"v">> \o Copies(v - 1, ListPiece)) \o ids)
         = (<<Bracket>> \o (<<"v">> \o Copies(v - 1, ListPiece))) \o ids
  BY <1>1, <1>2, <1>9, Regrouped
<1>11. Unclosed(v, 0, 0) = <<Bracket>> \o (<<"v">> \o Copies(v - 1, ListPiece))
  BY <1>3, <1>4
<1> QED
  BY <1>7, <1>8, <1>10, <1>11, Zenon DEF ids

-----------------------------------------------------------------------------
(* How often an op has been passed. *)
\* In front of the first op nothing was said.
LEMMA SaidNothing ==
  ASSUME NEW ops, NEW op
  PROVE  Said(ops, 1, op) = 0
<1>1. {i \in 1..(1 - 1) : ops[i] = op} = {}
  OBVIOUS
<1> QED
  BY <1>1, FS_EmptySet DEF Said

\* What one op more adds to the count.
LEMMA SaidMore ==
  ASSUME NEW ops, NEW j \in Nat \ {0}, NEW op
  PROVE  /\ Said(ops, j, op) \in Nat
         /\ Said(ops, j, op) > 0 <=> op \in Before(ops, j)
         /\ Said(ops, j + 1, op) = Said(ops, j, op) + (IF ops[j] = op THEN 1 ELSE 0)
<1> DEFINE S == {i \in 1..(j - 1) : ops[i] = op}
           T == {i \in 1..((j + 1) - 1) : ops[i] = op}
<1>1. IsFiniteSet(S) /\ Cardinality(S) \in Nat /\ (Cardinality(S) = 0 <=> S = {})
  <2>1. IsFiniteSet(1..(j - 1)) /\ S \in SUBSET (1..(j - 1))
    BY FS_Interval
  <2>2. IsFiniteSet(S)
    BY <2>1, FS_Subset
  <2> QED
    BY <2>2, FS_CardinalityType, FS_EmptySet
<1>2. S # {} <=> op \in Before(ops, j)
  BY DEF Before
<1>3. Cardinality(T) = Cardinality(S) + (IF ops[j] = op THEN 1 ELSE 0)
  <2>1. 1..((j + 1) - 1) = 1..(j - 1) \cup {j} /\ j \notin 1..(j - 1)
    OBVIOUS
  <2>2. CASE ops[j] = op
    <3>1. T = S \cup {j} /\ j \notin S
      BY <2>1, <2>2
    <3>2. Cardinality(S \cup {j}) = Cardinality(S) + 1
      <4> HIDE DEF S
      <4> QED BY <1>1, <3>1, FS_AddElement
    <3> QED
      BY <2>2, <3>1, <3>2
  <2>3. CASE ops[j] # op
    <3>1. T = S
      BY <2>1, <2>3
    <3> QED
      BY <1>1, <2>3, <3>1
  <2> QED
    BY <2>2, <2>3
<1>4. Said(ops, j, op) = Cardinality(S) /\ Said(ops, j + 1, op) = Cardinality(T)
  BY DEF Said
<1> HIDE DEF S, T
<1> QED
  BY <1>1, <1>2, <1>3, <1>4

\* The sections are the ud data and the ranges.
LEMMA SectionsSaid ==
  ASSUME NEW before
  PROVE  Cardinality(before \cap {"ud", "range"})
           = (IF "ud" \in before THEN 1 ELSE 0) + (IF "range" \in before THEN 1 ELSE 0)
<1>1. /\ IsFiniteSet({}) /\ Cardinality({}) = 0
      /\ Cardinality({"ud"}) = 1 /\ Cardinality({"range"}) = 1 /\ IsFiniteSet({"ud"})
  BY FS_EmptySet, FS_Singleton
<1>2. Cardinality({"ud"} \cup {"range"}) = 1 + 1
  BY <1>1, FS_AddElement
<1>3. CASE "ud" \in before /\ "range" \in before
  <2>1. before \cap {"ud", "range"} = {"ud"} \cup {"range"}
    BY <1>3
  <2> QED
    BY <1>2, <1>3, <2>1
<1>4. CASE "ud" \in before /\ "range" \notin before
  <2>1. before \cap {"ud", "range"} = {"ud"}
    BY <1>4
  <2> QED
    BY <1>1, <1>4, <2>1
<1>5. CASE "ud" \notin before /\ "range" \in before
  <2>1. before \cap {"ud", "range"} = {"range"}
    BY <1>5
  <2> QED
    BY <1>1, <1>5, <2>1
<1>6. CASE "ud" \notin before /\ "range" \notin before
  <2>1. before \cap {"ud", "range"} = {}
    BY <1>6
  <2> QED
    BY <1>1, <1>6, <2>1
<1> QED
  BY <1>3, <1>4, <1>5, <1>6

-----------------------------------------------------------------------------
(***************************************************************************)
(* The writers of the builder write the request that OwnText describes: v  *)
(* values of the list and p pairs of the map are behind, and with in_pair  *)
(* a key stands in front of its value.                                     *)
(***************************************************************************)
Holds(b, v, p) ==
  /\ b.in_list <=> v > 0 \/ p > 0 \/ b.in_pair
  /\ b.in_map <=> p > 0 \/ b.in_pair
  /\ b.in_pair => b.text \o <<"v">> = Unclosed(v, p + 1, 0)
  /\ ~b.in_pair => b.text = IF v = 0 /\ p = 0 THEN <<>> ELSE Unclosed(v, p, 0)

\* The separators in symbols that have names.
LEMMA Separators ==
  ASSUME NEW b
  PROVE  /\ ~b.in_list => Separator(b) = <<Bracket>>
         /\ b.in_list /\ b.in_pair => Separator(b) = <<>>
         /\ b.in_list /\ ~b.in_pair => Separator(b) = <<Comma>>
BY Zenon DEF Separator, Bracket, Comma

\* A value completes a pair or is the next of the list.
LEMMA ValHolds ==
  ASSUME NEW b \in Builder, NEW v \in Nat, NEW p \in Nat, Holds(b, v, p), b.in_map => b.in_pair
  PROVE  /\ b.in_pair => Holds(ConvertVal(b), v, p + 1)
         /\ ~b.in_pair => p = 0 /\ Holds(ConvertVal(b), v + 1, 0)
         /\ ~ConvertVal(b).in_pair
<1> DEFINE c == ConvertVal(b)
<1>1. /\ c.in_list /\ ~c.in_pair /\ c.in_map = b.in_map
      /\ c.text = (b.text \o Separator(b)) \o <<"v">> /\ b.text \in Seq(Symbol)
  BY DEF Builder, ConvertVal
<1> HIDE DEF c
<1>2. /\ v + 1 > 0 /\ p + 1 > 0 /\ (p = 0 \/ p > 0) /\ ~(0 > 0) /\ (v = 0 \/ v > 0)
      /\ ~(v + 1 = 0) /\ ~(p + 1 = 0) /\ 0 + 1 = 1
  OBVIOUS
<1>3. CASE b.in_pair
  <2>1. b.in_list /\ b.in_map /\ b.text \o <<"v">> = Unclosed(v, p + 1, 0)
    BY <1>3 DEF Holds
  <2>2. b.text \o Separator(b) = b.text
    <3>1. Separator(b) = <<>>
      BY <1>3, <2>1, Separators
    <3> QED
      BY <1>1, <3>1, Joint
  <2>3. c.text = Unclosed(v, p + 1, 0)
    BY <1>1, <2>1, <2>2, Zenon
  <2>4. Holds(c, v, p + 1)
    BY <1>1, <1>2, <2>1, <2>3, Zenon DEF Holds
  <2> QED
    BY <1>1, <1>3, <2>4 DEF c
<1>4. CASE ~b.in_pair
  <2>1. /\ ~b.in_map /\ p = 0 /\ (b.in_list <=> v > 0)
        /\ b.text = IF v = 0 THEN <<>> ELSE Unclosed(v, 0, 0)
    BY <1>2, <1>4 DEF Holds
  <2>2. c.text = Unclosed(v + 1, 0, 0)
    <3>1. CASE v = 0
      <4>1. Separator(b) = <<Bracket>> /\ b.text = <<>>
        BY <2>1, <3>1, Separators
      <4>2. <<>> \o <<Bracket>> = <<Bracket>>
        BY Punctuation, Joint
      <4>3. c.text = <<Bracket>> \o <<"v">>
        BY <1>1, <4>1, <4>2, Zenon
      <4>4. Unclosed(1, 0, 0) = <<Bracket>> \o <<"v">>
        BY UnclosedGrows
      <4> QED
        BY <1>2, <3>1, <4>3, <4>4, Zenon
    <3>2. CASE v > 0
      <4>1. Separator(b) = <<Comma>> /\ b.text = Unclosed(v, 0, 0)
        BY <1>4, <2>1, <3>2, Separators
      <4>2. Unclosed(v + 1, 0, 0) = (Unclosed(v, 0, 0) \o <<Comma>>) \o <<"v">>
        BY <3>2, UnclosedGrows
      <4> QED
        BY <1>1, <4>1, <4>2, Zenon
    <3> QED
      BY <1>2, <3>1, <3>2
  <2>3. Holds(c, v + 1, 0)
    BY <1>1, <1>2, <2>1, <2>2, Zenon DEF Holds
  <2> QED
    BY <1>1, <1>4, <2>1, <2>3 DEF c
<1> QED
  BY <1>3, <1>4

\* A key opens the map, or the next pair of it.
LEMMA KeyHolds ==
  ASSUME NEW b \in Builder, NEW v \in Nat, NEW p \in Nat, Holds(b, v, p), ~b.in_pair
  PROVE  Holds(ConvertKey(b), v, p) /\ ConvertKey(b).in_pair
<1> DEFINE c == ConvertKey(b)
           brace == IF b.in_map THEN <<>> ELSE <<Brace>>
           t == b.text \o Separator(b)
<1>1. c.in_list /\ c.in_pair /\ c.in_map /\ b.text \in Seq(Symbol)
  BY DEF Builder, ConvertKey
<1>2. c.text = (t \o brace) \o <<"k">>
  BY Zenon DEF Builder, ConvertKey, Brace
<1>3. /\ (p = 0 \/ p > 0) /\ (v = 0 \/ v > 0) /\ ~(0 > 0) /\ 0 + 1 = 1
      /\ p > 0 => ~(p = 0)
      /\ v > 0 => ~(v = 0)
  OBVIOUS
<1>4. /\ b.in_map <=> p > 0
      /\ b.in_list <=> v > 0 \/ p > 0
      /\ b.text = IF v = 0 /\ p = 0 THEN <<>> ELSE Unclosed(v, p, 0)
  BY DEF Holds
<1>5. <<Bracket>> \in Seq(Symbol) /\ <<Comma>> \in Seq(Symbol)
  BY Punctuation
<1> HIDE DEF c
<1>6. c.text \o <<"v">> = Unclosed(v, p + 1, 0)
  <2>1. CASE p > 0
    <3>1. Separator(b) = <<Comma>> /\ brace = <<>> /\ b.text = Unclosed(v, p, 0)
      BY <1>3, <1>4, <2>1, Separators
    <3>2. t \in Seq(Symbol)
      BY <1>1, <1>5, <3>1, Joint
    <3>3. t \o brace = t
      <4> HIDE DEF t, brace
      <4> QED BY <3>1, <3>2, Joint
    <3>4. c.text = (Unclosed(v, p, 0) \o <<Comma>>) \o <<"k">>
      BY <1>2, <3>1, <3>3, Zenon
    <3>5. Unclosed(v, p + 1, 0) = ((Unclosed(v, p, 0) \o <<Comma>>) \o <<"k">>) \o <<"v">>
      BY <2>1, UnclosedGrows
    <3> QED
      BY <3>4, <3>5, Zenon
  <2>2. CASE p = 0 /\ v > 0
    <3>1. Separator(b) = <<Comma>> /\ brace = <<Brace>> /\ b.text = Unclosed(v, 0, 0)
      BY <1>3, <1>4, <2>2, Separators
    <3>2. c.text = ((Unclosed(v, 0, 0) \o <<Comma>>) \o <<Brace>>) \o <<"k">>
      BY <1>2, <3>1, Zenon
    <3>3. Unclosed(v, 1, 0) = (((Unclosed(v, 0, 0) \o <<Comma>>) \o <<Brace>>) \o <<"k">>) \o <<"v">>
      BY <2>2, UnclosedGrows
    <3> QED
      BY <1>3, <2>2, <3>2, <3>3, Zenon
  <2>3. CASE p = 0 /\ v = 0
    <3>1. Separator(b) = <<Bracket>> /\ brace = <<Brace>> /\ b.text = <<>>
      BY <1>3, <1>4, <2>3, Separators
    <3>2. <<>> \o <<Bracket>> = <<Bracket>>
      BY <1>5, Joint
    <3>3. c.text = (<<Bracket>> \o <<Brace>>) \o <<"k">>
      BY <1>2, <3>1, <3>2, Zenon
    <3>4. Unclosed(0, 1, 0) = ((<<Bracket>> \o <<Brace>>) \o <<"k">>) \o <<"v">>
      BY UnclosedGrows
    <3> QED
      BY <1>3, <2>3, <3>3, <3>4, Zenon
  <2> QED
    BY <1>3, <2>1, <2>2, <2>3
<1> QED
  BY <1>1, <1>6, Zenon DEF Holds, c

\* The ids are values of the list.
LEMMA IdsHold ==
  ASSUME NEW b \in Builder, NEW v \in Nat, v > 0, Holds(b, v, 0), ~b.in_pair, NEW n \in Nat,
         NEW c \in Builder, c.in_list = b.in_list, c.in_map = b.in_map, ~c.in_pair,
         c.text = b.text \o [i \in 1..(2 * n) |-> IF i % 2 = 1 THEN Comma ELSE "v"]
  PROVE  Holds(c, v + n, 0)
<1>1. v + n > 0 /\ v # 0 /\ ~(0 > 0) /\ v + n # 0 /\ v \in Nat \ {0}
  OBVIOUS
<1>2. b.in_list /\ ~b.in_map /\ b.text = Unclosed(v, 0, 0)
  BY <1>1, Zenon DEF Holds
<1>3. Unclosed(v + n, 0, 0) = c.text
  BY <1>1, <1>2, UnclosedIds
<1> QED
  BY <1>1, <1>2, <1>3, Zenon DEF Holds

\* One section block of close_json.
LEMMA SectionHolds ==
  ASSUME NEW b \in Builder, ~b.in_pair, NEW v \in Nat, NEW p \in Nat, v > 0 \/ p > 0
  PROVE  /\ /\ ConvertSection(b).in_map /\ ~ConvertSection(b).in_pair
            /\ ConvertSection(b).in_list = b.in_list
         /\ b.text = Unclosed(v, p, 0) /\ (b.in_map <=> p > 0) =>
              ConvertSection(b).text = Unclosed(v, p, 1)
         /\ b.text = Unclosed(v, p, 1) /\ b.in_map =>
              ConvertSection(b).text = Unclosed(v, p, 2)
<1> DEFINE c == ConvertSection(b)
<1>1. c.in_map /\ ~c.in_pair /\ c.in_list = b.in_list
  BY DEF Builder, ConvertSection
<1>2. c.text = ((b.text \o <<Comma>>) \o (IF b.in_map THEN <<Comma>> ELSE <<Brace>>)) \o <<"s">>
  <2>1. c.text = ((b.text \o (IF b.in_pair THEN <<>> ELSE <<Comma>>))
                    \o (IF b.in_map THEN <<Comma>> ELSE <<Brace>>)) \o <<"s">>
    BY Zenon DEF Builder, ConvertSection, Comma, Brace
  <2> HIDE DEF c
  <2> QED
    BY <2>1, Zenon
<1> HIDE DEF c
<1>3. (p = 0 \/ p > 0) /\ ~(0 > 0)
  OBVIOUS
<1>4. ASSUME b.text = Unclosed(v, p, 0), b.in_map <=> p > 0
      PROVE  c.text = Unclosed(v, p, 1)
  <2>1. CASE p > 0
    BY <1>2, <1>4, <2>1, UnclosedGrows, Zenon
  <2>2. CASE p = 0
    BY <1>2, <1>3, <1>4, <2>2, UnclosedGrows, Zenon
  <2> QED
    BY <1>3, <2>1, <2>2
<1>5. ASSUME b.text = Unclosed(v, p, 1), b.in_map
      PROVE  c.text = Unclosed(v, p, 2)
  <2>1. Unclosed(v, p, 2) = ((Unclosed(v, p, 1) \o <<Comma>>) \o <<Comma>>) \o <<"s">>
    BY UnclosedGrows
  <2> QED
    BY <1>2, <1>5, <2>1, Zenon
<1> QED
  BY <1>1, <1>4, <1>5 DEF c

\* The whole of close_json.
LEMMA CloseHolds ==
  ASSUME NEW b \in Builder, NEW v \in Nat, NEW p \in Nat, Holds(b, v, p), ~b.in_pair,
         NEW u \in BOOLEAN, NEW r \in BOOLEAN, u \/ r => v > 0 \/ p > 0
  PROVE  CloseJson(b, u, r).text = Whole(v, p, (IF u THEN 1 ELSE 0) + (IF r THEN 1 ELSE 0))
<1> DEFINE n == (IF u THEN 1 ELSE 0) + (IF r THEN 1 ELSE 0)
           c == IF u THEN ConvertSection(b) ELSE b
           d == IF r THEN ConvertSection(c) ELSE c
           brace == IF d.in_map THEN <<EndBrace>> ELSE <<>>
           bracket == IF d.in_list THEN <<EndBracket>> ELSE <<>>
<1>1. CloseJson(b, u, r).text = d.text \o brace \o bracket
  <2>1. c \in Builder
    BY ConvertSectionType
  <2>2. d \in Builder
    <3> HIDE DEF c
    <3> QED BY <2>1, ConvertSectionType
  <2>3. CloseJson(b, u, r) = [d EXCEPT !.text = @ \o brace \o bracket]
    BY Zenon DEF CloseJson, EndBrace, EndBracket
  <2> HIDE DEF d, brace, bracket
  <2> QED
    BY <2>2, <2>3 DEF Builder
<1>2. /\ b.in_map <=> p > 0
      /\ b.in_list <=> v > 0 \/ p > 0
      /\ b.text = IF v = 0 /\ p = 0 THEN <<>> ELSE Unclosed(v, p, 0)
  BY DEF Holds
<1>3. /\ n \in Nat /\ ((v = 0 /\ p = 0) \/ v > 0 \/ p > 0)
      /\ v = 0 /\ p = 0 => n = 0 /\ v + p + n = 0 /\ ~(p + n > 0) /\ ~(v > 0) /\ ~(p > 0)
      /\ v > 0 \/ p > 0 => ~(v = 0 /\ p = 0) /\ v + p + n # 0
      /\ p + n > 0 <=> p > 0 \/ u \/ r
  OBVIOUS
<1>n. n = IF u /\ r THEN 2 ELSE IF u \/ r THEN 1 ELSE 0
  OBVIOUS
<1> HIDE DEF n
<1> SUFFICES CloseJson(b, u, r).text = Whole(v, p, n)
  BY DEF n
<1>4. ASSUME v > 0 \/ p > 0
      PROVE  d.text = Unclosed(v, p, n) /\ d.in_list /\ (d.in_map <=> p > 0 \/ u \/ r)
  <2>1. /\ c \in Builder /\ ~c.in_pair /\ c.in_list /\ (c.in_map <=> p > 0 \/ u)
        /\ c.text = IF u THEN Unclosed(v, p, 1) ELSE Unclosed(v, p, 0)
    <3>1. b.text = Unclosed(v, p, 0) /\ b.in_list
      BY <1>2, <1>3, <1>4, Zenon
    <3>2. CASE u
      <4>1. c = ConvertSection(b)
        BY <3>2
      <4>2. /\ c.in_map /\ ~c.in_pair /\ c.in_list = b.in_list
            /\ c.text = Unclosed(v, p, 1)
        <5> HIDE DEF c
        <5> QED BY <1>2, <1>4, <3>1, <4>1, SectionHolds, ZenonT(60)
      <4>3. c \in Builder
        BY ConvertSectionType
      <4> HIDE DEF c
      <4> QED
        BY <3>1, <3>2, <4>2, <4>3, Zenon
    <3>3. CASE ~u
      <4>1. c = b
        BY <3>3
      <4> HIDE DEF c
      <4> QED
        BY <1>2, <3>1, <3>3, <4>1, Zenon
    <3> QED
      BY <3>2, <3>3
  <2>2. n = IF u /\ r THEN 2 ELSE IF u \/ r THEN 1 ELSE 0
    BY <1>n
  <2> HIDE DEF c
  <2>3. CASE r
    <3>1. d = ConvertSection(c)
      BY <2>3
    <3> HIDE DEF d
    <3>2. /\ d.in_map /\ d.in_list
          /\ c.text = Unclosed(v, p, 0) /\ (c.in_map <=> p > 0) => d.text = Unclosed(v, p, 1)
          /\ c.text = Unclosed(v, p, 1) /\ c.in_map => d.text = Unclosed(v, p, 2)
      BY <1>4, <2>1, <3>1, SectionHolds
    <3>3. CASE u
      BY <2>1, <2>2, <2>3, <3>2, <3>3, Zenon
    <3>4. CASE ~u
      BY <2>1, <2>2, <2>3, <3>2, <3>4, Zenon
    <3> QED
      BY <3>3, <3>4
  <2>4. CASE ~r
    BY <2>1, <2>2, <2>4, Zenon
  <2> QED
    BY <2>3, <2>4
<1>w. Whole(v, p, n) =
        IF v + p + n = 0 THEN <<>>
        ELSE Unclosed(v, p, n) \o (IF p + n > 0 THEN <<EndBrace>> ELSE <<>>) \o <<EndBracket>>
  BY Zenon DEF Whole, EndBrace, EndBracket
<1>5. CASE v > 0 \/ p > 0
  <2>1. brace = (IF p + n > 0 THEN <<EndBrace>> ELSE <<>>) /\ bracket = <<EndBracket>>
    <3> HIDE DEF d
    <3> QED BY <1>3, <1>4, <1>5, Zenon
  <2> HIDE DEF d, brace, bracket
  <2> QED
    BY <1>1, <1>3, <1>4, <1>5, <1>w, <2>1, Zenon
<1>6. CASE v = 0 /\ p = 0
  <2>1. d = b /\ ~b.in_map /\ ~b.in_list /\ b.text = <<>>
    BY <1>2, <1>3, <1>6, Zenon
  <2>2. brace = <<>> /\ bracket = <<>> /\ d.text = <<>>
    BY <2>1
  <2>3. <<>> \o <<>> = <<>>
    BY SymbolTexts, Joint
  <2> HIDE DEF d, brace, bracket
  <2> QED
    BY <1>1, <1>3, <1>6, <1>w, <2>2, <2>3, Zenon
<1> QED
  BY <1>3, <1>5, <1>6

-----------------------------------------------------------------------------
(* Where the text and the count of ids stand in front of the j-th op. *)

\* The pairs that are complete, the positional values, and with the ids that
\* were written all the values of the list.
Paired(ops, j) == Said(ops, j, "key") - IF Pending(ops, j) THEN 1 ELSE 0
Positional(ops, j) == Said(ops, j, "val") - Paired(ops, j)
InList(ops, j) ==
  Positional(ops, j) + IF "hashvals" \in Before(ops, j) THEN Said(ops, j, "hash") ELSE 0

OwnSoFar(ops, j, b, n) ==
  LET before == Before(ops, j)
  IN  /\ n = Said(ops, j, "hash")
      /\ "close" \notin before =>
           /\ Paired(ops, j) \in Nat /\ Positional(ops, j) \in Nat
           /\ "hashvals" \in before => Positional(ops, j) > 0
           /\ Holds(b, InList(ops, j), Paired(ops, j))
      /\ "close" \in before => b.text = OwnText(ops, j)

\* What cli_reset_command leaves is right for the first op.
LEMMA NothingOwn ==
  ASSUME NEW ops
  PROVE  OwnSoFar(ops, 1, EmptyBuilder, 0)
<1>1. \A op : Said(ops, 1, op) = 0
  BY SaidNothing
<1>2. Before(ops, 1) = {} /\ ~Pending(ops, 1)
  BY NothingBefore
<1>3. Paired(ops, 1) = 0 /\ Positional(ops, 1) = 0 /\ InList(ops, 1) = 0
  BY <1>1, <1>2 DEF Paired, Positional, InList
<1>4. Holds(EmptyBuilder, 0, 0)
  BY DEF Holds, EmptyBuilder
<1> QED
  BY <1>1, <1>2, <1>3, <1>4 DEF OwnSoFar

\* An op that adds nothing to the request leaves its text.
LEMMA OwnTextStays ==
  ASSUME NEW ops \in Seq(Ops), NEW j \in 1..Len(ops),
         ops[j] \notin {"val", "key", "hash", "hashvals", "ud", "range"}
  PROVE  OwnText(ops, j + 1) = OwnText(ops, j)
<1>1. Before(ops, j + 1) = Before(ops, j) \cup {ops[j]}
  BY OneMoreBefore
<1>2. /\ "hashvals" \in Before(ops, j + 1) <=> "hashvals" \in Before(ops, j)
      /\ Before(ops, j + 1) \cap {"ud", "range"} = Before(ops, j) \cap {"ud", "range"}
  BY <1>1
<1>3. \A op \in {"val", "key", "hash"} : Said(ops, j + 1, op) = Said(ops, j, op)
  <2>1. j \in Nat \ {0}
    OBVIOUS
  <2> QED
    BY <2>1, SaidMore
<1>4. /\ Said(ops, j + 1, "val") = Said(ops, j, "val")
      /\ Said(ops, j + 1, "key") = Said(ops, j, "key")
      /\ Said(ops, j + 1, "hash") = Said(ops, j, "hash")
  BY <1>3
<1>5. (IF "hashvals" \in Before(ops, j + 1) THEN Said(ops, j + 1, "hash") ELSE 0)
        = (IF "hashvals" \in Before(ops, j) THEN Said(ops, j, "hash") ELSE 0)
  BY <1>2, <1>4
<1> QED
  BY <1>2, <1>4, <1>5 DEF OwnText

\* What an op that sends nothing makes of the builder and the count of ids.
OwnEffect(op, b, ud, range, n, d, n2) ==
  /\ n2 = IF op = "hash" THEN n + 1 ELSE n
  /\ op = "val" => d = ConvertVal(b)
  /\ op = "key" => d = ConvertKey(b)
  /\ op = "hashvals" => d = [b EXCEPT !.text = @ \o [i \in 1..(2 * n) |->
                                                   IF i % 2 = 1 THEN Comma ELSE "v"]]
  /\ op = "close" => d = CloseJson(b, ud, range)
  /\ op \notin {"val", "key", "hashvals", "close"} => d = b

\* One op more.
LEMMA OwnGrows ==
  ASSUME NEW c \in Commands, NEW j \in 1..Len(c.ops),
         NEW b \in Builder, NEW ud \in BOOLEAN, NEW range \in BOOLEAN, NEW n \in Nat,
         RequestSoFar(c.ops, j, b, ud, range), OwnSoFar(c.ops, j, b, n),
         NEW d \in Builder, NEW n2 \in Nat, c.ops[j] # "send",
         OwnEffect(c.ops[j], b, ud, range, n, d, n2)
  PROVE  OwnSoFar(c.ops, j + 1, d, n2)
<1> DEFINE op == c.ops[j]
           before == Before(c.ops, j)
           after == Before(c.ops, j + 1)
           wait == Pending(c.ops, j)
           wait2 == Pending(c.ops, j + 1)
           vs == Said(c.ops, j, "val")
           ks == Said(c.ops, j, "key")
           hs == Said(c.ops, j, "hash")
           vs2 == Said(c.ops, j + 1, "val")
           ks2 == Said(c.ops, j + 1, "key")
           hs2 == Said(c.ops, j + 1, "hash")
           p == Paired(c.ops, j)
           m == Positional(c.ops, j)
           v == InList(c.ops, j)
           p2 == Paired(c.ops, j + 1)
           m2 == Positional(c.ops, j + 1)
           v2 == InList(c.ops, j + 1)
<1>1. c.ops \in Seq(Ops) /\ j \in Nat \ {0}
  BY ParserAssumption
<1>2. after = before \cup {op} /\ (wait2 <=> op = "key" \/ (wait /\ op # "val"))
  BY <1>1, OneMoreBefore
<1>3. /\ vs \in Nat /\ ks \in Nat /\ hs \in Nat
      /\ vs > 0 <=> "val" \in before
      /\ ks > 0 <=> "key" \in before
      /\ vs2 = vs + (IF op = "val" THEN 1 ELSE 0)
      /\ ks2 = ks + (IF op = "key" THEN 1 ELSE 0)
      /\ hs2 = hs + (IF op = "hash" THEN 1 ELSE 0)
  BY <1>1, SaidMore
<1>4. /\ p = ks - (IF wait THEN 1 ELSE 0) /\ m = vs - p
      /\ v = m + (IF "hashvals" \in before THEN hs ELSE 0)
      /\ p2 = ks2 - (IF wait2 THEN 1 ELSE 0) /\ m2 = vs2 - p2
      /\ v2 = m2 + (IF "hashvals" \in after THEN hs2 ELSE 0)
  BY DEF Paired, Positional, InList
<1>5. /\ "send" \notin before
      /\ ud <=> "ud" \in before
      /\ range <=> "range" \in before
      /\ "close" \notin before => (b.in_map <=> "key" \in before) /\ (b.in_pair <=> wait)
  BY DEF RequestSoFar
<1>6. /\ n = hs
      /\ "close" \notin before =>
           /\ p \in Nat /\ m \in Nat /\ Holds(b, v, p)
           /\ "hashvals" \in before => m > 0
      /\ "close" \in before => b.text = OwnText(c.ops, j)
  BY DEF OwnSoFar
<1>7. /\ op \in {"val", "key", "hashvals", "close"} => "close" \notin before
      /\ op = "val" /\ "key" \in before => wait
      /\ op \in {"key", "close"} => ~wait
      /\ op = "hashvals" => "val" \in before /\ "key" \notin before
      /\ op = "close" /\ ("ud" \in before \/ "range" \in before) => "val" \in before
  BY <1>5, RequestAssumption
<1>8. /\ op \in {"hash", "hashvals"} => "hashvals" \notin before
      /\ op \in {"hash", "ud", "range"} => "close" \notin before
  BY <1>5, PayloadAssumption
<1>9. wait => "key" \in before
  BY DEF Pending, Before
<1>10. "close" \in before \/ op = "close" => OwnText(c.ops, j + 1) = OwnText(c.ops, j)
  BY <1>1, <1>7, <1>8, OwnTextStays
<1> HIDE DEF op, before, after, wait, wait2, vs, ks, hs, vs2, ks2, hs2, p, m, v, p2, m2, v2
<1>11. n2 = hs2
  BY <1>3, <1>6 DEF OwnEffect, op
<1> SUFFICES /\ "close" \notin after =>
                  /\ p2 \in Nat /\ m2 \in Nat
                  /\ "hashvals" \in after => m2 > 0
                  /\ Holds(d, v2, p2)
             /\ "close" \in after => d.text = OwnText(c.ops, j + 1)
  BY <1>11, Zenon DEF OwnSoFar, after, p2, m2, v2, hs2
<1>12. CASE "close" \in before
  <2>1. d = b
    BY <1>7, <1>12 DEF OwnEffect, op
  <2> QED
    BY <1>2, <1>6, <1>10, <1>12, <2>1
<1>13. CASE "close" \notin before /\ op = "val"
  <2>1. d = ConvertVal(b) /\ (b.in_map => b.in_pair) /\ v \in Nat /\ p \in Nat /\ Holds(b, v, p)
    BY <1>3, <1>4, <1>5, <1>6, <1>7, <1>13 DEF OwnEffect, op
  <2>2. /\ b.in_pair => Holds(d, v, p + 1)
        /\ ~b.in_pair => p = 0 /\ Holds(d, v + 1, 0)
    BY <2>1, ValHolds
  <2>3. "hashvals" \in after <=> "hashvals" \in before
    BY <1>2, <1>13
  <2>4. CASE wait
    <3>1. p2 = p + 1 /\ m2 = m /\ v2 = v
      BY <1>2, <1>3, <1>4, <1>13, <2>3, <2>4, SMTT(30)
    <3> QED
      BY <1>2, <1>5, <1>6, <1>13, <2>1, <2>2, <2>3, <2>4, <3>1
  <2>5. CASE ~wait
    <3>1. p2 = p /\ m2 = m + 1 /\ v2 = v + 1
      BY <1>2, <1>3, <1>4, <1>6, <1>13, <2>1, <2>3, <2>5
    <3> QED
      BY <1>2, <1>5, <1>6, <1>13, <2>1, <2>2, <2>3, <2>5, <3>1
  <2> QED
    BY <2>4, <2>5
<1>14. CASE "close" \notin before /\ op = "key"
  <2>1. d = ConvertKey(b) /\ ~b.in_pair /\ v \in Nat /\ p \in Nat /\ Holds(b, v, p)
    BY <1>3, <1>4, <1>5, <1>6, <1>7, <1>14 DEF OwnEffect, op
  <2>2. Holds(d, v, p)
    BY <2>1, KeyHolds
  <2>3. "hashvals" \in after <=> "hashvals" \in before
    BY <1>2, <1>14
  <2>4. p2 = p /\ m2 = m /\ v2 = v
    BY <1>2, <1>3, <1>4, <1>7, <1>14, <2>3
  <2> QED
    BY <1>2, <1>6, <1>14, <2>2, <2>3, <2>4
<1>15. CASE "close" \notin before /\ op = "hashvals"
  <2>1. /\ "hashvals" \notin before /\ "hashvals" \in after /\ ~wait /\ ~wait2
        /\ ~b.in_pair /\ ks = 0 /\ p = 0 /\ m > 0 /\ m \in Nat /\ v = m
    BY <1>2, <1>3, <1>4, <1>5, <1>6, <1>7, <1>8, <1>9, <1>15
  <2>2. p2 = 0 /\ m2 = m /\ v2 = m + n /\ hs2 = hs
    <3>1. ks2 = 0 /\ vs2 = vs /\ hs2 = n
      BY <1>3, <1>6, <1>15, <2>1
    <3>2. p2 = 0 /\ m2 = vs
      BY <1>3, <1>4, <2>1, <3>1
    <3> QED
      BY <1>3, <1>4, <1>6, <2>1, <3>1, <3>2
  <2>3. d = [b EXCEPT !.text = @ \o [i \in 1..(2 * n) |-> IF i % 2 = 1 THEN Comma ELSE "v"]]
    BY <1>15 DEF OwnEffect, op
  <2>4. /\ d.text = b.text \o [i \in 1..(2 * n) |-> IF i % 2 = 1 THEN Comma ELSE "v"]
        /\ d.in_list = b.in_list /\ d.in_map = b.in_map /\ d.in_pair = b.in_pair
    BY <2>3, Zenon DEF Builder
  <2>5. Holds(b, m, 0)
    BY <1>6, <1>15, <2>1
  <2>6. Holds(d, m + n, 0)
    BY <2>1, <2>4, <2>5, IdsHold
  <2> QED
    BY <1>2, <1>15, <2>1, <2>2, <2>6
<1>16. CASE "close" \notin before /\ op = "close"
  <2>1. /\ d = CloseJson(b, ud, range) /\ ~wait /\ ~b.in_pair /\ v \in Nat /\ p \in Nat /\ Holds(b, v, p)
    BY <1>3, <1>4, <1>5, <1>6, <1>7, <1>16 DEF OwnEffect, op
  <2>2. ud \/ range => v > 0 \/ p > 0
    BY <1>3, <1>4, <1>5, <1>6, <1>7, <1>16
  <2> DEFINE s == (IF ud THEN 1 ELSE 0) + (IF range THEN 1 ELSE 0)
  <2>3. d.text = Whole(v, p, s)
    <3>1. ~b.in_pair /\ Holds(b, v, p) /\ v \in Nat /\ p \in Nat /\ b \in Builder
            /\ ud \in BOOLEAN /\ range \in BOOLEAN /\ (ud \/ range => v > 0 \/ p > 0)
      BY <2>1, <2>2
    <3>2. CloseJson(b, ud, range).text = Whole(v, p, s)
      BY <3>1, CloseHolds
    <3> QED
      BY <2>1, <3>2
  <2>4. Cardinality(before \cap {"ud", "range"}) = s
    BY <1>5, SectionsSaid
  <2>5. p = ks /\ v = vs - ks + (IF "hashvals" \in before THEN hs ELSE 0)
    BY <1>3, <1>4, <2>1
  <2> HIDE DEF s
  <2>6. OwnText(c.ops, j) = Whole(v, p, s)
    BY <2>4, <2>5 DEF OwnText, before, vs, ks, hs
  <2>7. d.text = OwnText(c.ops, j + 1)
    BY <1>10, <1>16, <2>3, <2>6, Zenon
  <2> QED
    BY <1>2, <1>16, <2>7
<1>17. CASE "close" \notin before /\ op \notin {"val", "key", "hashvals", "close"}
  <2>1. d = b
    BY <1>17 DEF OwnEffect, op
  <2>2. /\ "hashvals" \in after <=> "hashvals" \in before
        /\ "hashvals" \in before => hs2 = hs
        /\ wait2 <=> wait
    BY <1>2, <1>3, <1>8, <1>17
  <2>3. p2 = p /\ m2 = m /\ v2 = v
    BY <1>3, <1>4, <1>17, <2>2
  <2> QED
    BY <1>2, <1>6, <1>17, <2>1, <2>2, <2>3
<1> QED
  BY <1>12, <1>13, <1>14, <1>15, <1>16, <1>17

\* The text that leaves first.
LEMMA OwnWhole ==
  ASSUME NEW c \in Commands, NEW j \in 1..Len(c.ops), c.ops[j] = "send",
         NEW b \in Builder, NEW ud \in BOOLEAN, NEW range \in BOOLEAN, NEW n \in Nat,
         RequestSoFar(c.ops, j, b, ud, range), OwnSoFar(c.ops, j, b, n)
  PROVE  b.text = OwnText(c.ops, j) /\ FirstSend(c.ops) = j
<1> DEFINE before == Before(c.ops, j)
<1>1. "send" \notin before /\ j \in Nat \ {0} /\ Len(c.ops) \in Nat
  <2>1. c.ops \in Seq(Ops)
    BY ParserAssumption
  <2> QED
    BY <2>1 DEF RequestSoFar
<1>2. FirstSend(c.ops) = j
  <2> DEFINE First(k) == c.ops[k] = "send" /\ "send" \notin Before(c.ops, k)
  <2>1. First(j)
    BY <1>1
  <2>2. ASSUME NEW k \in 1..Len(c.ops), First(k) PROVE k = j
    <3>1. ~(k < j)
      <4>1. k < j => k \in 1..(j - 1)
        BY <1>1
      <4> QED
        BY <1>1, <2>2, <4>1 DEF Before
    <3>2. ~(j < k)
      <4>1. j < k => j \in 1..(k - 1)
        BY <1>1
      <4> QED
        BY <2>1, <2>2, <4>1 DEF Before
    <3> QED
      BY <1>1, <3>1, <3>2
  <2> HIDE DEF First
  <2>3. (CHOOSE k \in 1..Len(c.ops) : First(k)) = j
    BY <2>1, <2>2
  <2> QED
    BY <2>3 DEF First, FirstSend
<1>3. CASE "close" \in before
  BY <1>2, <1>3 DEF OwnSoFar
<1>4. CASE "close" \notin before
  <2>1. /\ "val" \notin before /\ "key" \notin before
        /\ "ud" \notin before /\ "range" \notin before
    <3>1. ("val" \in before \/ "key" \in before) => "close" \in before
      BY <1>1, RequestAssumption
    <3>2. ("ud" \in before \/ "range" \in before) => "close" \in before
      BY <1>1, PayloadAssumption
    <3> QED
      BY <1>4, <3>1, <3>2
  <2>2. /\ Said(c.ops, j, "val") = 0 /\ Said(c.ops, j, "key") = 0 /\ ~Pending(c.ops, j)
    <3>1. \A op : Said(c.ops, j, op) \in Nat /\ (Said(c.ops, j, op) > 0 <=> op \in before)
      BY <1>1, SaidMore
    <3>2. ~Pending(c.ops, j)
      BY <2>1 DEF Pending, Before
    <3> QED
      BY <2>1, <3>1, <3>2
  <2>3. Paired(c.ops, j) = 0 /\ Positional(c.ops, j) = 0
    BY <2>2 DEF Paired, Positional
  <2>4. "hashvals" \notin before /\ Holds(b, InList(c.ops, j), 0)
    BY <1>4, <2>3 DEF OwnSoFar
  <2>5. InList(c.ops, j) = 0 /\ ~b.in_pair
    BY <1>4, <2>2, <2>3, <2>4 DEF InList, RequestSoFar
  <2>6. b.text = <<>>
    BY <2>4, <2>5 DEF Holds
  <2>7. Cardinality(before \cap {"ud", "range"}) = 0
    BY <2>1, SectionsSaid
  <2>8. OwnText(c.ops, j) = <<>>
    BY <2>2, <2>4, <2>7 DEF OwnText, Whole
  <2> QED
    BY <1>2, <2>6, <2>8
<1> QED
  BY <1>3, <1>4

-----------------------------------------------------------------------------
OwnInv ==
  mode = "command" /\ ~tainted /\ sent = <<>> /\ pc <= Len(cmd.ops) =>
    OwnSoFar(cmd.ops, pc, json, outports_num)

\* A step past an op that sends nothing.
LEMMA OwnStep ==
  ASSUME TypeOK, TypeOK', PayloadInv, OwnInv, PayloadIsOwn,
         mode = "command", pc <= Len(cmd.ops), Advance, UNCHANGED <<sent, tainted>>,
         cmd.ops[pc] # "send",
         OwnEffect(cmd.ops[pc], json, ud_flag, range_flag, outports_num, json', outports_num')
  PROVE  OwnInv' /\ PayloadIsOwn'
<1>1. PayloadIsOwn'
  BY DEF PayloadIsOwn, Advance
<1>2. /\ cmd \in Commands /\ pc \in 1..Len(cmd.ops) /\ cmd' = cmd /\ pc' = pc + 1
      /\ json \in Builder /\ json' \in Builder
      /\ ud_flag \in BOOLEAN /\ range_flag \in BOOLEAN
      /\ outports_num \in Nat /\ outports_num' \in Nat
  <2>1. cmd.ops \in Seq(Ops)
    BY ParserAssumption DEF TypeOK
  <2> QED
    BY <2>1 DEF TypeOK, Advance
<1>3. OwnInv'
  <2> SUFFICES ASSUME ~tainted, sent = <<>>
               PROVE  OwnSoFar(cmd.ops, pc + 1, json', outports_num')
    BY <1>2, Zenon DEF OwnInv
  <2>1. /\ RequestSoFar(cmd.ops, pc, json, ud_flag, range_flag)
        /\ OwnSoFar(cmd.ops, pc, json, outports_num)
    BY DEF PayloadInv, OwnInv
  <2> QED
    BY <1>2, <2>1, OwnGrows
<1> QED
  BY <1>1, <1>3

\* In the beginning no command runs.
LEMMA InitOwn == Init => OwnInv /\ PayloadIsOwn
BY DEF Init, OwnInv, PayloadIsOwn

\* Every step of the parser keeps the request the one of its command.
LEMMA StepOwn ==
  ASSUME TypeOK, TypeOK', IInv, PayloadInv, OwnInv, PayloadIsOwn, [Next]_vars
  PROVE  OwnInv' /\ PayloadIsOwn'
\* Outside a command nothing is claimed, and behind its last op neither.
<1>a. ASSUME mode' # "command" PROVE OwnInv' /\ PayloadIsOwn'
  BY <1>a DEF OwnInv, PayloadIsOwn
<1>b. /\ UNCHANGED resetVars => UNCHANGED <<json, outports_num>>
      /\ UNCHANGED history => UNCHANGED <<sent, tainted>>
  BY DEF resetVars, history
<1>1. CASE StartParse \/ EndOfLine \/ EndCommand \/ SyntaxError \/ Reject \/ Resync \/ Abort \/ Accept
  BY <1>1, <1>a DEF StartParse, EndOfLine, EndCommand, SyntaxError, Reject, Resync, Abort, Accept
<1>2. ASSUME NEW c \in Commands, Begin(c) PROVE OwnInv' /\ PayloadIsOwn'
  <2>1. /\ mode = "boundary" /\ cmd' = c /\ pc' = pc
        /\ UNCHANGED <<json, outports_num, sent, tainted>>
    BY <1>2, <1>b DEF Begin
  <2>2. pc = 1 /\ sent = <<>>
    BY <2>1 DEF IInv, Fresh
  <2>3. PayloadIsOwn'
    BY <2>1, <2>2 DEF PayloadIsOwn
  <2>4. ASSUME ~tainted PROVE OwnSoFar(c.ops, 1, json, outports_num)
    <3>1. json = EmptyBuilder /\ outports_num = 0
      BY <2>1, <2>4 DEF IInv, CleanBetweenCommands, Clean
    <3> QED
      BY <3>1, NothingOwn
  <2> QED
    BY <2>1, <2>2, <2>3, <2>4, Zenon DEF OwnInv
<1>3. CASE ReadToken \/ ReadEos \/ Pass
  <2>1. mode = "command" /\ pc <= Len(cmd.ops) /\ cmd.ops[pc] \in {"tok", "eos", "check", "guard", "own"}
    BY <1>3 DEF ReadToken, ReadEos, Pass, At
  <2>2. Advance /\ UNCHANGED <<json, outports_num, sent, tainted>>
    BY <1>3, <1>b DEF ReadToken, ReadEos, Pass
  <2> QED
    BY <2>1, <2>2, OwnStep DEF OwnEffect
<1>4. CASE Skip
  <2>1. pc' = Len(cmd.ops) + 1 /\ UNCHANGED <<mode, cmd, sent, tainted>>
    BY <1>4, <1>b DEF Skip
  <2>2. cmd.ops \in Seq(Ops)
    BY ParserAssumption DEF TypeOK
  <2>3. ~(pc' <= Len(cmd'.ops))
    BY <2>1, <2>2
  <2> QED
    BY <2>1, <2>3 DEF OwnInv, PayloadIsOwn
<1>5. ASSUME NEW m \in SlotMasks, SetSlot(m) PROVE OwnInv' /\ PayloadIsOwn'
  BY <1>5, <1>b, OwnStep DEF SetSlot, At, OwnEffect
<1>6. CASE WriteVal
  BY <1>6, <1>b, OwnStep DEF WriteVal, At, OwnEffect
<1>7. CASE WriteKey
  BY <1>7, <1>b, OwnStep DEF WriteKey, At, OwnEffect
<1>8. CASE AddUd
  BY <1>8, <1>b, OwnStep DEF AddUd, At, OwnEffect
<1>9. CASE AddRange
  BY <1>9, <1>b, OwnStep DEF AddRange, At, OwnEffect
<1>10. CASE SetTcpflag
  BY <1>10, <1>b, OwnStep DEF SetTcpflag, At, OwnEffect
<1>11. CASE AddOutport
  BY <1>11, <1>b, OwnStep DEF AddOutport, At, OwnEffect
<1>12. CASE WriteOutports
  <2>1. /\ At("hashvals") /\ Advance /\ UNCHANGED <<outports_num, sent, tainted>>
    BY <1>12, <1>b DEF WriteOutports
  <2>2. json' = [json EXCEPT !.text = @ \o [i \in 1..(2 * outports_num) |->
                                              IF i % 2 = 1 THEN Comma ELSE "v"]]
    BY <1>12, Zenon DEF WriteOutports, Comma
  <2> QED
    BY <2>1, <2>2, OwnStep DEF At, OwnEffect
<1>13. CASE Close
  BY <1>13, <1>b, OwnStep DEF Close, At, OwnEffect
<1>14. CASE Send
  <2>1. /\ mode = "command" /\ cmd' = cmd /\ pc \in Nat \ {0} /\ pc <= Len(cmd.ops)
        /\ cmd.ops[pc] = "send" /\ tainted' = tainted
        /\ sent' = Append(sent, [text |-> json.text, mask |-> slot_mask])
    BY <1>14 DEF Send, Advance, At, TypeOK
  <2>2. cmd \in Commands /\ cmd.ops \in Seq(Ops) /\ sent \in Seq(Request)
    BY ParserAssumption DEF TypeOK
  <2>3. sent' # <<>> /\ sent'[1] = IF sent = <<>> THEN [text |-> json.text, mask |-> slot_mask]
                                                 ELSE sent[1]
    BY <2>1, <2>2
  <2>4. OwnInv'
    BY <2>3 DEF OwnInv
  <2>5. CASE sent = <<>>
    <3>1. ~tainted => json.text = OwnText(cmd.ops, FirstSend(cmd.ops))
      <4>1. pc \in 1..Len(cmd.ops)
        BY <2>1, <2>2
      <4>2. json \in Builder /\ ud_flag \in BOOLEAN /\ range_flag \in BOOLEAN /\ outports_num \in Nat
        BY DEF TypeOK
      <4> QED
        BY <2>1, <2>2, <2>5, <4>1, <4>2, OwnWhole DEF PayloadInv, OwnInv
    <3>2. sent'[1].text = json.text
      BY <2>3, <2>5
    <3>3. PayloadIsOwn'
      BY <2>1, <3>1, <3>2, Zenon DEF PayloadIsOwn
    <3> QED
      BY <2>4, <3>3
  <2>6. CASE sent # <<>>
    BY <2>1, <2>3, <2>4, <2>6 DEF PayloadIsOwn
  <2> QED
    BY <2>5, <2>6
<1>15. CASE UNCHANGED vars
  BY <1>15, <1>b DEF vars, readVars, OwnInv, PayloadIsOwn
<1> QED
  BY <1>1, <1>2, <1>3, <1>4, <1>5, <1>6, <1>7, <1>8, <1>9, <1>10, <1>11, <1>12, <1>13, <1>14,
     <1>15
  DEF Next, ParserStep, Write

\* What send of a command passes on first is what the command itself says,
\* written by the convert functions, the loop over hash_outports and
\* close_json one behind the other: every value once, in its place, and none
\* that an earlier command left in g_sb, hash_outports or the flags.
THEOREM OwnRequest == Spec => []PayloadIsOwn
<1>1. Init => OwnInv /\ PayloadIsOwn
  BY InitOwn
<1>2. TypeOK /\ TypeOK' /\ IInv /\ PayloadInv /\ OwnInv /\ PayloadIsOwn /\ [Next]_vars
        => OwnInv' /\ PayloadIsOwn'
  BY StepOwn
<1>3. Init => PayloadInv /\ FirstPayloadWellFormed
  BY InitPayload
<1>4. TypeOK /\ TypeOK' /\ IInv /\ PayloadInv /\ FirstPayloadWellFormed /\ [Next]_vars
        => PayloadInv' /\ FirstPayloadWellFormed'
  BY StepPayload
<1> QED
  BY <1>1, <1>2, <1>3, <1>4, TypeCorrect, Invariance, PTL DEF Spec

-----------------------------------------------------------------------------
(* The requests of the rpc library. *)

\* The least number with a property is found in the set of all that have it.
LEMMA Least ==
  ASSUME NEW T \in SUBSET Nat, T # {}
  PROVE  \E n \in T : \A m \in T : n <= m
<1> DEFINE R == OpToRel(<, Nat)
<1>1. IsWellFoundedOn(R, Nat)
  BY NatLessThanWellFounded
<1>2. \A x, y \in Nat : x < y => <<x, y>> \in R
  BY DEF OpToRel
<1> HIDE DEF R
<1>3. PICK n \in T : \A m \in T : <<m, n>> \notin R
  BY <1>1, WFMin
<1>4. ASSUME NEW m \in T PROVE n <= m
  <2>1. m \in Nat /\ n \in Nat /\ ~(m < n)
    BY <1>2, <1>3, Zenon
  <2> QED
    BY <2>1
<1> QED
  BY <1>4

\* A request that was sent has a first send op.
LEMMA FirstSendIs ==
  ASSUME NEW ops \in Seq(Ops), NEW i \in 1..Len(ops), ops[i] = "send"
  PROVE  LET j == FirstSend(ops)
         IN  j \in 1..Len(ops) /\ ops[j] = "send" /\ "send" \notin Before(ops, j)
<1> DEFINE T == {k \in 1..Len(ops) : ops[k] = "send"}
<1>1. T \in SUBSET Nat /\ T # {}
  OBVIOUS
<1>2. PICK j \in T : \A m \in T : j <= m
  <2> HIDE DEF T
  <2> QED BY <1>1, Least
<1>3. "send" \notin Before(ops, j)
  <2>1. ASSUME NEW k \in 1..(j - 1), ops[k] = "send" PROVE FALSE
    <3>1. k \in T /\ k < j
      BY <2>1
    <3> QED
      BY <1>2, <3>1
  <2> QED
    BY <2>1 DEF Before
<1>4. \E k \in 1..Len(ops) : ops[k] = "send" /\ "send" \notin Before(ops, k)
  BY <1>2, <1>3
<1> QED
  BY <1>4 DEF FirstSend

\* One value more.
Lists(b, n) ==
  /\ n = 0 => b = EmptyBuilder
  /\ n > 0 => b = [text |-> Listed(n), in_list |-> TRUE, in_map |-> FALSE, in_pair |-> FALSE]
LEMMA RpcConvertsOne ==
  ASSUME NEW n \in Nat, NEW b, Lists(b, n)
  PROVE  Lists(RpcConvertVal(b), n + 1)
<1>1. n + 1 > 0 /\ n + 1 # 0 /\ (n = 0 \/ n > 0)
  OBVIOUS
<1>2. /\ Listed(1) = <<Bracket>> \o <<"v">>
      /\ n > 0 => Listed(n + 1) = (Listed(n) \o <<Comma>>) \o <<"v">>
  BY PartTexts
<1>3. CASE n = 0
  <2>1. b = EmptyBuilder /\ n + 1 = 1
    BY <1>3 DEF Lists
  <2>2. RpcConvertVal(b) = [b EXCEPT !.text = (<<>> \o <<Bracket>>) \o <<"v">>,
                                     !.in_list = TRUE, !.in_pair = FALSE]
    BY <2>1, Zenon DEF RpcConvertVal, EmptyBuilder, Bracket
  <2>3. <<>> \o <<Bracket>> = <<Bracket>>
    BY Punctuation, Joint
  <2>4. RpcConvertVal(b) = [text |-> Listed(1), in_list |-> TRUE, in_map |-> FALSE, in_pair |-> FALSE]
    BY <1>2, <2>1, <2>2, <2>3 DEF EmptyBuilder
  <2> QED
    BY <1>1, <2>1, <2>4 DEF Lists
<1>4. CASE n > 0
  <2>1. b = [text |-> Listed(n), in_list |-> TRUE, in_map |-> FALSE, in_pair |-> FALSE]
    BY <1>4 DEF Lists
  <2>2. RpcConvertVal(b) = [b EXCEPT !.text = (Listed(n) \o <<Comma>>) \o <<"v">>,
                                     !.in_list = TRUE, !.in_pair = FALSE]
    BY <2>1, Zenon DEF RpcConvertVal, Comma
  <2>3. RpcConvertVal(b)
          = [text |-> Listed(n + 1), in_list |-> TRUE, in_map |-> FALSE, in_pair |-> FALSE]
    BY <1>2, <1>4, <2>1, <2>2
  <2> QED
    BY <1>1, <2>3 DEF Lists
<1> QED
  BY <1>1, <1>3, <1>4

\* A function writes its values into one list.
LEMMA RpcWritesList ==
  ASSUME NEW function \in DOMAIN Values
  PROVE  RpcText(function) = Whole(Values[function], 0, 0)
<1> DEFINE total == Values[function]
           Step(f) == [n \in 0..total |-> IF n = 0 THEN EmptyBuilder ELSE RpcConvertVal(f[n - 1])]
           Written == CHOOSE f : f = Step(f)
<1>1. total \in Nat
  BY DEF Values, Area
<1>2. RpcText(function) = RpcCloseJson(Written[total]).text
  BY DEF RpcText
<1> HIDE DEF total
<1>3. Written = Step(Written)
  <2> DEFINE g == [n \in 0..total |-> IF n = 0 THEN EmptyBuilder
                     ELSE [text |-> Listed(n), in_list |-> TRUE, in_map |-> FALSE, in_pair |-> FALSE]]
  <2>1. \A n \in 0..total : Lists(g[n], n)
    BY <1>1 DEF Lists
  <2>2. ASSUME NEW n \in 0..total, n # 0 PROVE g[n] = RpcConvertVal(g[n - 1])
    <3>1. n - 1 \in Nat /\ n - 1 \in 0..total /\ (n - 1) + 1 = n /\ n > 0
      BY <1>1, <2>2
    <3>2. Lists(RpcConvertVal(g[n - 1]), n)
      BY <2>1, <3>1, RpcConvertsOne
    <3> QED
      BY <2>1, <3>1, <3>2 DEF Lists
  <2>3. g = Step(g)
    <3>1. \A n \in 0..total : g[n] = Step(g)[n]
      BY <2>2
    <3> QED
      BY <3>1
  <2> QED
    BY <2>3
<1>4. \A n \in 0..total : Lists(Written[n], n)
  <2> DEFINE T == {n \in 0..total : ~Lists(Written[n], n)}
  <2>1. SUFFICES ASSUME T # {} PROVE FALSE
    OBVIOUS
  <2>2. PICK n \in T : \A m \in T : n <= m
    <3>1. T \in SUBSET Nat
      OBVIOUS
    <3> HIDE DEF T
    <3> QED BY <2>1, <3>1, Least
  <2>3. \A k \in 0..total : Written[k] = IF k = 0 THEN EmptyBuilder ELSE RpcConvertVal(Written[k - 1])
    <3> HIDE DEF Written
    <3>1. \A k \in 0..total : Step(Written)[k] = IF k = 0 THEN EmptyBuilder ELSE RpcConvertVal(Written[k - 1])
      OBVIOUS
    <3> QED BY <1>3, <3>1
  <2> HIDE DEF Written
  <2>4. CASE n = 0
    BY <1>1, <2>2, <2>3, <2>4 DEF Lists
  <2>5. CASE n # 0
    <3>1. n - 1 \in 0..total /\ n - 1 \in Nat /\ (n - 1) + 1 = n /\ ~(n <= n - 1)
      BY <1>1, <2>2, <2>5
    <3>2. Lists(Written[n - 1], n - 1)
      BY <2>2, <3>1
    <3>3. Lists(RpcConvertVal(Written[n - 1]), n)
      BY <3>1, <3>2, RpcConvertsOne
    <3> QED
      BY <2>2, <2>3, <2>5, <3>3
  <2> QED
    BY <2>4, <2>5
<1> HIDE DEF Written
<1>5. Lists(Written[total], total)
  BY <1>1, <1>4
<1>6. CASE total = 0
  <2>1. Written[total] = EmptyBuilder
    BY <1>5, <1>6 DEF Lists
  <2>2. RpcCloseJson(EmptyBuilder).text = (<<>> \o <<>>) \o <<>>
    BY Zenon DEF RpcCloseJson, EmptyBuilder
  <2>3. Whole(total, 0, 0) = <<>>
    BY <1>6 DEF Whole
  <2> QED
    BY <1>2, <2>1, <2>2, <2>3 DEF total
<1>7. CASE total > 0
  <2>1. Written[total]
          = [text |-> Listed(total), in_list |-> TRUE, in_map |-> FALSE, in_pair |-> FALSE]
    BY <1>5, <1>7 DEF Lists
  <2>2. RpcCloseJson(Written[total]).text = (Listed(total) \o <<>>) \o <<EndBracket>>
    <3>1. ASSUME NEW b, NEW t,
                 b = [text |-> t, in_list |-> TRUE, in_map |-> FALSE, in_pair |-> FALSE]
          PROVE  RpcCloseJson(b).text = (t \o <<>>) \o <<EndBracket>>
      <4>1. b.text = t /\ b.in_list = TRUE /\ b.in_map = FALSE
        BY <3>1
      <4>2. RpcCloseJson(b).text = (b.text \o (IF b.in_map THEN <<EndBrace>> ELSE <<>>))
                                     \o (IF b.in_list THEN <<EndBracket>> ELSE <<>>)
        BY <3>1 DEF RpcCloseJson, EndBrace, EndBracket
      <4> QED
        BY <4>1, <4>2, Zenon
    <3> QED
      BY <2>1, <3>1, Zenon
  <2>3. Whole(total, 0, 0) = (Unclosed(total, 0, 0) \o <<>>) \o <<EndBracket>>
    <3>1. total + 0 + 0 # 0 /\ ~(0 + 0 > 0)
      BY <1>1, <1>7
    <3> QED
      BY <3>1, Zenon DEF Whole, EndBracket
  <2>4. Unclosed(total, 0, 0) = Listed(total)
    <3>1. 0 \in Nat
      OBVIOUS
    <3> QED BY <1>1, <3>1, UnclosedForms
  <2> QED
    BY <1>2, <2>2, <2>3, <2>4 DEF total
<1> QED
  BY <1>1, <1>6, <1>7

\* Every command that shares its opcode with a function of the library sends a
\* text of the shape that the function sends: process_msg of the command line and
\* rpc_process_msg pass a slot a list of as many values, as long as the production
\* reads as many (SameOpcodeAssumption) and whatever was typed before it.
THEOREM SameText == Spec => []SameTextForOpcode
<1>1. TypeOK /\ SendIsBehind /\ PayloadIsOwn => SameTextForOpcode
  <2> SUFFICES ASSUME TypeOK, SendIsBehind, PayloadIsOwn, mode = "command", ~tainted, sent # <<>>,
                      NEW pair \in SameOpcode, pair[1] = cmd.name
               PROVE  sent[1].text = RpcText(pair[2])
    BY DEF SameTextForOpcode
  <2> DEFINE j == FirstSend(cmd.ops)
             before == Before(cmd.ops, j)
  <2>1. cmd \in Commands /\ cmd.ops \in Seq(Ops)
    BY ParserAssumption DEF TypeOK
  <2>2. j \in 1..Len(cmd.ops) /\ cmd.ops[j] = "send" /\ "send" \notin before
    BY <2>1, FirstSendIs DEF SendIsBehind
  <2>3. sent[1].text = OwnText(cmd.ops, j)
    BY DEF PayloadIsOwn
  <2>4. /\ Said(cmd.ops, j, "val") = Values[pair[2]]
        /\ before \cap {"key", "hashvals", "ud", "range"} = {}
    BY <2>1, <2>2, SameOpcodeAssumption
  <2>5. pair[2] \in DOMAIN Values /\ Values[pair[2]] \in Nat
    <3>1. pair[2] \in DOMAIN Values
      <4>1. pair[2] \in {"get_config", "get_system", "get_board_info", "get_interface_info",
                         "get_interface_counter", "clear_interface_counter", "set_port_mode",
                         "get_snmp_trap_info", "olp_show_status"}
        <5> DEFINE Shares(f) == \E c : pair = <<c, f>>
        <5>1. \/ Shares("get_config") \/ Shares("get_system") \/ Shares("get_board_info")
              \/ Shares("get_interface_info") \/ Shares("get_interface_counter")
              \/ Shares("clear_interface_counter") \/ Shares("set_port_mode")
              \/ Shares("get_snmp_trap_info") \/ Shares("olp_show_status")
          BY Zenon DEF SameOpcode
        <5>2. \A f : Shares(f) => pair[2] = f
          OBVIOUS
        <5> HIDE DEF Shares
        <5> QED
          BY <5>1, <5>2, Zenon
      <4>2. DOMAIN Values = {"get_system", "get_info", "get_config", "get_board_info",
                             "get_snmp_trap_info", "olp_show_status", "get_interface_info",
                             "get_interface_status", "clear_interface_counter", "get_snmp_entry",
                             "get_interface_counter", "set_port_mode"}
        BY Zenon DEF Values
      <4> QED
        BY <4>1, <4>2
    <3>2. \A f \in DOMAIN Values : Values[f] \in Nat
      BY DEF Values, Area
    <3> QED
      BY <3>1, <3>2
  <2>6. Said(cmd.ops, j, "key") = 0
    <3>1. {i \in 1..(j - 1) : cmd.ops[i] = "key"} = {}
      BY <2>4 DEF Before
    <3> QED
      BY <3>1, FS_EmptySet DEF Said
  <2>7. Cardinality(before \cap {"ud", "range"}) = 0
    <3>1. before \cap {"ud", "range"} = {}
      BY <2>4
    <3> QED
      BY <3>1, FS_EmptySet
  <2>8. OwnText(cmd.ops, j) = Whole(Values[pair[2]], 0, 0)
    <3>1. "hashvals" \notin before
      BY <2>4
    <3>2. Values[pair[2]] - 0 + 0 = Values[pair[2]]
      BY <2>5
    <3> HIDE DEF before, j
    <3> QED
      BY <2>4, <2>6, <2>7, <3>1, <3>2 DEF OwnText, before
  <2> QED
    BY <2>3, <2>5, <2>8, RpcWritesList
<1> QED
  BY <1>1, TypeCorrect, Invariance, OwnRequest, PTL DEF IInv
=============================================================================
