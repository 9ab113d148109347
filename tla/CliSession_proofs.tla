-------------------------- MODULE CliSession_proofs --------------------------
(***************************************************************************)
(* Proofs about the program: its invariants, from those of the parser, and *)
(* that it keeps SessionPromise step by step.                              *)
(***************************************************************************)
EXTENDS CliSession, CliParser_proofs

LEMMA SessionStepsParser == ASSUME [SessionNext]_allVars PROVE [Next]_vars
<1>1. CASE \E c \in Commands : ReadLine(c)
  BY <1>1 DEF ReadLine
<1>2. CASE \E yes \in BOOLEAN : Answer(yes)
  BY <1>2 DEF Answer
<1>3. CASE EndOfScript \/ EndOfInput \/ AnswerMissing \/ Return
  BY <1>3 DEF EndOfScript, EndOfInput, AnswerMissing, Return
<1>4. CASE Call
  BY <1>4 DEF Call, Next
<1>5. CASE Parse
  BY <1>5 DEF Parse, Next
<1>6. CASE Ended \/ Poll \/ UNCHANGED allVars
  BY <1>6 DEF Ended, Poll, allVars
<1> QED
  BY <1>1, <1>2, <1>3, <1>4, <1>5, <1>6 DEF SessionNext

LEMMA SessionStepsType ==
  ASSUME SessionTypeOK, [SessionNext]_allVars
  PROVE  SessionTypeOK'
<1>0. TypeOK'
  BY SessionStepsParser, StepType DEF SessionTypeOK
<1>a. EmptyLine \in Commands
  BY ParserAssumption
<1> USE <1>0 DEF SessionTypeOK
<1>1. CASE \E c \in Commands : ReadLine(c)
  BY <1>1 DEF ReadLine
<1>2. CASE \E yes \in BOOLEAN : Answer(yes)
  BY <1>2 DEF Answer
<1>3. CASE EndOfScript \/ EndOfInput \/ AnswerMissing \/ Return
  BY <1>3 DEF EndOfScript, EndOfInput, AnswerMissing, Return
<1>4. CASE Call
  BY <1>4 DEF Call
<1>5. CASE Parse
  BY <1>5, <1>a DEF Parse
<1>6. CASE Ended \/ Poll \/ UNCHANGED allVars
  BY <1>6 DEF Ended, Poll, allVars, sessionVars
<1> QED
  BY <1>1, <1>2, <1>3, <1>4, <1>5, <1>6 DEF SessionNext

-----------------------------------------------------------------------------
(***************************************************************************)
(* The strengthening: where the loop is when the parser works, that a      *)
(* declined line at the prompt never gets further than the reading of the  *)
(* next, and what a script knows of a yyparse that returned 1.             *)
(***************************************************************************)
ParserWorks == mode # "idle" <=> phase = "parse"

DeclinedIsDropped == way = "prompt" /\ declined => phase \in {"read", "polling"}

BatchStops ==
  way # "prompt" =>
    /\ phase \notin {"return", "done"} => ~tainted
    /\ phase = "return" /\ tainted => rv = 1

SInv ==
  /\ SessionTypeOK /\ IInv
  /\ ParserWorks /\ DeclinedIsDropped /\ BatchStops

LEMMA SessionInitInv == SessionInit => SInv
<1> SUFFICES ASSUME SessionInit PROVE SInv
  OBVIOUS
<1>1. TypeOK /\ IInv /\ EmptyLine \in Commands
  BY InitType, InitInv, ParserAssumption DEF SessionInit
<1>2. mode = "idle" /\ ~tainted /\ phase = "read" /\ declined = FALSE
  BY DEF SessionInit, Init
<1> QED
  BY <1>1, <1>2 DEF SessionInit, SInv, SessionTypeOK, ParserWorks, DeclinedIsDropped,
                    BatchStops

-----------------------------------------------------------------------------
(***************************************************************************)
(* The steps of yyparse, by what they do to the command on the line.       *)
(***************************************************************************)
Opens == mode = "boundary" /\ mode' = "command" /\ sent' = sent /\ tainted' = tainted

WorksOn == mode = "command" /\ mode' = "command" /\ sent' = sent /\ tainted' = tainted

Issues ==
  mode = "command" /\ mode' = "command" /\ Len(sent') = Len(sent) + 1 /\ tainted' = tainted

Refuses ==
  mode = "command" /\ mode' = "discard" /\ sent = <<>> /\ sent' = <<>> /\ tainted' = tainted

Closes == mode \in {"command", "discard"} /\ mode' = "boundary" /\ sent' = <<>> /\ tainted' = FALSE

Ends == mode = "boundary" /\ mode' = "idle" /\ rv' = 0 /\ sent' = sent /\ tainted' = tainted

BreaksOff == mode = "discard" /\ mode' = "idle" /\ rv' = 1 /\ sent = <<>> /\ sent' = <<>>

Accepts ==
  /\ mode = "command" /\ mode' = "idle" /\ rv' = 0
  /\ sent = <<>> /\ sent' = <<>> /\ tainted' = tainted

\* A command is refused or accepted only while nothing is sent, and there is no
\* other way out of yyparse than these.
LEMMA ParserStepKinds ==
  ASSUME TypeOK, IInv, ParserStep
  PROVE  Opens \/ WorksOn \/ Issues \/ Refuses \/ Closes \/ Ends \/ BreaksOff \/ Accepts
<1>0. SendIsBehind /\ RejectedSendsNothing
  BY DEF IInv
<1>1. CASE \E c \in Commands : Begin(c)
  BY <1>1 DEF Begin, Opens, history
<1>2. CASE EndOfLine
  BY <1>2 DEF EndOfLine, Ends, history
<1>3. CASE EndCommand
  BY <1>3 DEF EndCommand, NoCommand, ResetCommand, Closes
<1>4. CASE SyntaxError
  <2>1. PICK op \in {"tok", "eos"} : At(op)
    BY <1>4 DEF SyntaxError
  <2>2. sent = <<>>
    BY <1>0, <2>1, NothingSentYet DEF Ops
  <2> QED
    BY <1>4, <2>1, <2>2 DEF SyntaxError, At, Refuses, history
<1>5. CASE Reject
  <2>1. PICK op \in {"check", "range"} : At(op)
    BY <1>5 DEF Reject
  <2>2. sent = <<>>
    BY <1>0, <2>1, NothingSentYet DEF Ops
  <2> QED
    BY <1>5, <2>1, <2>2 DEF Reject, At, Refuses, history
<1>6. CASE Resync
  BY <1>6 DEF Resync, NoCommand, ResetCommand, Closes
<1>7. CASE Abort
  BY <1>0, <1>7 DEF Abort, NoCommand, RejectedSendsNothing, BreaksOff
<1>8. CASE Accept
  <2>1. At("accept") /\ sent = <<>>
    BY <1>0, <1>8, NothingSentYet DEF Accept, Ops
  <2> QED
    BY <1>8, <2>1 DEF Accept, At, NoCommand, Accepts
<1>9. CASE ReadToken \/ ReadEos
  BY <1>9 DEF ReadToken, ReadEos, At, Advance, WorksOn, history
<1>10. CASE Pass \/ Skip
  BY <1>10 DEF Pass, Skip, At, Advance, WorksOn, history
<1>11. CASE \E m \in SlotMasks : SetSlot(m)
  BY <1>11 DEF SetSlot, At, Advance, WorksOn
<1>12. CASE Write
  BY <1>12, WriteShape DEF WorksOn, Advance
<1>13. CASE Send
  <2>1. sent \in Seq(Request)
    BY DEF TypeOK
  <2> QED
    BY <1>13, <2>1 DEF Send, At, Advance, Issues
<1> QED
  BY <1>1, <1>2, <1>3, <1>4, <1>5, <1>6, <1>7, <1>8, <1>9, <1>10, <1>11, <1>12, <1>13
  DEF ParserStep
LEMMA SessionStepInv == ASSUME SInv, [SessionNext]_allVars PROVE SInv'
<1>0. SessionTypeOK' /\ IInv'
  BY SessionStepsType, SessionStepsParser, StepInv DEF SInv, SessionTypeOK
<1>a. TypeOK /\ IInv /\ ParserWorks /\ DeclinedIsDropped /\ BatchStops /\ way \in Ways
  BY DEF SInv, SessionTypeOK
<1> SUFFICES ParserWorks' /\ DeclinedIsDropped' /\ BatchStops'
  BY <1>0 DEF SInv
<1> USE DEF ParserWorks, DeclinedIsDropped, BatchStops
<1>1. CASE \E c \in Commands : ReadLine(c)
  BY <1>a, <1>1 DEF ReadLine, vars, readVars, history
<1>2. CASE \E yes \in BOOLEAN : Answer(yes)
  <2>1. PICK yes \in BOOLEAN : Answer(yes)
    BY <1>2
  <2>2. /\ phase = "ask" /\ phase' \in {"call", "read"} /\ way' = way
        /\ mode' = mode /\ tainted' = tainted
        /\ way = "prompt" /\ phase' = "call" => ~declined'
    <3>1. CASE yes = TRUE
      BY <2>1, <3>1 DEF Answer, vars, readVars, history
    <3>2. CASE yes = FALSE
      BY <2>1, <3>2 DEF Answer, vars, readVars, history
    <3> QED
      BY <3>1, <3>2
  <2> QED
    BY <1>a, <2>2
<1>3. CASE EndOfScript \/ EndOfInput \/ AnswerMissing
  BY <1>a, <1>3 DEF EndOfScript, EndOfInput, AnswerMissing, vars, readVars, history
<1>4. CASE Call
  BY <1>a, <1>4 DEF Call, StartParse, history
<1>5. CASE Parse
  <2>1. /\ phase = "parse" /\ way' = way /\ declined' = declined
        /\ phase' = IF mode' = "idle" THEN "return" ELSE "parse"
    BY <1>5 DEF Parse
  <2>2. way # "prompt" => ~tainted
    BY <1>a, <2>1
  <2>3. Opens \/ WorksOn \/ Issues \/ Refuses \/ Closes \/ Ends \/ BreaksOff \/ Accepts
    BY <1>a, <1>5, ParserStepKinds DEF Parse
  <2>4. ParserWorks' /\ DeclinedIsDropped'
    BY <1>a, <2>1
  <2>5. BatchStops'
    BY <2>1, <2>2, <2>3
    DEF Opens, WorksOn, Issues, Refuses, Closes, Ends, BreaksOff, Accepts
  <2> QED
    BY <2>4, <2>5
<1>6. CASE Return
  BY <1>a, <1>6 DEF Return, Ways, vars, readVars, history
<1>7. CASE Ended \/ Poll \/ UNCHANGED allVars
  BY <1>a, <1>7 DEF Ended, Poll, allVars, sessionVars, vars, readVars, history
<1> QED
  BY <1>1, <1>2, <1>3, <1>4, <1>5, <1>6, <1>7 DEF SessionNext

THEOREM SessionInvariance == SessionSpec => []SInv
<1>1. SessionInit => SInv
  BY SessionInitInv
<1>2. SInv /\ [SessionNext]_allVars => SInv'
  BY SessionStepInv
<1> QED
  BY <1>1, <1>2, PTL DEF SessionSpec

\* The program's state has its type, whatever lines, answers and errors come.
THEOREM SessionTypeCorrect == SessionSpec => []SessionTypeOK
<1>1. SInv => SessionTypeOK
  BY DEF SInv
<1> QED
  BY <1>1, SessionInvariance, PTL

\* At the prompt a line that was asked about and not confirmed sends nothing.
THEOREM PromptObeys == SessionSpec => []PromptObeysAnswer
<1>1. SInv => PromptObeysAnswer
  BY DEF SInv, ParserWorks, DeclinedIsDropped, IInv, Fresh, PromptObeysAnswer
<1> QED
  BY <1>1, SessionInvariance, PTL

\* A script or a single command never starts a command on what an earlier one
\* has left in the request buffer.
THEOREM BatchClean == SessionSpec => []BatchNeverTainted
<1>1. SInv => BatchNeverTainted
  BY DEF SInv, BatchStops, IInv, CleanBetweenCommands, BatchNeverTainted
<1> QED
  BY <1>1, SessionInvariance, PTL

-----------------------------------------------------------------------------
(***************************************************************************)
(* The refinement: every step of the program is one of SessionPromise or   *)
(* leaves its variables alone.                                             *)
(***************************************************************************)
LEMMA PromiseInit == SessionInit => Promise!Init
<1> SUFFICES ASSUME SessionInit PROVE Promise!Init
  OBVIOUS
<1>1. phase = "read" /\ mode = "idle" /\ rv = 0 /\ sent = <<>> /\ declined = FALSE /\ way \in Ways
  BY DEF SessionInit, Init
<1>2. Len(sent) = 0
  BY <1>1
<1> QED
  BY <1>1, <1>2 DEF Promise!Init, Ways

LEMMA PromiseServes ==
  ASSUME SInv, Parse
  PROVE  [Promise!Proceed]_Promise!vars
<1>0. TypeOK /\ IInv /\ ParserWorks /\ sent \in Seq(Request) /\ Len(<<>>) = 0
  BY DEF SInv, SessionTypeOK, TypeOK
<1>1. /\ phase = "parse" /\ way' = way /\ declined' = declined
      /\ phase' = IF mode' = "idle" THEN "return" ELSE "parse"
  BY DEF Parse
<1>2. Opens \/ WorksOn \/ Issues \/ Refuses \/ Closes \/ Ends \/ BreaksOff \/ Accepts
  BY <1>0, ParserStepKinds DEF Parse
<1>3. CASE Opens
  BY <1>1, <1>3 DEF Opens, Promise!Proceed, Promise!Open, Promise!Serving
<1>4. CASE WorksOn
  BY <1>1, <1>4 DEF WorksOn, Promise!vars
<1>5. CASE Issues
  BY <1>1, <1>5 DEF Issues, Promise!Proceed, Promise!Issue, Promise!Serving
<1>6. CASE Refuses
  BY <1>0, <1>1, <1>6 DEF Refuses, Promise!Proceed, Promise!Refuse, Promise!Serving
<1>7. CASE Closes
  BY <1>0, <1>1, <1>7 DEF Closes, Promise!Proceed, Promise!Close, Promise!Serving
<1>8. CASE Ends
  BY <1>1, <1>8 DEF Ends, Promise!vars
<1>9. CASE BreaksOff
  BY <1>0, <1>1, <1>9 DEF BreaksOff, Promise!Proceed, Promise!BreakOff, Promise!Serving
<1>10. CASE Accepts
  BY <1>0, <1>1, <1>10 DEF Accepts, Promise!Proceed, Promise!Close, Promise!Serving
<1> QED
  BY <1>2, <1>3, <1>4, <1>5, <1>6, <1>7, <1>8, <1>9, <1>10

LEMMA PromiseStep ==
  ASSUME SInv, [SessionNext]_allVars
  PROVE  [Promise!Next]_Promise!vars
<1>0. /\ ParserWorks /\ DeclinedIsDropped /\ way \in Ways /\ rv \in {0, 1}
      /\ phase \in {"read", "polling", "ask", "call", "parse", "return", "done"}
  BY DEF SInv, SessionTypeOK, TypeOK
<1>1. CASE \E c \in Commands : ReadLine(c)
  <2>1. /\ phase = "read" /\ phase' \in {"ask", "call", "done"} /\ declined' = FALSE
        /\ way' = way /\ mode' = mode /\ sent' = sent
    BY <1>1 DEF ReadLine, vars, readVars, history
  <2> QED
    BY <2>1 DEF Promise!Next, Promise!Take, Promise!Line
<1>2. CASE \E yes \in BOOLEAN : Answer(yes)
  <2>1. PICK yes \in BOOLEAN : Answer(yes)
    BY <1>2
  <2>2. phase = "ask" /\ way' = way /\ mode' = mode /\ sent' = sent
    BY <2>1 DEF Answer, vars, readVars, history
  <2>3. CASE yes = TRUE
    <3>1. phase' = "call" /\ declined' = FALSE
      BY <2>1, <2>3 DEF Answer
    <3> QED
      BY <2>2, <3>1 DEF Promise!Next, Promise!Confirm, Promise!Line
  <2>4. CASE yes = FALSE
    <3>1. declined' = TRUE /\ phase' = IF way = "prompt" THEN "read" ELSE "call"
      BY <2>1, <2>4 DEF Answer
    <3> QED
      BY <2>2, <3>1 DEF Promise!Next, Promise!Decline, Promise!Line
  <2> QED
    BY <2>3, <2>4
<1>3. CASE EndOfScript
  <2>1. /\ phase = "read" /\ phase' = "done" /\ declined' = declined
        /\ way' = way /\ mode' = mode /\ sent' = sent
    BY <1>3 DEF EndOfScript, vars, readVars, history
  <2> QED
    BY <2>1 DEF Promise!Next, Promise!Take, Promise!Line
<1>4. CASE AnswerMissing
  <2>1. /\ phase = "ask" /\ phase' = "done" /\ declined' = declined
        /\ way' = way /\ mode' = mode /\ sent' = sent
    BY <1>4 DEF AnswerMissing, vars, readVars, history
  <2> QED
    BY <2>1 DEF Promise!Next, Promise!NoAnswer, Promise!Line
<1>5. CASE Call
  <2>1. /\ phase = "call" /\ phase' = "parse" /\ mode = "idle" /\ mode' = "boundary"
        /\ declined' = declined /\ way' = way /\ sent' = sent
    BY <1>5 DEF Call, StartParse, history
  <2> QED
    BY <2>1 DEF Promise!vars
<1>6. CASE Parse
  BY <1>6, PromiseServes DEF Promise!Next
<1>7. CASE Return
  <2>1. /\ phase = "return" /\ mode = "idle" /\ mode' = mode /\ rv' = rv /\ sent' = sent
        /\ declined' = declined /\ way' = way
        /\ phase' = IF way = "-c" \/ (way = "-f" /\ rv # 0) THEN "done" ELSE "read"
    BY <1>0, <1>7 DEF Return, vars, readVars, history, ParserWorks
  <2> QED
    BY <1>0, <2>1 DEF Promise!Next, Promise!Proceed, Promise!Served, Ways
<1>8. CASE Ended \/ Poll \/ UNCHANGED allVars
  BY <1>8 DEF Ended, Poll, allVars, sessionVars, vars, readVars, history, Promise!vars
<1>9. CASE EndOfInput
  BY <1>9 DEF EndOfInput, vars, readVars, history, Promise!vars
<1> QED
  BY <1>1, <1>2, <1>3, <1>4, <1>5, <1>6, <1>7, <1>8, <1>9 DEF SessionNext

\* What the program does to a line is what SessionPromise allows: nothing is
\* refused once a request of it has left, a declined line is dropped at the
\* prompt, and a script ends with the first line that is broken off.
THEOREM PromiseKept == SessionSpec => Promise!Safe
<1>1. SessionInit => Promise!Init
  BY PromiseInit
<1>2. SInv /\ [SessionNext]_allVars => [Promise!Next]_Promise!vars
  BY PromiseStep
<1> QED
  BY <1>1, <1>2, SessionInvariance, PTL DEF SessionSpec, Promise!Safe
=============================================================================
