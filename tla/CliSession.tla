----------------------------- MODULE CliSession -----------------------------
(***************************************************************************)
(* The cli program around the parser: main, start_cli, read_line and       *)
(* is_abnormal_command of optiwaycli.c.  The program is run in one of three*)
(* ways: with a prompt, with one command (-c) or with a script (-f).  Each *)
(* line is looked at before it is parsed: exit ends the program at once,   *)
(* and a command that restarts a board or replaces the configuration asks  *)
(* the user to confirm.                                                    *)
(*                                                                         *)
(* The look is a comparison of characters with the start of the line, so it*)
(* sees the first command only and only when it is spelled out; the parser *)
(* accepts abbreviations and more than one command.                        *)
(***************************************************************************)
EXTENDS CliParser

Ways == {"prompt", "-c", "-f"}

\* RESET_SYSTEM, RESTORE_CONFIG, IMPORT_CONFIG and RESET_BOARD with their QUIET
\* forms, which are asked about too when QUIET does not follow after one blank.
Confirmed ==
  {"RESET SYSTEM", "RESET SYSTEM QUIET", "RESTORE CONFIGURATION DEFAULT",
   "RESTORE CONFIGURATION DEFAULT QUIET", "IMPORT CONFIGURATION FTP", "RESET BOARD"}

\* Both words begin with exit, and no shorter abbreviation is accepted.
Leaving == {"EXIT", "EXITSHELL"}

VARIABLES
  way,          \* how the program was started
  phase,        \* where its loop is
  head,         \* the first command of the line, until the parser has begun it
  declined      \* history: the user was asked about this line and did not say y

sessionVars == <<way, phase, head, declined>>
allVars == <<vars, sessionVars>>

SessionTypeOK ==
  /\ TypeOK
  /\ way \in Ways /\ head \in Commands
  /\ phase \in {"read", "polling", "ask", "call", "parse", "return", "done"}
  /\ declined \in BOOLEAN

SessionInit ==
  /\ Init
  /\ way \in Ways /\ phase = "read" /\ head = EmptyLine
  /\ declined = FALSE

-----------------------------------------------------------------------------
\* One line comes in and is_abnormal_command looks at it.  A command of
\* Confirmed that is abbreviated, or has its blanks doubled, is not noticed.
ReadLine(c) ==
  /\ phase = "read"
  /\ head' = c /\ declined' = FALSE
  /\ \/ c.name \in Leaving /\ phase' = "done"
     \/ c.name \in Confirmed /\ phase' = "ask"
     \/ c.name \notin Leaving /\ phase' = "call"
  /\ UNCHANGED <<vars, way>>

\* The script has no more lines.
EndOfScript ==
  /\ phase = "read" /\ way = "-f"
  /\ phase' = "done"
  /\ UNCHANGED <<vars, way, head, declined>>

\* The input of the prompt has ended: readline returns NULL at once and for
\* ever, and the loop that waits for a line calls it again.
EndOfInput ==
  /\ phase = "read" /\ way = "prompt"
  /\ phase' = "polling"
  /\ UNCHANGED <<vars, way, head, declined>>

Poll == phase = "polling" /\ UNCHANGED allVars

\* Faulty variant: the prompt looks at the answer no more than start_cli does.
AnswerIgnored(yes) ==
  /\ phase = "ask"
  /\ declined' = ~yes /\ phase' = "call"
  /\ UNCHANGED <<vars, way, head>>

\* read_line parses the line when the answer is y; start_cli parses it always.
Answer(yes) ==
  /\ phase = "ask"
  /\ declined' = ~yes
  /\ phase' = IF yes \/ way # "prompt" THEN "call" ELSE "read"
  /\ UNCHANGED <<vars, way, head>>

\* readline returns NULL at the end of the input and the answer is looked at
\* all the same: the program is killed.
AnswerMissing ==
  /\ phase = "ask"
  /\ phase' = "done"
  /\ UNCHANGED <<vars, way, head, declined>>

Call ==
  /\ phase = "call" /\ StartParse
  /\ phase' = "parse"
  /\ UNCHANGED <<way, head, declined>>

\* yyparse works on the line, whose first command is the one that was read.
Parse ==
  /\ phase = "parse" /\ ParserStep
  /\ mode = "boundary" /\ items = 0 /\ ~eos => cmd' = head
  /\ phase' = IF mode' = "idle" THEN "return" ELSE "parse"
  /\ head' = EmptyLine
  /\ UNCHANGED <<way, declined>>

\* Faulty variant: a script goes on after a line that yyparse could not finish.
ReturnAlways ==
  /\ phase = "return"
  /\ phase' = IF way = "-c" THEN "done" ELSE "read"
  /\ UNCHANGED <<vars, way, head, declined>>

\* Back in the loop.  The prompt ignores what yyparse returned, a script stops
\* when it is not zero, a single command is over.
Return ==
  /\ phase = "return"
  /\ phase' = IF way = "-c" \/ (way = "-f" /\ rv # 0) THEN "done" ELSE "read"
  /\ UNCHANGED <<vars, way, head, declined>>

\* nclt_destroy and the end of the process.
Ended == phase = "done" /\ UNCHANGED allVars

SessionNext ==
  \/ \E c \in Commands : ReadLine(c)
  \/ \E yes \in BOOLEAN : Answer(yes)
  \/ EndOfScript \/ EndOfInput \/ Poll \/ AnswerMissing \/ Call \/ Parse \/ Return \/ Ended

\* The user may stay away; once a line is in, the program runs by itself, but
\* for the answer it waits for.
SessionSpec ==
  SessionInit /\ [][SessionNext]_allVars /\ WF_allVars(Call \/ Parse \/ Return)

-----------------------------------------------------------------------------
(* The promise the program keeps, read off its state. *)
Promise == INSTANCE SessionPromise WITH
  stage <- IF phase \in {"read", "polling"} THEN "waiting"
           ELSE IF phase = "ask" THEN "asking"
           ELSE IF phase = "done" THEN "over" ELSE "serving",
  command <- IF mode = "command" THEN "open"
             ELSE IF mode = "discard" THEN "refused" ELSE "none",
  requests <- Len(sent),
  broken <- phase = "return" /\ rv = 1

-----------------------------------------------------------------------------
(* Properties. *)

\* At the prompt, a command the user was asked about and did not confirm sends
\* nothing to any board, and neither does the rest of its line.
PromptObeysAnswer == way = "prompt" /\ declined => sent = <<>>

\* Scripts and single commands never send what a command before them left in
\* the request buffer: the one way to leave something there, a yyparse that
\* returns 1, is the one thing that stops a script.
BatchNeverTainted ==
  way # "prompt" /\ phase \notin {"return", "done"} => ~tainted /\ (mode = "idle" => Clean)

\* A line that was read, and confirmed where that is asked for, is parsed to
\* its end and the program is back in its loop, or over, whatever the line
\* holds and however the parser left it.
LineIsServed == phase = "call" ~> phase \in {"read", "done"}

\* The parser, the grammar and the loop together keep the promise, step by step
\* and to the end of every line: a command is sent in full or refused unsent,
\* and a script ends with the first line that is broken off inside a command.
KeepsPromise == Promise!Spec

\* Contradicted by the code in scripts and with -c: a command that the user was
\* asked about and declined is not carried out.
AnswerObeyed == declined => sent = <<>>
=============================================================================
