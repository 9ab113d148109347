--------------------------- MODULE SessionPromise ---------------------------
(***************************************************************************)
(* What the cli program promises whoever types the lines, said without its *)
(* parser, its grammar and its request buffer.  A line is a series of      *)
(* commands; a command is either carried out, which sends requests, or     *)
(* refused, which sends none.  Only a refused command can break the line   *)
(* off, and a script does not survive that.  A line the user was asked     *)
(* about and did not confirm is dropped at the prompt.                     *)
(***************************************************************************)
EXTENDS Naturals

VARIABLES
  way,          \* how the program was started, fixed from then on
  stage,        \* of the program: it waits, asks, serves a line, or is over
  declined,     \* the user was asked about the line and said no
  command,      \* of the line: none yet or between two, open, or refused
  requests,     \* the number of requests the command has sent
  broken        \* the line was given up inside a command

vars == <<way, stage, declined, command, requests, broken>>

Init ==
  /\ way \in {"prompt", "-c", "-f"} /\ stage = "waiting" /\ declined = FALSE
  /\ command = "none" /\ requests = 0 /\ broken = FALSE

-----------------------------------------------------------------------------
Line == UNCHANGED <<way, command, requests, broken>>

\* A line is served at once or asked about first; it may also be the one that
\* ends the program, and a script has a last line.
Take ==
  /\ stage = "waiting" /\ Line
  /\ \/ stage' \in {"asking", "serving"} /\ declined' = FALSE
     \/ stage' = "over" /\ declined' \in {declined, FALSE}

Confirm == stage = "asking" /\ stage' = "serving" /\ declined' = FALSE /\ Line

\* At the prompt the line is dropped.
Decline ==
  /\ stage = "asking" /\ declined' = TRUE /\ Line
  /\ stage' = IF way = "prompt" THEN "waiting" ELSE "serving"

\* The input ends where an answer is expected.
NoAnswer == stage = "asking" /\ stage' = "over" /\ declined' = declined /\ Line

-----------------------------------------------------------------------------
Serving == stage = "serving" /\ UNCHANGED <<way, stage, declined>>

Open ==
  /\ Serving /\ command = "none" /\ ~broken
  /\ command' = "open" /\ UNCHANGED <<requests, broken>>

Issue ==
  /\ Serving /\ command = "open"
  /\ requests' = requests + 1 /\ UNCHANGED <<command, broken>>

\* What has begun to be carried out is not refused any more.
Refuse ==
  /\ Serving /\ command = "open" /\ requests = 0
  /\ command' = "refused" /\ UNCHANGED <<requests, broken>>

Close ==
  /\ Serving /\ command \in {"open", "refused"}
  /\ command' = "none" /\ requests' = 0 /\ UNCHANGED broken

BreakOff ==
  /\ Serving /\ command = "refused"
  /\ command' = "none" /\ broken' = TRUE /\ UNCHANGED requests

Served ==
  /\ stage = "serving" /\ command = "none"
  /\ stage' = IF way = "-c" \/ (way = "-f" /\ broken) THEN "over" ELSE "waiting"
  /\ broken' = FALSE /\ UNCHANGED <<way, declined, command, requests>>

-----------------------------------------------------------------------------
Proceed == Open \/ Issue \/ Refuse \/ Close \/ BreakOff \/ Served

Next == Take \/ Confirm \/ Decline \/ NoAnswer \/ Proceed

Safe == Init /\ [][Next]_vars

\* A line that is being served gets on; no user is needed for that.
Spec == Safe /\ WF_vars(Proceed)
=============================================================================
