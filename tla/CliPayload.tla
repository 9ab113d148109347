----------------------------- MODULE CliPayload -----------------------------
(***************************************************************************)
(* What a request should say, written down once and not as the parser's    *)
(* actions happen to write it: the positional values of the command in a   *)
(* list, the pairs of its class entries in a map at the end of that list,  *)
(* the ud data and the ranges as the last members of the map.  It is       *)
(* computed from the command alone, so a request that equals it carries    *)
(* nothing that another command left in a global.                          *)
(***************************************************************************)
EXTENDS CliParser, FiniteSets

\* Hash ids are collected before their loop writes them, and what is collected
\* for a request is collected before it is closed.
ASSUME PayloadAssumption ==
  \A c \in Commands : \A j \in 1..Len(c.ops) :
    LET op == c.ops[j]
        before == Before(c.ops, j)
    IN  "send" \notin before =>
          /\ op \in {"hash", "hashvals"} => "hashvals" \notin before
          /\ op \in {"hash", "ud", "range"} => "close" \notin before
          /\ op = "send" /\ ("ud" \in before \/ "range" \in before) => "close" \in before

\* n pieces, one behind the other; with a comma between them.
Copies(n, piece) == [i \in 1..(n * Len(piece)) |-> piece[((i - 1) % Len(piece)) + 1]]
Joined(n, piece, comma) == IF n = 0 THEN <<>> ELSE piece \o Copies(n - 1, comma \o piece)

\* A request up to its closing brackets.  close_json writes two commas before a
\* section, unless the section is the first member of the map.
Unclosed(values, pairs, sections) ==
  LET members == pairs + sections > 0
  IN  <<"[">> \o Joined(values, <<"v">>, <<",">>)
        \o (IF values > 0 /\ members THEN <<",">> ELSE <<>>)
        \o (IF members THEN <<"{">> ELSE <<>>)
        \o Joined(pairs, <<"k", "v">>, <<",">>)
        \o (IF pairs > 0 /\ sections > 0 THEN <<",", ",">> ELSE <<>>)
        \o Joined(sections, <<"s">>, <<",", ",">>)

\* A whole request: nothing, or one list with everything closed.
Whole(values, pairs, sections) ==
  IF values + pairs + sections = 0 THEN <<>>
  ELSE Unclosed(values, pairs, sections)
         \o (IF pairs + sections > 0 THEN <<"}">> ELSE <<>>) \o <<"]">>

\* The text of a request that the j-th op sends.
Said(ops, j, op) == Cardinality({i \in 1..(j - 1) : ops[i] = op})
OwnText(ops, j) ==
  LET pairs    == Said(ops, j, "key")
      values   == Said(ops, j, "val") - pairs
                    + IF "hashvals" \in Before(ops, j) THEN Said(ops, j, "hash") ELSE 0
      sections == Cardinality(Before(ops, j) \cap {"ud", "range"})
  IN  Whole(values, pairs, sections)

\* The op of a command that sends its first request.
FirstSend(ops) ==
  CHOOSE j \in 1..Len(ops) : ops[j] = "send" /\ "send" \notin Before(ops, j)

\* A command's first request carries what the command itself says, all of it
\* and nothing else: no value of an earlier or a rejected command, none lost,
\* none written twice, the positional values first and the map closed last.
PayloadIsOwn ==
  mode = "command" /\ ~tainted /\ sent # <<>> =>
    sent[1].text = OwnText(cmd.ops, FirstSend(cmd.ops))
=============================================================================
