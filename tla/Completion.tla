----------------------------- MODULE Completion -----------------------------
(***************************************************************************)
(* The Tab key: command_generator of readline.c, which the readline library*)
(* calls again and again for one Tab, for one candidate each, until it     *)
(* returns NULL.  Between the calls it keeps its place in the table of     *)
(* commands in static variables.                                           *)
(*                                                                         *)
(* A word is a sequence of characters, for the function is about beginnings*)
(* of words.  A row of the table holds the words of a command; a word that *)
(* does not begin with a small letter stands for a value (<id>) or for a   *)
(* word that may be left out ([quiet]).                                    *)
(***************************************************************************)
EXTENDS Sequences, SequencesExt, FiniteSetsExt, Naturals

CONSTANTS
  Chars,        \* the characters
  Letters,      \* those that are small letters
  Upper,        \* [capital -> small letter], for strncasecmp
  helplist,     \* the table: a sequence of rows, each a sequence of words
  tokenlist,    \* for each place of a row, the keywords that stand there
  varlist,      \* [variable -> set of words], the variables with a pattern
  Lines         \* the lines a user may have typed, sequences of words

Optional(w) == w[1] = "["
Unbracketed(w) == SubSeq(w, 2, Len(w) - 1)

ASSUME CompletionAssumption ==
  /\ helplist \in Seq(Seq(Seq(Chars))) /\ Lines \subseteq Seq(Seq(Chars))
  /\ \A r \in DOMAIN helplist :
        helplist[r] # <<>> /\ \A k \in DOMAIN helplist[r] : helplist[r][k] # <<>>
  /\ \A l \in Lines : Len(l) <= Len(tokenlist)

\* A word that may be left out at the end of a row of ahelp.c is, in that place
\* of another row, only a keyword that tokenlist has (port is one).
ASSUME OptionalAssumption ==
  \A q, r \in DOMAIN helplist :
    LET n == Len(helplist[r]) IN
    Optional(helplist[r][n]) /\ n <= Len(helplist[q])
        /\ helplist[q][n] = Unbracketed(helplist[r][n])
      => helplist[q][n] \in tokenlist[n]

VARIABLES
  mode,         \* "edit" the user types, "call" readline asks, "answered"
  line,         \* the words in front of the cursor
  blank,        \* a blank follows the last of them: the text to complete is ""
  again,        \* readline asks for the second time
  index, end, help_matched_list,    \* the statics; help_matched is a length
  offered       \* what the calls have returned for this Tab

statics == <<index, end, help_matched_list>>
vars == <<mode, line, blank, again, statics, offered>>

Words == UNION {Range(helplist[r]) : r \in 1..Len(helplist)}

Text == IF blank \/ line = <<>> THEN <<>> ELSE Last(line)

\* The place of the row that the candidate comes from.
list_index == IF Text = <<>> THEN Len(line) + 1 ELSE Len(line)

token_is_variable(w) == w[1] \notin Letters

-----------------------------------------------------------------------------
(* How a row fits the line. *)

KeywordMatch(typed, word) == IsPrefix(word, typed)
PartlyMatch(typed, word) == IsPrefix(typed, word)

\* The keywords that are looked at are those of the place of the last word,
\* whichever word is compared.
BeginsToken(typed) == \E w \in tokenlist[Len(line)] : IsPrefix(typed, w)

\* The typed word can stand in the place of the word of a row.
CanStand(typed, word) ==
  \/ KeywordMatch(typed, word) \/ PartlyMatch(typed, word)
  \/ token_is_variable(word) /\ ~BeginsToken(typed)

\* get_history_matched_number: how many words match; one that stands for a
\* variable counts only behind words that all do.
Matched(row) ==
  Cardinality({i \in DOMAIN line :
    \/ KeywordMatch(line[i], row[i]) \/ PartlyMatch(line[i], row[i])
    \/ \A j \in 1..i : CanStand(line[j], row[j])})

\* at_end: the line has as many words as the row, and the last is abbreviated.
AtEnd(row) ==
  /\ Matched(row) = Len(row)
  /\ PartlyMatch(Last(line), Last(row)) /\ ~KeywordMatch(Last(line), Last(row))

\* variable_match_check: a variable without a pattern takes any text.
VariableMatch(var, text) == var \in DOMAIN varlist => text \in varlist[var]

Lower(w) == [i \in 1..Len(w) |-> IF w[i] \in DOMAIN Upper THEN Upper[w[i]] ELSE w[i]]

-----------------------------------------------------------------------------
Init ==
  /\ mode = "edit" /\ line = <<>> /\ blank = FALSE /\ again = FALSE
  /\ index = 1 /\ end = FALSE /\ help_matched_list = <<>> /\ offered = <<>>

\* Faulty variants: a static is not reset for a new Tab.
StartKeepsMatches == index' = 1 /\ end' = FALSE /\ UNCHANGED help_matched_list
StartKeepsIndex == end' = FALSE /\ help_matched_list' = <<>> /\ UNCHANGED index

\* The first call for a Tab, state = 0.
Start == index' = 1 /\ end' = FALSE /\ help_matched_list' = <<>>

Tab(l, b) ==
  /\ mode = "edit"
  /\ mode' = "call" /\ line' = l /\ blank' = b /\ Start
  /\ UNCHANGED <<again, offered>>

\* The call returns a candidate, and readline calls once more.
Return(word) == offered' = Append(offered, word) /\ UNCHANGED <<mode, line, blank, again>>

\* NULL ends the calls; what it leaves in the statics the next Start resets.
\* When no candidate came at all, readline falls back on
\* rl_completion_entry_function, which is command_generator again.
ReturnNull ==
  IF offered = <<>> /\ ~again
  THEN again' = TRUE /\ Start /\ UNCHANGED <<mode, line, blank, offered>>
  ELSE mode' = "answered" /\ UNCHANGED <<line, blank, again, statics, offered>>

-----------------------------------------------------------------------------
(* One row of the table. *)
Row == helplist[index]
Looking == mode = "call" /\ index <= Len(helplist)

\* The rest of the loop body: the next row.
Onward == index' = index + 1 /\ UNCHANGED <<mode, line, blank, again, end, help_matched_list, offered>>

\* Faulty variant: the loop is continued without index++.
TooShortStays == Looking /\ Len(Row) < Len(line) /\ UNCHANGED vars

TooShort == Looking /\ Len(Row) < Len(line) /\ Onward

\* The line has all the words of the row, the last one in full.
UsedUp == Len(Row) >= Len(line) /\ Matched(Row) = Len(Row) /\ ~AtEnd(Row)

\* The last word of the row, when the user has not typed a blank behind it.
LastTaken(word) ==
  /\ ~end /\ Text # <<>>
  /\ token_is_variable(word) => VariableMatch(word, Text)
  /\ Optional(word) => IsPrefix(Text, Unbracketed(word))

\* Such a row ends the calls, in the next call if not in this one: with the
\* word in brackets, or with an empty candidate.
Complete ==
  /\ Looking /\ UsedUp
  /\ LET word == Last(Row) IN
     IF LastTaken(word)
     THEN /\ end' = TRUE /\ UNCHANGED <<index, help_matched_list>>
          /\ Return(IF Optional(word) THEN Unbracketed(word) ELSE <<>>)
     ELSE ReturnNull

Close == Looking /\ Len(Row) >= Len(line) /\ ~UsedUp /\ list_index <= Matched(Row) + 1

\* The table has no word in that place: NULL, also for the rows behind.
NoWord ==
  /\ Close /\ list_index > Len(Row)
  /\ ReturnNull

Candidate == Row[list_index]

\* Faulty variant: the word is compared with the first one returned only.
IsNewToFirst(w) == \A i \in 1..Len(help_matched_list) : i = 1 => help_matched_list[i] # w

\* The word was not returned before; a variable, when a text is typed, not if
\* the text begins a keyword that was returned or that stands in this place.
IsNew(w) ==
  /\ \A h \in Range(help_matched_list) :
        h # w /\ (token_is_variable(w) /\ Text # <<>> => ~IsPrefix(Text, h))
  /\ token_is_variable(w) /\ Text # <<>> /\ help_matched_list = <<>> => ~BeginsToken(Text)

Fresh == Close /\ list_index <= Len(Row) /\ IsNew(Candidate)

\* Faulty variant: the words in front of the candidate need not all match.
OfferableLoosely == Fresh /\ IsPrefix(Lower(Text), Lower(Candidate))

\* A keyword that the text begins, or the name of a variable when nothing of it
\* is typed yet, behind words that all match.
Offerable ==
  /\ Fresh /\ Matched(Row) = Len(line)
  /\ IF token_is_variable(Candidate) THEN Text = <<>>
     ELSE IsPrefix(Lower(Text), Lower(Candidate))

\* A value that the user has begun to type is answered with an empty candidate.
Acceptable ==
  Fresh /\ Text # <<>> /\ token_is_variable(Candidate) /\ VariableMatch(Candidate, Text)

Offer ==
  /\ Offerable \/ Acceptable
  /\ index' = index + 1 /\ help_matched_list' = Append(help_matched_list, Candidate)
  /\ UNCHANGED end
  /\ Return(IF Acceptable THEN <<>> ELSE Candidate)

PassRow ==
  /\ Looking /\ Len(Row) >= Len(line) /\ ~UsedUp
  /\ Close => list_index <= Len(Row) /\ ~Offerable /\ ~Acceptable
  /\ Onward

EndOfTable == mode = "call" /\ index > Len(helplist) /\ ReturnNull

\* The user has seen the candidates and goes on typing.
Edit ==
  /\ mode = "answered"
  /\ mode' = "edit" /\ line' = <<>> /\ blank' = FALSE /\ again' = FALSE /\ offered' = <<>>
  /\ UNCHANGED statics

Call == TooShort \/ Complete \/ NoWord \/ Offer \/ PassRow \/ EndOfTable

Next == Call \/ Edit \/ \E l \in Lines, b \in BOOLEAN : Tab(l, b)

\* readline calls until it is told NULL.
Spec == Init /\ [][Next]_vars /\ WF_vars(Call)

-----------------------------------------------------------------------------
(* Properties. *)

TypeOK ==
  /\ mode \in {"edit", "call", "answered"} /\ line \in Lines \cup {<<>>}
  /\ blank \in BOOLEAN /\ again \in BOOLEAN /\ end \in BOOLEAN
  /\ index \in 1..(Len(helplist) + 1)
  /\ help_matched_list \in Seq(Words) /\ Len(help_matched_list) < index
  /\ offered \in Seq(Seq(Chars))

Fits(row) == Len(row) >= Len(line) /\ \A i \in 1..Len(line) : CanStand(line[i], row[i])
FollowsIn(row, w) ==
  Fits(row) /\ list_index <= Len(row) /\ w \in {row[list_index], Unbracketed(row[list_index])}

\* Every candidate stands, in a row of the table that the whole line fits, in
\* the place that is to be completed, and begins with what is typed of it: it
\* never comes from a row of which only some words match, or from the place
\* where an earlier Tab has stopped.
OffersContinue ==
  \A w \in Range(offered) \ {<<>>} :
    IsPrefix(Text, w) /\ \E r \in 1..Len(helplist) : FollowsIn(helplist[r], w)

\* No candidate is returned twice for one Tab, however many rows share it.
NoneTwice ==
  \A i, j \in 1..Len(offered) : i # j /\ offered[i] = offered[j] => offered[i] = <<>>

\* A row that the line has all words of ends the search, and rows behind it are
\* not looked at; every row in front of the first such row that the line fits
\* and that goes on has its next word among the candidates.
Exhausted(row) == Fits(row) /\ (Len(row) < list_index \/ (Len(row) = Len(line) /\ ~AtEnd(row)))
NothingHidden ==
  mode = "answered" =>
    \A r \in 1..Len(helplist) :
      /\ Fits(helplist[r]) /\ \A q \in 1..r : ~Exhausted(helplist[q])
      /\ blank \/ (~token_is_variable(helplist[r][list_index])
                     /\ IsPrefix(Text, helplist[r][list_index]))
      => helplist[r][list_index] \in Range(offered)

\* Every Tab gets its answer.
TabEnds == mode = "call" ~> mode = "answered"
=============================================================================
