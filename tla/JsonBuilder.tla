----------------------------- MODULE JsonBuilder -----------------------------
(***************************************************************************)
(* The text builder behind every request: the convert_*_to_json family and *)
(* close_json.  A request's arguments are written, one call at a time, into*)
(* the string buffer g_sb as a list of values that may end with one map of *)
(* key:value pairs, and three flags remember where the writer stands:      *)
(*                                                                         *)
(*   in_list   the opening bracket has been written                        *)
(*   in_map    the opening brace has been written                          *)
(*   in_pair   a key has been written and its value has not                *)
(*                                                                         *)
(* A text is a sequence of symbols.  "v" is a value of any kind (a number, *)
(* a string, a [value,mask] pair), "k" a key with its colon, and "s" a     *)
(* whole ud or range section, a key with its list, that close_json copies  *)
(* in from g_ud or g_range.                                                *)
(***************************************************************************)
EXTENDS Naturals, Sequences

Symbol == {"[", "]", "{", "}", ",", "v", "k", "s"}

Builder == [text: Seq(Symbol), in_list: BOOLEAN, in_map: BOOLEAN, in_pair: BOOLEAN]

EmptyBuilder ==
  [text |-> <<>>, in_list |-> FALSE, in_map |-> FALSE, in_pair |-> FALSE]

\* What every convert_* function writes before its own symbol: the bracket
\* the first time, and a comma between elements, but none after a key.
Separator(b) ==
  IF ~b.in_list THEN <<"[">> ELSE IF b.in_pair THEN <<>> ELSE <<",">>

\* convert_val_to_json, and the three writers that differ in the value's form.
ConvertVal(b) ==
  [b EXCEPT !.text = @ \o Separator(b) \o <<"v">>,
            !.in_list = TRUE, !.in_pair = FALSE]

\* Faulty variant: the open map is not remembered.
ConvertKeyReopens(b) ==
  [b EXCEPT !.text = @ \o Separator(b) \o (IF b.in_map THEN <<>> ELSE <<"{">>)
                       \o <<"k">>,
            !.in_list = TRUE, !.in_pair = TRUE]

\* convert_int_key_to_json and its two siblings for string keys.
ConvertKey(b) ==
  [b EXCEPT !.text = @ \o Separator(b) \o (IF b.in_map THEN <<>> ELSE <<"{">>)
                       \o <<"k">>,
            !.in_list = TRUE, !.in_map = TRUE, !.in_pair = TRUE]

\* One of the two section blocks of close_json.  It looks at in_pair and
\* in_map only, and writes a second comma when the map is already open.
ConvertSection(b) ==
  [b EXCEPT !.text = @ \o (IF b.in_pair THEN <<>> ELSE <<",">>)
                       \o (IF b.in_map THEN <<",">> ELSE <<"{">>) \o <<"s">>,
            !.in_map = TRUE]

\* close_json: the ud section, the range section, the closing brackets.  The
\* flags are left as they are.
CloseJson(b, ud_flag, range_flag) ==
  LET u == IF ud_flag THEN ConvertSection(b) ELSE b
      r == IF range_flag THEN ConvertSection(u) ELSE u
  IN  [r EXCEPT !.text = @ \o (IF r.in_map THEN <<"}">> ELSE <<>>)
                           \o (IF r.in_list THEN <<"]">> ELSE <<>>)]

\* string_buf_free: the text goes, the flags belong to the parser and stay.
FreeText(b) == [b EXCEPT !.text = <<>>]

-----------------------------------------------------------------------------
(***************************************************************************)
(* The language of complete texts, as a relation between neighbours plus   *)
(* conditions on the brackets.  Between two elements one comma or more is  *)
(* accepted: close_json writes two before a section that follows a pair.   *)
(***************************************************************************)
Follows ==
  {<<"[", "v">>, <<"[", "{">>, <<"v", ",">>, <<"v", "}">>, <<"v", "]">>,
   <<",", ",">>, <<",", "v">>, <<",", "k">>, <<",", "{">>, <<",", "s">>,
   <<"{", "k">>, <<"{", "s">>, <<"k", "v">>,
   <<"s", ",">>, <<"s", "}">>, <<"}", "]">>}

Adjacent(t) == \A i \in 1..(Len(t) - 1) : <<t[i], t[i + 1]>> \in Follows

\* The map is opened at most once, and only pairs and sections stand in it.
OneMap(t) ==
  \A i, j \in 1..Len(t) :
     t[i] = "{" /\ i < j =>
       /\ t[j] # "{"
       /\ t[j] = "," /\ j < Len(t) => t[j + 1] # "v"

WellFormed(t) ==
  /\ Len(t) >= 3
  /\ t[1] = "[" /\ t[Len(t)] = "]"
  /\ Adjacent(t)
  /\ OneMap(t)
  /\ (\E i \in 1..Len(t) : t[i] = "{") <=> t[Len(t) - 1] = "}"
=============================================================================
