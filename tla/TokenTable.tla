----------------------------- MODULE TokenTable ------------------------------
(***************************************************************************)
(* Keywords and their abbreviations.  When the program is built,           *)
(* bnf_parser.py collects the keywords letter by letter, sorts each letter *)
(* and gives every keyword the number of characters that tell it from its  *)
(* two neighbours; find_token, at run time, walks through the table of all *)
(* letters and takes the first keyword that matches far enough.            *)
(*                                                                         *)
(* Characters are numbers in the order of their codes, and the case of a   *)
(* letter, which find_token ignores, is left out.                          *)
(***************************************************************************)
EXTENDS Integers, SequencesExt

CONSTANT Keywords   \* the keywords of cli.bnf and of bnf_parser.py

\* The end of a word, a zero byte, is no character of it.
ASSUME KeywordsAssumption ==
  IsFiniteSet(Keywords) /\ \A k \in Keywords : k \in Seq(Nat \ {0}) /\ k # <<>>

\* The order of a dictionary.
Precedes(a, b) ==
  \/ IsStrictPrefix(a, b)
  \/ \E i \in DOMAIN a \cap DOMAIN b :
       a[i] < b[i] /\ SubSeq(a, 1, i - 1) = SubSeq(b, 1, i - 1)

\* sorted: a set as a sequence, each element behind those that come before it.
Ordered(set, Before(_, _)) ==
  [n \in 1 .. Cardinality(set) |->
     CHOOSE x \in set : Cardinality({y \in set : Before(y, x)}) = n - 1]

\* The characters two words have in common at their beginnings.
Common(a, b) == Cardinality({n \in DOMAIN a : IsPrefix(SubSeq(a, 1, n), b)})

Row(token, match_len) == [name |-> token, match_len |-> match_len]

\* Every letter has a list of its own, which begins and ends with the letter.
FirstOfLetter(sorted, k) == k = 1 \/ Head(sorted[k - 1]) # Head(sorted[k])
LastOfLetter(sorted, k) == k = Len(sorted) \/ Head(sorted[k + 1]) # Head(sorted[k])

\* match_len as the predecessor leaves it: the characters that tell this keyword
\* from it, 0 in front of the first.
Carried(sorted, k) ==
  IF FirstOfLetter(sorted, k) THEN 0 ELSE Common(sorted[k - 1], sorted[k]) + 1

\* Faulty variant: a keyword is told from the one behind it only.
MatchLenAhead(sorted, k) ==
  LET index == IF LastOfLetter(sorted, k) THEN 0 ELSE Common(sorted[k], sorted[k + 1])
  IN  IF index = Len(sorted[k]) THEN index ELSE index + 1

\* The characters that tell a keyword from both its neighbours.  A keyword that
\* begins the next one is told from it by its end.
MatchLen(sorted, k) ==
  LET match_len == Carried(sorted, k)
      index == Common(sorted[k], sorted[k + 1])
  IN  IF LastOfLetter(sorted, k) THEN IF match_len = 0 THEN 1 ELSE match_len
      ELSE IF match_len > index THEN match_len
      ELSE IF index = Len(sorted[k]) THEN index ELSE index + 1

\* The array token_table as it is built, letter behind letter.
Table ==
  LET sorted == Ordered(Keywords, Precedes)
  IN  [k \in 1 .. Cardinality(Keywords) |-> Row(sorted[k], MatchLen(sorted, k))]

\* str_match: the input may end early, but not before min_match characters.
StrMatch(row, input) == IsPrefix(input, row.name) /\ Len(input) >= row.match_len

\* find_token: the walk ends at a match or behind the letter of the input.
\* No keyword is the empty sequence.
FindToken(table, input) ==
  LET Ends(row) == Head(input) < Head(row.name) \/ StrMatch(row, input)
      k == SelectInSeq(table, Ends)
  IN  IF k # 0 /\ StrMatch(table[k], input) THEN table[k].name ELSE <<>>
=============================================================================
