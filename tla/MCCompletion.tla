---------------------------- MODULE MCCompletion ----------------------------
(***************************************************************************)
(* A small table with what the real one has: a command that another begins *)
(* with, a keyword shared by rows, a value with a pattern and one without, *)
(* a value followed by keywords, a keyword and a value in the same place, a*)
(* word that may be left out and is a keyword elsewhere, and a row that    *)
(* continues another.                                                      *)
(***************************************************************************)
EXTENDS Completion, TLC

MCChars == {"e", "i", "q", "s", "t", "v", "S", "<", "[", "]", "1", "9"}
MCLetters == {"e", "i", "q", "s", "t"}
MCUpper == "S" :> "s"

Exit == <<"e">>
ExitShell == <<"e", "s">>
Set == <<"s">>
Show == <<"s", "t">>
Info == <<"i">>
SlotId == <<"<", "s">>
Value == <<"<", "v">>
QuietWord == <<"q", "i">>
Quiet == <<"[", "q", "i", "]">>
Short == <<"[", "q", "]">>

MCHelplist == <<
  <<Exit>>, <<Show, SlotId, Info>>, <<Set, Info, QuietWord>>, <<Show, Info, Quiet>>,
  <<Set, Value, Show>>, <<Set, Value, Info>>, <<Set, Info>>, <<Set, Info, ExitShell>>,
  <<ExitShell, Short>>, <<ExitShell>> >>
MCTokenlist == << {Exit, ExitShell, Set, Show}, {Info}, {Info, Show, ExitShell, QuietWord} >>
MCVarlist == SlotId :> {<<"1">>}

Typed == {Exit, Set, Show, Info, <<"1">>, <<"9">>, <<"q">>, <<"S">>, <<"s", "t", "e">>, ExitShell}
MCLines == UNION {[1..n -> Typed] : n \in 0..3}
=============================================================================
