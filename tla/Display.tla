------------------------------ MODULE Display ------------------------------
(***************************************************************************)
(* How an answer becomes text: process_show_cmds of cli_trans.c and all it *)
(* calls.  An answer is a msgpack array whose first element says how the   *)
(* rest is laid out; names of columns and keys may end in a format (x%l)   *)
(* that says how their values are read.                                    *)
(*                                                                         *)
(* The functions read from one position of the content and nothing tells   *)
(* them where a value ends, so each must take exactly the bytes of its own *)
(* value.  The content is a sequence of bytes; every tag is one byte here, *)
(* as msgpack has it for numbers, arrays, maps and strings of a few        *)
(* elements, and a character is a byte that reads as a small number.  What *)
(* is still to do is a stack of tasks, one for each loop or call that the  *)
(* C code is in.                                                           *)
(***************************************************************************)
EXTENDS Integers, SequencesExt

CONSTANTS
  Replies,   \* the sequences of answers that one request may get
  Codes,     \* for a format of OneTag: the codes that have a word
  Garbage    \* what an uninitialised word may hold

\* mpack tags.  v is a union: number, elements of an array or map, length.
Byte(t, v) == [t |-> t, v |-> v]
Nil == Byte("nil", 0)
Percent == 37
Code == [l |-> 108, o |-> 111, S |-> 83, d |-> 100, s |-> 115, D |-> 68, i |-> 105, I |-> 73,
         m |-> 109, c |-> 99, p |-> 112, u |-> 117, P |-> 80, a |-> 97, f |-> 102, b |-> 98,
         L |-> 76, v |-> 118, A |-> 65, F |-> 70, V |-> 86, O |-> 79, t |-> 116]
Formats == DOMAIN Code
NoFormat == ""
HeadType == [one |-> 1, two |-> 2, table |-> 3, sparse |-> 4, groups |-> 5, blocks |-> 6]

\* What process_msg gets from one slot: the return code, whether there is an
\* answer, and its bytes.  meant and whole are for the properties.
Tag == [t: {"nil", "uint", "str", "array", "map", "other"}, v: Nat]
Meaning == [fmt: Formats \cup {NoFormat}, val: Seq(Nat), at: Nat, end: Nat, row: Nat]
Reply == [rv: Int, filled: BOOLEAN, content: Seq(Tag), meant: Seq(Meaning), whole: BOOLEAN]

ASSUME DisplayAssumption == (\A answers \in Replies : answers \in Seq(Reply)) /\ Garbage \subseteq Nat

VARIABLES
  res,             \* the answers from the one being shown on
  showing,         \* process_show_cmds is at work
  pos, err,        \* the reader: next byte, and its error flag, which stays
  todo,            \* the stack of tasks
  port_link_flag,  \* the static of the file
  line, out        \* the lines ended and the cells printed for this answer

vars == <<res, showing, pos, err, todo, port_link_flag, line, out>>
reader == <<pos, err>>
shown == <<line, out>>
outer == <<res, showing>>

Content == Head(res).content

Task(do, n) ==
  [do |-> do, n |-> n, heads |-> <<>>, style |-> "", fmt |-> NoFormat, tag |-> Nil, at |-> 0,
   last |-> <<>>]
Cell(fmt) == [Task("cell", 1) EXCEPT !.fmt = fmt]
Unpack(tag, fmt, at) == [Task("unpack", 1) EXCEPT !.tag = tag, !.fmt = fmt, !.at = at]
ByFormat(fmt, tag, at) == [Unpack(tag, fmt, at) EXCEPT !.do = "special"]
List(style, rows) == [Task("list", rows) EXCEPT !.style = style]
NewLine == Task("newline", 1)

TypeOK ==
  /\ showing \in BOOLEAN /\ err \in BOOLEAN /\ port_link_flag \in {0, 1}
  /\ pos \in Nat /\ line \in Nat
  /\ \A k \in DOMAIN todo : todo[k].n \in Int
  /\ \A k \in DOMAIN out : out[k].fmt \in Formats \cup {NoFormat} /\ out[k].line <= line
  /\ showing => res # <<>> /\ pos \in 1 .. Len(Content) + 1

-----------------------------------------------------------------------------
(* The reader. *)
Ahead(k) == IF err \/ pos + k > Len(Content) THEN Nil ELSE Content[pos + k]
Readable(n) == ~err /\ pos + n - 1 <= Len(Content)
Numbers(k, n) == [j \in 1 .. n |-> Ahead(k + j - 1).v]

\* n tags or bytes are read whatever they are.  Past the end they are nil.
Read(n) ==
  /\ err' = ~Readable(n)
  /\ pos' = IF Readable(n) THEN pos + n ELSE pos

\* mpack_expect_...: the wrong type is an error, and the value is then 0.
Agree(types, n) == \A j \in 1 .. n : Ahead(j - 1).t = types[j]
Expected(types, n) == IF Agree(types, n) THEN Ahead(n - 1).v ELSE 0
Expect(types) ==
  LET n == Len(types) IN
  /\ err' = (err \/ ~Agree(types, n))
  /\ pos' = IF err' THEN pos ELSE pos + n

\* The string of n bytes that starts k bytes ahead; empty after an error.
Text(k, n) == IF Readable(k + n) THEN Numbers(k, n) ELSE <<>>

\* strstr(name, "%"): what follows must be one known letter and nothing else.
FormatIn(text) ==
  LET j == SelectInSeq(text, LAMBDA b : b = Percent)
      letters == {f \in Formats : j + 1 = Len(text) /\ text[j + 1] = Code[f]}
  IN  IF j = 0 THEN NoFormat ELSE IF letters = {} THEN "?" ELSE CHOOSE f \in letters : TRUE

\* head[j] of a row with more cells than there are names is whatever lies there.
HeadAt(heads, j) == IF j \in DOMAIN heads THEN {heads[j]} ELSE Formats \cup {NoFormat, "?"}

-----------------------------------------------------------------------------
(* The stack. *)
Doing(do) == showing /\ todo # <<>> /\ Head(todo).do = do
Top == Head(todo)
Then(tasks) == todo' = tasks \o Tail(todo)
Fewer == [Top EXCEPT !.n = @ - 1]
PrintCell(fmt, val, at) ==
  /\ out' = Append(out, [fmt |-> fmt, val |-> val, at |-> at, line |-> line])
  /\ UNCHANGED line

Init ==
  /\ res \in Replies /\ showing = FALSE
  /\ pos = 1 /\ err = FALSE /\ todo = <<>> /\ port_link_flag = 0
  /\ line = 0 /\ out = <<>>

\* process_msg: one answer after the other, until one is refused.
BeginAnswer ==
  /\ ~showing /\ res # <<>> /\ Head(res).rv = 0 /\ Head(res).filled
  /\ showing' = TRUE /\ todo' = <<Task("answer", 1)>>
  /\ pos' = 1 /\ err' = FALSE /\ line' = 0 /\ out' = <<>>
  /\ UNCHANGED <<res, port_link_flag>>
SetOk ==
  /\ ~showing /\ res # <<>> /\ Head(res).rv = 0 /\ ~Head(res).filled
  /\ res' = Tail(res)
  /\ UNCHANGED <<showing, reader, todo, port_link_flag, shown>>
Refused ==
  /\ ~showing /\ res # <<>> /\ Head(res).rv # 0
  /\ res' = <<>>
  /\ UNCHANGED <<showing, reader, todo, port_link_flag, shown>>
EndAnswer ==
  /\ showing /\ todo = <<>>
  /\ showing' = FALSE /\ res' = Tail(res)
  /\ pos' = 1 /\ err' = FALSE
  /\ UNCHANGED <<todo, port_link_flag, shown>>

-----------------------------------------------------------------------------
(* The layouts. *)

\* An unknown head type shows nothing, and 0 is what a failed read gives.
Layout(type, n) ==
  CASE type \in {HeadType.one, HeadType.two} -> <<Task("elements", n - 1)>>
    [] type = HeadType.table -> <<List("table", n - 2)>>
    [] type = HeadType.sparse -> <<List("sparse", n - 2)>>
    [] type = HeadType.groups -> <<Task("groups", n - 1)>>
    [] type = HeadType.blocks -> <<Task("blocks", n - 1)>>
    [] OTHER -> <<>>
ProcessShowCmds ==
  LET types == <<"array", "uint">> IN
  /\ Doing("answer")
  /\ Expect(types)
  /\ Then(Layout(Expected(types, 2), Expected(types, 1)))
  /\ UNCHANGED <<outer, port_link_flag, shown>>

\* show_simple_dimensional_without_head.
Elements ==
  /\ Doing("elements") /\ Top.n > 0 /\ ~err
  /\ Then(<<Cell(NoFormat), NewLine, Fewer>>)
  /\ UNCHANGED <<outer, reader, port_link_flag, shown>>

\* The names of the columns, of which the formats are kept.
ListNames ==
  /\ Doing("list")
  /\ Expect(<<"array">>)
  /\ Then((IF Top.style = "sparse" THEN <<>> ELSE <<NewLine>>)
          \o <<[Task("names", Expected(<<"array">>, 1)) EXCEPT !.style = Top.style],
               [Task("rows", Top.n) EXCEPT !.style = Top.style]>>)
  /\ UNCHANGED <<outer, port_link_flag, shown>>
Name ==
  LET length == Expected(<<"str">>, 1)
      fmt == FormatIn(Text(1, length))
      \* the rows are the task below
      rows == [todo[2] EXCEPT !.heads = Append(@, fmt)]
  IN
  /\ Doing("names") /\ Top.n > 0 /\ ~err
  /\ err' = (Ahead(0).t # "str" \/ ~Readable(1 + length))
  /\ pos' = IF err' THEN pos ELSE pos + 1 + length
  /\ todo' = <<Fewer, rows>> \o SubSeq(todo, 3, Len(todo))
  /\ UNCHANGED <<outer, port_link_flag, shown>>

\* Faulty variants: a row that does not end its line; a row that is left out
\* when not all of it has arrived.
RowOpen ==
  /\ Doing("rows") /\ Top.n > 0 /\ ~err
  /\ Read(1)
  /\ Then(<<[Top EXCEPT !.do = "cells", !.n = Ahead(0).v], Fewer>>)
  /\ UNCHANGED <<outer, port_link_flag, shown>>
RowWhole ==
  /\ Doing("rows") /\ Top.n > 0 /\ ~err
  /\ Read(1 + IF Readable(1 + Ahead(0).v) THEN 0 ELSE Ahead(0).v)
  /\ Then(IF Readable(1 + Ahead(0).v)
          THEN <<[Top EXCEPT !.do = "cells", !.n = Ahead(0).v], NewLine, Fewer>> ELSE <<NewLine>>)
  /\ UNCHANGED <<outer, port_link_flag, shown>>

\* A row is a tag with as many cells as it says, whatever its type.
Row ==
  /\ Doing("rows") /\ Top.n > 0 /\ ~err
  /\ Read(1)
  /\ Then(<<[Top EXCEPT !.do = "cells", !.n = Ahead(0).v], NewLine, Fewer>>)
  /\ UNCHANGED <<outer, port_link_flag, shown>>
CellOfTable ==
  /\ Doing("cells") /\ Top.style = "table" /\ Top.n > 0
  /\ \E fmt \in HeadAt(Top.heads, 1) :
        Then(<<Cell(fmt), [Fewer EXCEPT !.heads = IF @ = <<>> THEN @ ELSE Tail(@)]>>)
  /\ UNCHANGED <<outer, reader, port_link_flag, shown>>

\* A sparse cell is a map of one pair, and its key the number of its column.
CellOfSparse ==
  /\ Doing("cells") /\ Top.style = "sparse" /\ Top.n > 0
  /\ Read(2)
  /\ \E fmt \in HeadAt(Top.heads, Ahead(1).v) :
        Then(<<IF fmt = NoFormat THEN Cell(fmt) ELSE ByFormat(fmt, Nil, 0), Fewer>>)
  /\ UNCHANGED <<outer, port_link_flag, shown>>

\* MUL_DIMENSIONAL_WITH_HEAD: a domain, then a table of its own.
Group ==
  LET num == Expected(<<"array">>, 1) IN
  /\ Doing("groups") /\ Top.n > 0 /\ ~err
  /\ Expect(<<"array">>)
  /\ Then(<<Cell(NoFormat), List("table", num - 2), Fewer>>)
  /\ UNCHANGED <<outer, port_link_flag, shown>>

\* show_mul_dimensional_without_head: the tag of a line of n is unpacked n times.
Block ==
  LET num == Expected(<<"array">>, 1) IN
  /\ Doing("blocks") /\ Top.n > 0 /\ ~err
  /\ Expect(<<"array">>)
  /\ Then(<<Cell(NoFormat), NewLine, Task("lines", num - 1), NewLine, Fewer>>)
  /\ UNCHANGED <<outer, port_link_flag, shown>>
LineOfBlock ==
  /\ Doing("lines") /\ Top.n > 0 /\ ~err
  /\ Read(1)
  /\ Then(<<[Task("again", Ahead(0).v) EXCEPT !.tag = Ahead(0), !.at = pos], NewLine, Fewer>>)
  /\ UNCHANGED <<outer, port_link_flag, shown>>
Again ==
  /\ Doing("again") /\ Top.n > 0
  /\ Then(<<Unpack(Top.tag, NoFormat, Top.at), Fewer>>)
  /\ UNCHANGED <<outer, reader, port_link_flag, shown>>

\* The loops over rows and elements stop at an error, the others only count.
Guarded == {"elements", "names", "rows", "groups", "blocks", "lines"}
Counted == {"cells", "again", "values", "pairs"}
LoopEnds ==
  /\ showing /\ todo # <<>>
  /\ \/ Top.do \in Guarded /\ (err \/ Top.n <= 0)
     \/ Top.do \in Counted /\ Top.n = 0
  /\ Then(<<>>)
  /\ UNCHANGED <<outer, reader, port_link_flag, shown>>
EndLine ==
  /\ Doing("newline")
  /\ line' = line + 1 /\ Then(<<>>)
  /\ UNCHANGED <<outer, reader, port_link_flag, out>>

-----------------------------------------------------------------------------
(* unpack_by_type. *)
ReadCell ==
  /\ Doing("cell")
  /\ Read(1)
  /\ Then(<<Unpack(Ahead(0), Top.fmt, pos)>>)
  /\ UNCHANGED <<outer, port_link_flag, shown>>

\* A value of a column with a format goes to unpack_spec_val, which is given
\* the number and nothing else; 0 stands for a string or an array.
HasTask == Doing("unpack")
Number ==
  /\ HasTask /\ Top.tag.t = "uint"
  /\ IF Top.fmt = NoFormat
     THEN PrintCell(NoFormat, <<Top.tag.v>>, Top.at) /\ Then(<<>>)
     ELSE Then(<<ByFormat(Top.fmt, Top.tag, Top.at)>>) /\ UNCHANGED shown
  /\ UNCHANGED <<outer, reader, port_link_flag>>
String ==
  /\ HasTask /\ Top.tag.t = "str"
  /\ Read(Top.tag.v)
  /\ IF Top.fmt = NoFormat
     THEN PrintCell(NoFormat, Text(0, Top.tag.v), Top.at) /\ Then(<<>>)
     ELSE Then(<<ByFormat(Top.fmt, Nil, Top.at)>>) /\ UNCHANGED shown
  /\ UNCHANGED <<outer, port_link_flag>>
Array ==
  /\ HasTask /\ Top.tag.t = "array"
  /\ IF Top.tag.v = 0
     THEN PrintCell(NoFormat, <<>>, Top.at) /\ Then(<<>>)
     ELSE /\ Then(IF Top.fmt = NoFormat THEN <<Task("values", Top.tag.v)>>
                  ELSE <<ByFormat(Top.fmt, Nil, Top.at)>>)
          /\ UNCHANGED shown
  /\ UNCHANGED <<outer, reader, port_link_flag>>
Map ==
  /\ HasTask /\ Top.tag.t = "map"
  /\ Then(<<Task("pairs", Top.tag.v)>>)
  /\ UNCHANGED <<outer, reader, port_link_flag, shown>>
\* Faulty variant: every other type is taken for a number.
OtherTypeShown ==
  /\ HasTask /\ Top.tag.t \notin {"uint", "str", "array", "map"}
  /\ PrintCell(NoFormat, <<Top.tag.v>>, Top.at) /\ Then(<<>>)
  /\ UNCHANGED <<outer, reader, port_link_flag>>
OtherType ==
  /\ HasTask /\ Top.tag.t \notin {"uint", "str", "array", "map"}
  /\ Then(<<>>)
  /\ UNCHANGED <<outer, reader, port_link_flag, shown>>

\* Faulty variant: the count of the children is not kept.
ValueForever ==
  /\ Doing("values") /\ Top.n > 0
  /\ Then(<<Cell(NoFormat), Top>>)
  /\ UNCHANGED <<outer, reader, port_link_flag, shown>>
Value ==
  /\ Doing("values") /\ Top.n > 0
  /\ Then(<<Cell(NoFormat), Fewer>>)
  /\ UNCHANGED <<outer, reader, port_link_flag, shown>>

\* Faulty variant: the value is shown before a key that is no string.
PairSwapped ==
  LET key == Ahead(0)
      fmt == FormatIn(Text(1, key.v))
  IN
  /\ Doing("pairs") /\ Top.n > 0
  /\ IF key.t # "str"
     THEN Read(1) /\ Then(<<Cell(NoFormat), Unpack(key, NoFormat, pos), Fewer>>)
     ELSE /\ Read(1 + key.v)
          /\ Then(<<IF fmt = NoFormat THEN Cell(NoFormat) ELSE ByFormat(fmt, Nil, 0), Fewer>>)
  /\ UNCHANGED <<outer, port_link_flag, shown>>
\* A key that is no string is shown like a value.  A key with a format has its
\* value read by that format, without the tag of the value.
Pair ==
  LET key == Ahead(0)
      fmt == FormatIn(Text(1, key.v))
  IN
  /\ Doing("pairs") /\ Top.n > 0
  /\ IF key.t # "str"
     THEN Read(1) /\ Then(<<Unpack(key, NoFormat, pos), Cell(NoFormat), Fewer>>)
     ELSE /\ Read(1 + key.v)
          /\ Then(<<IF fmt = NoFormat THEN Cell(NoFormat) ELSE ByFormat(fmt, Nil, 0), Fewer>>)
  /\ UNCHANGED <<outer, port_link_flag, shown>>

-----------------------------------------------------------------------------
(* unpack_spec_val. *)
Special(fmts) == Doing("special") /\ Top.fmt \in fmts
Shows(val, at) == PrintCell(Top.fmt, val, at) /\ Then(<<>>)

\* The formats that are given the number: nothing is read.
GivenOnes == {"l", "o", "S", "d"}
\* Faulty variants: a link that is down leaves the flag; the flag is the number.
LinkSticky ==
  /\ Special({"l"})
  /\ port_link_flag' = IF Top.tag.v # 0 THEN 1 ELSE port_link_flag
  /\ Shows(<<IF Top.tag.v # 0 THEN 1 ELSE 0>>, Top.at)
  /\ UNCHANGED <<outer, reader>>
LinkRaw ==
  /\ Special({"l"})
  /\ port_link_flag' = Top.tag.v
  /\ Shows(<<IF Top.tag.v # 0 THEN 1 ELSE 0>>, Top.at)
  /\ UNCHANGED <<outer, reader>>
Link ==
  /\ Special({"l"})
  /\ port_link_flag' = IF Top.tag.v # 0 THEN 1 ELSE 0
  /\ Shows(<<port_link_flag'>>, Top.at)
  /\ UNCHANGED <<outer, reader>>
Switch ==
  /\ Special({"o"})
  /\ Shows(<<IF Top.tag.v # 0 THEN 1 ELSE 0>>, Top.at)
  /\ UNCHANGED <<outer, reader, port_link_flag>>
SpeedWord(v) == IF v \in 0 .. 8 THEN <<v>> ELSE <<>>
Speed ==
  /\ Special({"S"})
  /\ Shows(IF port_link_flag = 1 THEN SpeedWord(Top.tag.v) ELSE <<>>, Top.at)
  /\ UNCHANGED <<outer, reader, port_link_flag>>
Duplex ==
  /\ Special({"d"})
  /\ Shows(IF port_link_flag = 1 THEN <<IF Top.tag.v # 0 THEN 1 ELSE 0>> ELSE <<>>, Top.at)
  /\ UNCHANGED <<outer, reader, port_link_flag>>

\* The formats that read their value themselves.
Takes(n, val) == Read(n) /\ Shows(val, pos) /\ UNCHANGED <<outer, port_link_flag>>

\* The array of a port has one, two or three numbers; another length is skipped.
SlotModulePort ==
  LET n == Ahead(0).v IN
  /\ Special({"s"})
  /\ IF n \in 1 .. 3 THEN Takes(1 + n, Numbers(1, n))
     ELSE Read(1) /\ Then(<<>>) /\ UNCHANGED <<outer, port_link_flag, shown>>

\* An array of exactly n numbers, checked as it is read.
Checked(n) ==
  LET types == <<"array">> \o [j \in 1 .. n |-> "uint"]
      right == Ahead(0) = Byte("array", n)
  IN
  /\ err' = (~right \/ ~Agree(types, n + 1))
  /\ pos' = IF err' THEN pos ELSE pos + n + 1
  /\ Shows([j \in 1 .. n |-> IF right THEN Expected(types, j + 1) ELSE 0], pos)
  /\ UNCHANGED <<outer, port_link_flag>>
Uptime == Special({"D"}) /\ Checked(4)
OutVlan == Special({"V"}) /\ Checked(3)

\* Type, total and rate without a tag around them: only the type's low four
\* bits count, and 0 and 15 show nothing.
CounterType ==
  /\ Special({"c"})
  /\ LET type == Ahead(0).v % 16 IN
     IF type \in {0, 15} THEN Read(3) /\ Then(<<>>) /\ UNCHANGED <<outer, port_link_flag, shown>>
     ELSE Takes(3, <<IF type = 2 THEN 2 ELSE 1>> \o Numbers(1, 2))
\* Faulty variant: the tag around address and mask is forgotten.
IpBare == Special({"i"}) /\ Takes(2, Numbers(0, 2))
Ip == Special({"i"}) /\ Takes(3, Numbers(1, 2))

\* A tag, then two strings of bytes: address and mask.
TwoStrings ==
  LET first == Ahead(1).v
      second == Ahead(2 + first).v
  IN  Takes(3 + first + second, Text(2, first) \o Text(3 + first, second))
Ipv6 == Special({"I"}) /\ TwoStrings
Mac == Special({"m"}) /\ TwoStrings

\* One code each: a word of a table, or nothing, or one of two words.
Tables == {"f", "b", "L", "A", "t"}
TwoWords == {"v", "F", "O"}
Word(fmt, v) == IF fmt \in Tables THEN IF v \in Codes[fmt] THEN <<v>> ELSE <<>>
                ELSE <<IF v \in Codes[fmt] THEN 1 ELSE 0>>
CodeOf(fmts) == Special(fmts) /\ Takes(1, Word(Top.fmt, Ahead(0).v))
PlatformOrBoard == CodeOf({"f", "b"})
Balance == CodeOf({"L"})
VlanTag == CodeOf({"v"})
ActionOrForward == CodeOf({"A", "F"})
OmSwitchOver == CodeOf({"O"})
BoardStatus == CodeOf({"t"})

\* The lists: the length, then for each entry a tag and its numbers.
EntrySize == [p |-> 7, u |-> 3, P |-> 2, a |-> 2]
ListOf(fmts) ==
  /\ Special(fmts)
  /\ Read(1)
  /\ Then(<<[Top EXCEPT !.do = "entries", !.n = Ahead(0).v, !.at = pos]>>)
  /\ UNCHANGED <<outer, port_link_flag, shown>>

\* Entries are printed as they are read, but of ports only the last one is,
\* and an empty list of ports prints words that were never set.
Entry ==
  LET val == Numbers(1, EntrySize[Top.fmt]) IN
  /\ Doing("entries") /\ Top.n > 0
  /\ Read(1 + EntrySize[Top.fmt])
  /\ IF Top.fmt = "p"
     THEN Then(<<[Fewer EXCEPT !.last = val, !.at = pos]>>) /\ UNCHANGED shown
     ELSE PrintCell(Top.fmt, val, pos) /\ Then(<<Fewer>>)
  /\ UNCHANGED <<outer, port_link_flag>>
EntriesEnd ==
  /\ Doing("entries") /\ Top.n = 0
  /\ IF Top.fmt # "p" THEN UNCHANGED shown
     ELSE \E ports \in [1 .. 4 -> Garbage] :
            PrintCell("p", IF Top.last = <<>> THEN <<0, 0>> \o ports \o <<0>> ELSE Top.last, Top.at)
  /\ Then(<<>>)
  /\ UNCHANGED <<outer, reader, port_link_flag>>
UnknownFormat ==
  /\ Special({"?"})
  /\ Then(<<>>)
  /\ UNCHANGED <<outer, reader, port_link_flag, shown>>

InportsOutports == ListOf({"p"})
UserData == ListOf({"u"})
PowerOrFan == ListOf({"P", "a"})
-----------------------------------------------------------------------------
Layouts ==
  \/ ProcessShowCmds \/ Elements \/ ListNames \/ Name \/ Row \/ CellOfTable \/ CellOfSparse
  \/ Group \/ Block \/ LineOfBlock \/ Again \/ LoopEnds \/ EndLine
UnpackByType == ReadCell \/ Number \/ String \/ Array \/ Map \/ OtherType \/ Value \/ Pair
UnpackSpecVal ==
  \/ Link \/ Switch \/ Speed \/ Duplex \/ SlotModulePort \/ Uptime \/ OutVlan \/ CounterType
  \/ Ip \/ Ipv6 \/ Mac \/ PlatformOrBoard \/ Balance \/ VlanTag \/ ActionOrForward
  \/ OmSwitchOver \/ BoardStatus \/ InportsOutports \/ UserData \/ PowerOrFan
  \/ Entry \/ EntriesEnd \/ UnknownFormat
Next ==
  BeginAnswer \/ SetOk \/ Refused \/ EndAnswer \/ Layouts \/ UnpackByType \/ UnpackSpecVal
Spec == Init /\ [][Next]_vars /\ WF_vars(Next)

-----------------------------------------------------------------------------
(***************************************************************************)
(* What must hold.  Each answer carries meant: the cells that the device   *)
(* put into it, each with the position of its value (history, see          *)
(* DisplayAnswers), and whole, which is FALSE when its end is missing.     *)
(***************************************************************************)
Meant == Head(res).meant
Told(c) == [fmt |-> c.fmt, val |-> c.val, at |-> c.at]
Cells(seq) == [k \in DOMAIN seq |-> Told(seq[k])]
AtEnd == showing /\ todo = <<>>

\* An answer is shown cell by cell as the device meant it: no value is skipped,
\* shown twice, split or read as part of its neighbour, at any moment, in any
\* layout; and when it has been shown, all of it has been.
ShowsWhatWasSent ==
  showing /\ Head(res).whole =>
    /\ IsPrefix(Cells(out), Cells(Meant))
    /\ todo = <<>> => Len(out) = Len(Meant) /\ ~err /\ pos = Len(Content) + 1

\* Rows do not run into each other: neighbours stand on one line exactly when they
\* belong to one row, element, line or domain.
RowsKeepTheirLines ==
  AtEnd /\ Head(res).whole =>
    \A k \in 2 .. Len(out) : out[k - 1].line = out[k].line <=> Meant[k - 1].row = Meant[k].row

\* port_link_flag outlives rows, answers and slots, yet whatever an answer is made of,
\* a speed or a duplex is shown exactly when the link that its row shows last in front
\* of it is up (a speed, if it has a word).
LinkInFront(j, k) ==
  j < k /\ out[j].fmt = "l" /\ \A i \in j + 1 .. k - 1 : out[i].fmt # "l"
SpeedFollowsOwnLink ==
  \A j, k \in DOMAIN out :
    LinkInFront(j, k) /\ out[k].fmt \in {"S", "d"} /\ out[j].line = out[k].line =>
      /\ out[k].val # <<>> => out[j].val = <<1>>
      /\ out[k].fmt = "d" /\ out[j].val = <<1>> => out[k].val # <<>>

\* An answer without its end never gives a column or an element a value that was
\* not sent; only the formats that read for themselves make one up from zeros.
\* A sparse row is different: the key that is missing is 0, and head[-1] is read.
NothingMadeUp ==
  showing /\ Len(Content) >= 2 /\ Content[2].v # HeadType.sparse =>
    \A k \in DOMAIN out : out[k].at \notin 1 .. Len(Content) =>
      out[k].fmt \in Formats \ GivenOnes

\* What did arrive of an answer without its end is shown as it was meant.
ArrivedIsShown ==
  AtEnd => \A k \in DOMAIN Meant :
    Meant[k].end <= Len(Content) => k \in DOMAIN out /\ Told(out[k]) = Told(Meant[k])

\* Whatever an answer is made of, a cell without a format is a value that stands in
\* it: a number as it was sent, a text all of it or, after an error, none of it, an
\* array without elements.  A number that is given to a format was sent too, but
\* for a format in a key or in a sparse row, which has no place and gets 0.
ShownIsSent ==
  showing => \A k \in DOMAIN out :
    LET cell == out[k]
        tag == Content[cell.at]
    IN  /\ cell.fmt \in GivenOnes /\ cell.at # 0 => cell.at \in 1 .. Len(Content)
        /\ cell.fmt = NoFormat =>
             /\ cell.at \in 1 .. Len(Content)
             /\ \/ tag.t = "uint" /\ cell.val = <<tag.v>>
                \/ tag.t = "str" /\ Len(cell.val) \in {0, tag.v}
                \/ tag = Byte("array", 0) /\ cell.val = <<>>

\* Whatever an answer is made of, its values are shown in the order in which they
\* stand in it: no loop, list or key that is read ahead lets a later one pass.
InOrder ==
  \A j, k \in DOMAIN out : j < k /\ out[j].at # 0 /\ out[k].at # 0 => out[j].at <= out[k].at

\* Whatever arrives, the display comes to an end, error or not.
DisplayEnds == <>(res = <<>>)
=============================================================================
