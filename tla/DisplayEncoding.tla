--------------------------- MODULE DisplayEncoding ---------------------------
(***************************************************************************)
(* What an answer is that process_show_cmds can read, of any length.  The  *)
(* devices that write the answers are not part of the repository; this is  *)
(* the encoding that the reader expects of them, each layout and format as *)
(* the code in front of it reads it.                                       *)
(*                                                                         *)
(* An answer is a tree of parts: values, the pairs of a map, rows, groups  *)
(* and so on.  A part says where its bytes and its cells begin and end, and*)
(* which parts it is made of; every rule below looks at one part and its   *)
(* own bytes, so that nothing is said of how the reader gets there.        *)
(*                                                                         *)
(* The formats l, o, S, d and c stand over plain columns; a value that its *)
(* format reads for itself (kind "special") is the value of a map, or      *)
(* stands in a column inside an array of one.                              *)
(***************************************************************************)
EXTENDS Display

CONSTANTS Encodings  \* the answers of the devices, whole, with their parts

\* at is the first byte, end the one behind the last; before and upto are the
\* numbers of cells in front of the part and behind it.  kids are numbers of
\* parts.  heads are the formats of the columns that a row stands in.
Kinds == {"answer", "element", "list", "name", "row", "sparse", "group", "block", "line",
          "value", "pair", "special", "entry"}
Part == [kind: Kinds, style: {"", "table", "sparse"}, fmt: Formats \cup {NoFormat, "?"},
         at: Nat, end: Nat, before: Nat, upto: Nat, kids: Seq(Nat),
         heads: Seq(Formats \cup {NoFormat, "?"})]
Encoding == [bytes: Seq(Tag), meant: Seq(Meaning), parts: Seq(Part)]

SelfReading == Formats \ GivenOnes

Kid(e, p, k) == e.parts[p.kids[k]]
ValuesAt(e, at, n) == [j \in 1 .. n |-> e.bytes[at + j - 1].v]

\* Parts ks, one behind the other, from one spot to another: bytes and cells.
Spot(at, cells) == [at |-> at, cells |-> cells]
Run(e, ks, from, to) ==
  /\ \A k \in 1 .. Len(ks) : ks[k] \in 1 .. Len(e.parts)
  /\ ks = <<>> => from.at = to.at /\ from.cells = to.cells
  /\ ks # <<>> => /\ e.parts[ks[1]].at = from.at /\ e.parts[ks[1]].before = from.cells
                  /\ e.parts[ks[Len(ks)]].end = to.at /\ e.parts[ks[Len(ks)]].upto = to.cells
  /\ \A k \in 2 .. Len(ks) : /\ e.parts[ks[k]].at = e.parts[ks[k - 1]].end
                             /\ e.parts[ks[k]].before = e.parts[ks[k - 1]].upto
All(e, ks, kind) == \A k \in 1 .. Len(ks) : e.parts[ks[k]].kind = kind
Plain(e, ks) == \A k \in 1 .. Len(ks) : e.parts[ks[k]].kind = "value" /\ e.parts[ks[k]].fmt = NoFormat

\* The kids fill a part, but for the n bytes that it begins with.
Filled(e, p, n) == Run(e, p.kids, Spot(p.at + n, p.before), Spot(p.end, p.upto))

\* A part that is a single cell, or none.
IsCell(e, c, fmt, val, at, end) ==
  /\ c \in 1 .. Len(e.meant)
  /\ e.meant[c].fmt = fmt /\ e.meant[c].val = val /\ e.meant[c].at = at /\ e.meant[c].end = end - 1
OneCell(e, p, fmt, val, at) ==
  p.upto = p.before + 1 /\ IsCell(e, p.upto, fmt, val, at, p.end)
NoCell(p) == p.upto = p.before

\* The cells of a part stand in one row, and not in that of the cell before it.
NewRow(e, c) == e.meant[c - 1].row # e.meant[c].row
OneRow(e, p) == \A c \in p.before + 1 .. p.upto : c > 1 => (NewRow(e, c) <=> c = p.before + 1)

-----------------------------------------------------------------------------
(* Values. *)

\* The number of a speed or duplex counts if the link of its row is up.
LinkOf(e, j, c) ==
  /\ e.meant[j].fmt = "l" /\ e.meant[j].row = e.meant[c].row
  /\ \A i \in j + 1 .. c - 1 : e.meant[i].fmt # "l"
IfUp(e, c, val) ==
  \E j \in 1 .. c - 1 : LinkOf(e, j, c) /\ e.meant[c].val = IF e.meant[j].val = <<1>> THEN val ELSE <<>>
YesOrNo(v) == <<IF v # 0 THEN 1 ELSE 0>>
GivenCell(e, p, v) ==
  /\ OneCell(e, p, p.fmt, e.meant[p.upto].val, p.at)
  /\ p.fmt \in {"l", "o"} => e.meant[p.upto].val = YesOrNo(v)
  /\ p.fmt = "S" => IfUp(e, p.upto, SpeedWord(v))
  /\ p.fmt = "d" => IfUp(e, p.upto, YesOrNo(v))

IsValue(e, p) ==
  LET tag == e.bytes[p.at] IN
  \/ tag.t = "uint" /\ p.end = p.at + 1 /\
       \/ p.fmt = NoFormat /\ OneCell(e, p, NoFormat, <<tag.v>>, p.at)
       \/ p.fmt \in GivenOnes /\ GivenCell(e, p, tag.v)
       \/ p.fmt = "?" /\ NoCell(p)
  \/ /\ tag.t = "str" /\ p.fmt = NoFormat /\ p.end = p.at + 1 + tag.v
     /\ OneCell(e, p, NoFormat, ValuesAt(e, p.at + 1, tag.v), p.at)
  \/ tag = Byte("array", 0) /\ p.end = p.at + 1 /\ OneCell(e, p, NoFormat, <<>>, p.at)
  \/ tag.t = "array" /\ tag.v > 0 /\ Filled(e, p, 1) /\
       \/ p.fmt = NoFormat /\ Len(p.kids) = tag.v /\ Plain(e, p.kids)
       \/ p.fmt \in SelfReading /\ Len(p.kids) = 1 /\ Kid(e, p, 1).kind = "special"
            /\ Kid(e, p, 1).fmt = p.fmt
  \/ tag.t = "map" /\ Filled(e, p, 1) /\ Len(p.kids) = tag.v /\ All(e, p.kids, "pair")

IsPair(e, p) ==
  LET key == e.bytes[p.at]
      fmt == FormatIn(ValuesAt(e, p.at + 1, key.v))
  IN
  \/ key.t = "str" /\ Len(p.kids) = 1 /\ Filled(e, p, 1 + key.v) /\
       \/ fmt = NoFormat /\ Plain(e, p.kids)
       \/ fmt \in SelfReading /\ Kid(e, p, 1).kind = "special" /\ Kid(e, p, 1).fmt = fmt
  \/ key.t # "str" /\ Len(p.kids) = 2 /\ Filled(e, p, 0) /\ Plain(e, p.kids)

\* A value that its format reads.
Sized(p, n) == p.end = p.at + n
OfNumbers(e, p, n) ==
  /\ e.bytes[p.at] = Byte("array", n) /\ \A j \in 1 .. n : e.bytes[p.at + j].t = "uint"
  /\ Sized(p, n + 1) /\ OneCell(e, p, p.fmt, ValuesAt(e, p.at + 1, n), p.at)
IsCounter(e, p) ==
  LET type == e.bytes[p.at].v % 16 IN
  /\ Sized(p, 3)
  /\ IF type \in {0, 15} THEN NoCell(p)
     ELSE OneCell(e, p, "c", <<IF type = 2 THEN 2 ELSE 1>> \o ValuesAt(e, p.at + 1, 2), p.at)
IsTwoStrings(e, p) ==
  LET first == e.bytes[p.at + 1].v
      second == e.bytes[p.at + 2 + first].v
  IN  /\ first \in Nat /\ second \in Nat /\ Sized(p, 3 + first + second)
      /\ OneCell(e, p, p.fmt, ValuesAt(e, p.at + 2, first) \o ValuesAt(e, p.at + 3 + first, second), p.at)
IsSpecial(e, p) ==
  LET v == e.bytes[p.at].v IN
  /\ p.fmt \in SelfReading
  /\ p.fmt = "s" => v \in 1 .. 3 /\ Sized(p, 1 + v) /\ OneCell(e, p, "s", ValuesAt(e, p.at + 1, v), p.at)
  /\ p.fmt = "D" => OfNumbers(e, p, 4)
  /\ p.fmt = "V" => OfNumbers(e, p, 3)
  /\ p.fmt = "c" => IsCounter(e, p)
  /\ p.fmt = "i" => Sized(p, 3) /\ OneCell(e, p, "i", ValuesAt(e, p.at + 1, 2), p.at)
  /\ p.fmt \in {"I", "m"} => IsTwoStrings(e, p)
  /\ p.fmt \in Tables \cup TwoWords => Sized(p, 1) /\ OneCell(e, p, p.fmt, Word(p.fmt, v), p.at)
  \* A list of ports has one entry, of the others as many as they have.
  /\ p.fmt = "p" => v = 1 /\ Sized(p, 2 + EntrySize["p"])
                      /\ OneCell(e, p, "p", ValuesAt(e, p.at + 2, EntrySize["p"]), p.at + 1)
  /\ p.fmt \in {"u", "P", "a"} =>
       /\ Len(p.kids) = v /\ Filled(e, p, 1)
       /\ \A k \in 1 .. Len(p.kids) : Kid(e, p, k).kind = "entry" /\ Kid(e, p, k).fmt = p.fmt
IsEntry(e, p) ==
  /\ p.fmt \in {"u", "P", "a"} /\ Sized(p, 1 + EntrySize[p.fmt])
  /\ OneCell(e, p, p.fmt, ValuesAt(e, p.at + 1, EntrySize[p.fmt]), p.at)

-----------------------------------------------------------------------------
(* Layouts. *)

IsName(e, p) ==
  LET tag == e.bytes[p.at] IN
  /\ tag.t = "str" /\ Sized(p, 1 + tag.v) /\ NoCell(p)
  /\ p.fmt = FormatIn(ValuesAt(e, p.at + 1, tag.v))

\* The names of the columns, then the rows.
Columns(e, p) == e.bytes[p.at].v
HasRows(e, p, n) == Len(p.kids) = Columns(e, p) + n
IsList(e, p) ==
  /\ p.style \in {"table", "sparse"}
  /\ e.bytes[p.at].t = "array" /\ Filled(e, p, 1) /\ Columns(e, p) <= Len(p.kids)
  /\ \A k \in 1 .. Columns(e, p) : Kid(e, p, k).kind = "name"
  /\ \A k \in Columns(e, p) + 1 .. Len(p.kids) :
       /\ Kid(e, p, k).kind = "row" /\ Kid(e, p, k).style = p.style
       /\ Kid(e, p, k).heads = [j \in 1 .. Columns(e, p) |-> Kid(e, p, j).fmt]
IsRow(e, p) ==
  /\ Len(p.kids) = e.bytes[p.at].v /\ Filled(e, p, 1) /\ OneRow(e, p)
  /\ p.style = "table" =>
       /\ Len(p.kids) <= Len(p.heads)
       /\ \A k \in 1 .. Len(p.kids) : Kid(e, p, k).kind = "value" /\ Kid(e, p, k).fmt = p.heads[k]
  /\ p.style = "sparse" =>
       \A k \in 1 .. Len(p.kids) : Kid(e, p, k).kind = "sparse" /\ Kid(e, p, k).heads = p.heads
IsSparse(e, p) ==
  LET key == e.bytes[p.at + 1].v IN
  /\ key \in 1 .. Len(p.heads) /\ Len(p.kids) = 1 /\ Filled(e, p, 2)
  /\ \/ p.heads[key] = NoFormat /\ Plain(e, p.kids)
     \/ p.heads[key] \in SelfReading /\ Kid(e, p, 1).kind = "special" /\ Kid(e, p, 1).fmt = p.heads[key]

IsElement(e, p) == Len(p.kids) = 1 /\ Plain(e, p.kids) /\ Filled(e, p, 0) /\ OneRow(e, p)

\* A group or a block begins with its domain.
Domain(e, p) ==
  /\ e.bytes[p.at].t = "array" /\ Filled(e, p, 1) /\ p.kids # <<>>
  /\ Kid(e, p, 1).kind = "value" /\ Kid(e, p, 1).fmt = NoFormat /\ OneRow(e, Kid(e, p, 1))
IsGroup(e, p) ==
  /\ Domain(e, p) /\ Len(p.kids) = 2 /\ Kid(e, p, 2).kind = "list" /\ Kid(e, p, 2).style = "table"
  /\ e.bytes[p.at].v >= 2 /\ HasRows(e, Kid(e, p, 2), e.bytes[p.at].v - 2)
IsBlock(e, p) ==
  /\ Domain(e, p) /\ Len(p.kids) = e.bytes[p.at].v
  /\ \A k \in 2 .. Len(p.kids) : Kid(e, p, k).kind = "line"

\* The tag of a line is unpacked as often as it says, so it may say one at most.
IsLine(e, p) ==
  /\ OneRow(e, p)
  /\ \/ e.bytes[p.at].v = 0 /\ Sized(p, 1) /\ NoCell(p)
     \/ e.bytes[p.at].v = 1 /\ Len(p.kids) = 1 /\ Plain(e, p.kids) /\ Filled(e, p, 0)

IsAnswer(e, p) ==
  LET n == e.bytes[1].v
      type == e.bytes[2].v
  IN
  /\ p.at = 1 /\ p.end = Len(e.bytes) + 1 /\ p.before = 0 /\ p.upto = Len(e.meant)
  /\ e.bytes[1].t = "array" /\ e.bytes[2].t = "uint" /\ Filled(e, p, 2)
  /\ \/ type \in {HeadType.one, HeadType.two} /\ Len(p.kids) = n - 1 /\ All(e, p.kids, "element")
     \/ type = HeadType.groups /\ Len(p.kids) = n - 1 /\ All(e, p.kids, "group")
     \/ type = HeadType.blocks /\ Len(p.kids) = n - 1 /\ All(e, p.kids, "block")
     \/ /\ type \in {HeadType.table, HeadType.sparse} /\ n >= 2
        /\ Len(p.kids) = 1 /\ Kid(e, p, 1).kind = "list" /\ HasRows(e, Kid(e, p, 1), n - 2)
        /\ Kid(e, p, 1).style = IF type = HeadType.table THEN "table" ELSE "sparse"

IsPart(e, p) ==
  /\ p.kind = "value" => IsValue(e, p)
  /\ p.kind = "pair" => IsPair(e, p)
  /\ p.kind = "special" => IsSpecial(e, p)
  /\ p.kind = "entry" => IsEntry(e, p)
  /\ p.kind = "name" => IsName(e, p)
  /\ p.kind = "list" => IsList(e, p)
  /\ p.kind = "row" => IsRow(e, p)
  /\ p.kind = "sparse" => IsSparse(e, p)
  /\ p.kind = "element" => IsElement(e, p)
  /\ p.kind = "group" => IsGroup(e, p)
  /\ p.kind = "block" => IsBlock(e, p)
  /\ p.kind = "line" => IsLine(e, p)
  /\ p.kind = "answer" => IsAnswer(e, p)

\* A part lies in the answer, and the cells behind a spot end behind it.
Located(e, p) ==
  /\ 1 <= p.at /\ p.at < p.end /\ p.end <= Len(e.bytes) + 1
  /\ p.before <= p.upto /\ p.upto <= Len(e.meant)
  /\ \A c \in p.before + 1 .. Len(e.meant) : p.at <= e.meant[c].end
  /\ \A c \in p.upto + 1 .. Len(e.meant) : p.end - 1 <= e.meant[c].end

WellEncoded(e) ==
  /\ e \in Encoding
  /\ \A k \in 1 .. Len(e.parts) : IsPart(e, e.parts[k]) /\ Located(e, e.parts[k])
  /\ \E k \in 1 .. Len(e.parts) : e.parts[k].kind = "answer"

\* What a slot hands over: an encoded answer, all of it or its beginning.
Carries(a, e) ==
  /\ a.meant = e.meant /\ Len(a.content) <= Len(e.bytes)
  /\ \A k \in 1 .. Len(a.content) : a.content[k] = e.bytes[k]
  /\ a.whole => Len(a.content) = Len(e.bytes)

\* Anything else promises nothing, and has none of the formats that are given a
\* number in a name.
Unknown(a) ==
  /\ ~a.whole /\ a.meant = <<>>
  /\ \A k \in 1 .. Len(a.content) : \A n \in 0 .. Len(a.content) - k :
       FormatIn([j \in 1 .. n |-> a.content[k + j].v]) \notin GivenOnes

ASSUME EncodingAssumption ==
  /\ \A e \in Encodings : WellEncoded(e)
  /\ \A answers \in Replies : \A k \in 1 .. Len(answers) :
       Unknown(answers[k]) \/ \E e \in Encodings : Carries(answers[k], e)
=============================================================================
