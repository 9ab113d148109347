--------------------------- MODULE DisplayAnswers ---------------------------
(***************************************************************************)
(* Answers of devices, put together from pieces as DisplayEncoding has it. *)
(* Each piece is some bytes with the cells a reader should get from them,  *)
(* the parts they are made of, and which of these are its outermost ones.  *)
(***************************************************************************)
EXTENDS DisplayEncoding

Piece(bytes, cells, parts, tops) == [bytes |-> bytes, cells |-> cells, parts |-> parts, tops |-> tops]
Silent(bytes) == Piece(bytes, <<>>, <<>>, <<>>)
One(bytes, fmt, val) ==
  [Silent(bytes) EXCEPT
     !.cells = <<[fmt |-> fmt, val |-> val, at |-> 1, end |-> Len(bytes), row |-> 0]>>]

\* Pieces behind each other.
Renumbered(ks, by) == [k \in DOMAIN ks |-> ks[k] + by]
MovedCells(cells, by) ==
  [k \in DOMAIN cells |-> [cells[k] EXCEPT !.at = @ + by, !.end = @ + by]]
MovedParts(parts, p) ==
  [k \in DOMAIN parts |->
     [parts[k] EXCEPT !.at = @ + Len(p.bytes), !.end = @ + Len(p.bytes),
                      !.before = @ + Len(p.cells), !.upto = @ + Len(p.cells),
                      !.kids = Renumbered(@, Len(p.parts))]]
Cat(p, q) ==
  Piece(p.bytes \o q.bytes, p.cells \o MovedCells(q.cells, Len(p.bytes)),
        p.parts \o MovedParts(q.parts, p), p.tops \o Renumbered(q.tops, Len(p.parts)))
Join(pieces) == FoldLeft(Cat, Silent(<<>>), pieces)
InRow(p, r) == [p EXCEPT !.cells = [k \in DOMAIN @ |-> [@[k] EXCEPT !.row = r]]]
Rows(pieces) == Join([r \in DOMAIN pieces |-> InRow(pieces[r], r)])
Tagged(t, n, p) == Cat(Silent(<<Byte(t, n)>>), p)

\* A piece becomes a part, of which its outermost parts are the kids.
InStyle(p, kind, fmt, style, heads) ==
  [p EXCEPT !.parts = Append(@, [kind |-> kind, style |-> style, fmt |-> fmt, heads |-> heads,
                                 at |-> 1, end |-> Len(p.bytes) + 1,
                                 before |-> 0, upto |-> Len(p.cells), kids |-> p.tops]),
            !.tops = <<Len(p.parts) + 1>>]
As(p, kind, fmt) == InStyle(p, kind, fmt, "", <<>>)
ValuePart(p) == As(p, "value", NoFormat)
SpecialPart(fmt, p) == As(p, "special", fmt)
InColumn(fmt, p) == [p EXCEPT !.parts[p.tops[1]].fmt = fmt]

Num(v) == Byte("uint", v)
Nums(vals) == [k \in DOMAIN vals |-> Num(vals[k])]
Bytes(vals) == <<Byte("str", Len(vals))>> \o Nums(vals)
NumArray(vals) == <<Byte("array", Len(vals))>> \o Nums(vals)
ArrayOf(pieces) == ValuePart(Tagged("array", Len(pieces), Join(pieces)))
\* x, x%l, x%z (a letter without a meaning).
NameOf(fmt) == Silent(Bytes(<<120>> \o IF fmt = NoFormat THEN <<>>
                            ELSE <<Percent, IF fmt = "?" THEN 122 ELSE Code[fmt]>>))

PlainNum(v) == ValuePart(One(<<Num(v)>>, NoFormat, <<v>>))
PlainText == ValuePart(One(Bytes(<<120, 121>>), NoFormat, <<120, 121>>))
NoElements == ValuePart(One(<<Byte("array", 0)>>, NoFormat, <<>>))
GivenTo(fmt, v, val) == ValuePart(One(<<Num(v)>>, fmt, val))
Unused(v) == ValuePart(Silent(<<Num(v)>>))
Counter == ValuePart(Tagged("array", 3, SpecialPart("c", One(Nums(<<18, 5, 6>>), "c", <<2, 5, 6>>))))
UnshownCounter == ValuePart(Tagged("array", 3, SpecialPart("c", Silent(Nums(<<15, 5, 6>>)))))

\* A value of each format that reads for itself.
ReadAs(fmt, bytes, val) == SpecialPart(fmt, One(bytes, fmt, val))
NumsFor(fmt, vals) == ReadAs(fmt, NumArray(vals), vals)
StringsFor(fmt) ==
  ReadAs(fmt, <<Byte("array", 2)>> \o Bytes(<<1, 2>>) \o Bytes(<<3, 4>>), <<1, 2, 3, 4>>)
CodeFor(fmt, v, val) == ReadAs(fmt, <<Num(v)>>, val)
EntriesFor(fmt, entries) ==
  SpecialPart(fmt, Tagged("array", Len(entries),
    Join([k \in DOMAIN entries |-> As(One(NumArray(entries[k]), fmt, entries[k]), "entry", fmt)])))
Ports == <<1, 16, 2, 0, 0, 0, 5>>
SelfRead ==
  [s |-> <<NumsFor("s", <<1, 4, 2>>), NumsFor("s", <<7>>)>>,
   D |-> <<NumsFor("D", <<1, 2, 3, 4>>)>>,
   V |-> <<NumsFor("V", <<0, 3, 9>>)>>,
   i |-> <<NumsFor("i", <<8, 9>>)>>,
   I |-> <<StringsFor("I")>>,
   m |-> <<StringsFor("m")>>,
   f |-> <<CodeFor("f", 1, <<1>>), CodeFor("f", 9, <<>>)>>,
   b |-> <<CodeFor("b", 1, <<1>>)>>,
   L |-> <<CodeFor("L", 2, <<2>>)>>,
   v |-> <<CodeFor("v", 0, <<0>>)>>,
   A |-> <<CodeFor("A", 2, <<2>>)>>,
   F |-> <<CodeFor("F", 1, <<1>>)>>,
   O |-> <<CodeFor("O", 1, <<1>>)>>,
   t |-> <<CodeFor("t", 1, <<1>>)>>,
   p |-> <<SpecialPart("p", Tagged("array", 1, One(NumArray(Ports), "p", Ports)))>>,
   u |-> <<EntriesFor("u", <<<<1, 7, 8>>, <<2, 7, 8>>>>), EntriesFor("u", <<>>)>>,
   P |-> <<EntriesFor("P", <<<<1, 0>>, <<2, 1>>>>)>>,
   a |-> <<EntriesFor("a", <<<<1, 2>>>>)>>]
Sampled == DOMAIN SelfRead
Samples(fmt) == {SelfRead[fmt][k] : k \in DOMAIN SelfRead[fmt]}

PairOf(fmt, p) == As(Cat(NameOf(fmt), p), "pair", NoFormat)
NumberedPair(key, p) == As(Cat(key, p), "pair", NoFormat)
MapOf(pairs) == ValuePart(Tagged("map", Len(pairs), Join(pairs)))
SparseCell(key, p) == Tagged("map", 1, Cat(Silent(<<Num(key)>>), p))

\* What is behind the head of an answer, as a whole.
Answer(p, n, type) ==
  LET whole == As(Cat(Silent(<<Byte("array", n), Num(HeadType[type])>>), p), "answer", NoFormat)
  IN  [bytes |-> whole.bytes, meant |-> whole.cells, parts |-> whole.parts]
Element(p) == As(p, "element", NoFormat)
Listing(elements, type) ==
  Answer(Rows([k \in DOMAIN elements |-> Element(elements[k])]), 1 + Len(elements), type)

\* The cells of a row stand in columns, or name theirs.
Placing(fmts, cells, style) ==
  IF style = "table" THEN [k \in DOMAIN cells |-> InColumn(fmts[k], cells[k])]
  ELSE [k \in DOMAIN cells |-> InStyle(cells[k], "sparse", NoFormat, "", fmts)]
RowOf(fmts, cells, style) ==
  InStyle(Tagged("array", Len(cells), Join(Placing(fmts, cells, style))), "row", NoFormat, style, fmts)
ListOfRows(fmts, rows, style) ==
  LET names == Join([k \in DOMAIN fmts |-> As(NameOf(fmts[k]), "name", fmts[k])])
  IN  InStyle(Tagged("array", Len(fmts),
                     Cat(names, Rows([r \in DOMAIN rows |-> RowOf(fmts, rows[r], style)]))),
              "list", NoFormat, style, <<>>)
Table(fmts, rows) == Answer(ListOfRows(fmts, rows, "table"), 2 + Len(rows), "table")
Sparse(fmts, rows) == Answer(ListOfRows(fmts, rows, "sparse"), 2 + Len(rows), "sparse")
\* Each group or block is a domain with rows of its own.
GroupOf(domain, fmts, rows) ==
  As(Tagged("array", 2 + Len(rows), Cat(domain, ListOfRows(fmts, rows, "table"))), "group", NoFormat)
Line(p) == As(p, "line", NoFormat)
BlockOf(domain, lines) ==
  As(Tagged("array", 1 + Len(lines), Cat(domain, Rows([k \in DOMAIN lines |-> Line(lines[k])]))),
     "block", NoFormat)

LinkRow(l, s) ==
  <<GivenTo("l", l, <<l>>), GivenTo("S", s, IF l = 1 THEN SpeedWord(s) ELSE <<>>),
    GivenTo("d", 1, IF l = 1 THEN <<1>> ELSE <<>>)>>
Sent(e) == [rv |-> 0, filled |-> TRUE, whole |-> TRUE, content |-> e.bytes, meant |-> e.meant]
Cut(e, n) == [Sent(e) EXCEPT !.whole = FALSE, !.content = SubSeq(@, 1, n)]
Refusal == [rv |-> 1, filled |-> FALSE, whole |-> FALSE, content |-> <<>>, meant |-> <<>>]
Done == [Refusal EXCEPT !.rv = 0]
=============================================================================
