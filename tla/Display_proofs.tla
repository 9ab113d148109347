--------------------------- MODULE Display_proofs ---------------------------
(***************************************************************************)
(* Proofs about the display of an answer, for every sequence of answers,   *)
(* whatever tags they are made of and wherever they are cut, and for every *)
(* table of codes.  The first part is about types and needs the invariant  *)
(* DisplayInv; the second shows, with OrderInv on top of it, that what is  *)
(* printed stands in the answer and comes in its order; the third, with    *)
(* LinkInv, that a speed goes by the link of its row.                      *)
(***************************************************************************)
EXTENDS Display, SequenceTheorems, TLAPS

-----------------------------------------------------------------------------
(* The types of the frames of the stack and of what is printed. *)

\* The formats a column or a key may have.
HeadFormats == Formats \cup {NoFormat, "?"}

Work == {"answer", "elements", "list", "names", "rows", "cells", "groups", "blocks", "lines",
         "again", "newline", "cell", "unpack", "special", "values", "pairs", "entries"}

Frame == [do: Work, n: Int, heads: Seq(HeadFormats), style: {"", "table", "sparse"},
          fmt: HeadFormats, tag: Tag, at: Nat, last: Seq(Nat)]

Printed == [fmt: Formats \cup {NoFormat}, val: Seq(Nat), at: Nat, line: Nat]

LEMMA NilType == Nil \in Tag /\ Nil.t = "nil"
BY DEF Nil, Byte, Tag

LEMMA FrameType ==
  ASSUME NEW do \in Work, NEW n \in Int
  PROVE  Task(do, n) \in Frame /\ Task(do, n).do = do
<1>1. NoFormat \in HeadFormats
  BY DEF HeadFormats
<1> QED
  BY <1>1, NilType DEF Task, Frame

LEMMA FormatType == ASSUME NEW text PROVE FormatIn(text) \in HeadFormats
BY DEF FormatIn, HeadFormats

LEMMA NamedFormats ==
  {"l", "o", "S", "d", "s", "D", "i", "I", "m", "c", "p", "u", "P", "a", "f", "b",
   "L", "v", "A", "F", "V", "O", "t"} = Formats
BY DEF Formats, Code

LEMMA NotAFormat == NoFormat \notin Formats /\ "?" \notin Formats /\ NoFormat # "?"
<1>1. NoFormat \notin Formats
  BY NamedFormats, Zenon DEF NoFormat
<1>2. "?" \notin Formats
  BY NamedFormats, Zenon
<1>3. NoFormat # "?"
  BY Zenon DEF NoFormat
<1> QED
  BY <1>1, <1>2, <1>3

-----------------------------------------------------------------------------
(* The stack. *)

\* The formats of the lists.
Listed == {"p", "u", "P", "a"}

\* A frame that may stand anywhere.
Sound(f) == f \in Frame /\ f.do # "names" /\ (f.do = "entries" => f.fmt \in Listed)

\* The names of the columns are pushed together with the rows they belong to.
Stacked(s) ==
  /\ s \in Seq(Frame)
  /\ \A k \in 1..Len(s) :
       /\ s[k].do = "names" => k < Len(s)
       /\ s[k].do = "entries" => s[k].fmt \in Listed

LEMMA Nothing == Stacked(<<>>)
BY DEF Stacked

LEMMA OneFrame == ASSUME NEW a, Sound(a) PROVE Stacked(<<a>>)
BY DEF Stacked, Sound

LEMMA TwoStacks == ASSUME NEW a, NEW b, Stacked(a), Stacked(b) PROVE Stacked(a \o b)
<1> DEFINE s == a \o b
<1>1. a \in Seq(Frame) /\ b \in Seq(Frame) /\ Len(a) \in Nat /\ Len(b) \in Nat
  BY DEF Stacked
<1>2. /\ s \in Seq(Frame) /\ Len(s) = Len(a) + Len(b)
      /\ \A k \in 1..Len(s) : s[k] = IF k <= Len(a) THEN a[k] ELSE b[k - Len(a)]
  BY <1>1, ConcatProperties
<1> HIDE DEF s
<1>3. ASSUME NEW k \in 1..Len(s)
      PROVE  (s[k].do = "names" => k < Len(s)) /\ (s[k].do = "entries" => s[k].fmt \in Listed)
  <2>1. CASE k <= Len(a)
    <3>1. k \in 1..Len(a) /\ s[k] = a[k]
      BY <1>1, <1>2, <2>1
    <3> QED
      BY <1>1, <1>2, <3>1 DEF Stacked
  <2>2. CASE ~(k <= Len(a))
    <3>1. k - Len(a) \in 1..Len(b) /\ s[k] = b[k - Len(a)]
      BY <1>1, <1>2, <2>2
    <3> QED
      BY <1>1, <1>2, <3>1 DEF Stacked
  <2> QED
    BY <2>1, <2>2
<1> QED
  BY <1>2, <1>3 DEF Stacked, s

LEMMA TwoFrames == ASSUME NEW a, NEW b, Sound(a), Sound(b) PROVE Stacked(<<a, b>>)
BY DEF Stacked, Sound

LEMMA ThreeFrames ==
  ASSUME NEW a, NEW b, NEW c, Sound(a), Sound(b), Sound(c)
  PROVE  Stacked(<<a, b, c>>)
BY DEF Stacked, Sound

LEMMA FiveFrames ==
  ASSUME NEW a, NEW b, NEW c, NEW d, NEW e, Sound(a), Sound(b), Sound(c), Sound(d), Sound(e)
  PROVE  Stacked(<<a, b, c, d, e>>)
BY DEF Stacked, Sound

LEMMA TopFrame ==
  ASSUME NEW s, Stacked(s), s # <<>>
  PROVE  /\ Head(s) \in Frame /\ Head(s) = s[1] /\ Stacked(Tail(s))
         /\ Head(s).do = "entries" => Head(s).fmt \in Listed
         /\ Head(s).do = "names" => Len(s) >= 2
<1>1. s \in Seq(Frame) /\ 1 \in 1..Len(s) /\ Head(s) = s[1] /\ Len(s) \in Nat
  BY DEF Stacked
<1>2. /\ Tail(s) \in Seq(Frame) /\ Len(Tail(s)) = Len(s) - 1
      /\ \A k \in 1..Len(Tail(s)) : Tail(s)[k] = s[k + 1] /\ k + 1 \in 1..Len(s)
  BY <1>1
<1>3. Stacked(Tail(s))
  BY <1>1, <1>2 DEF Stacked
<1> QED
  BY <1>1, <1>3 DEF Stacked

-----------------------------------------------------------------------------
(* The reader. *)

Placed == showing => res # <<>> /\ pos \in 1..Len(Content) + 1

DisplayInv ==
  /\ res \in Seq(Reply) /\ showing \in BOOLEAN /\ err \in BOOLEAN /\ port_link_flag \in {0, 1}
  /\ pos \in Nat /\ line \in Nat
  /\ Placed /\ Stacked(todo)
  /\ out \in Seq(Printed) /\ \A k \in 1..Len(out) : out[k].line <= line

LEMMA ContentType ==
  ASSUME res \in Seq(Reply), res # <<>>
  PROVE  Content \in Seq(Tag)
<1>1. Head(res) \in Reply
  OBVIOUS
<1> QED
  BY <1>1 DEF Reply, Content

LEMMA AheadType ==
  ASSUME DisplayInv, showing, NEW k \in Nat
  PROVE  /\ Ahead(k) \in Tag /\ Ahead(k).v \in Nat
         /\ Ahead(k).t # "nil" => ~err /\ pos + k <= Len(Content)
<1>1. Content \in Seq(Tag) /\ pos \in 1..Len(Content) + 1
  BY ContentType DEF DisplayInv, Placed
<1>2. Ahead(k) \in Tag /\ (Ahead(k).t # "nil" => ~err /\ pos + k <= Len(Content))
  <2> HIDE DEF Content
  <2> QED
    BY <1>1, NilType DEF Ahead
<1> QED
  BY <1>2 DEF Tag

\* Where the reader may be after a step.
ReaderKept == err' \in BOOLEAN /\ pos' \in 1..Len(Content) + 1

LEMMA ReadKeeps ==
  ASSUME DisplayInv, showing, NEW n \in Nat, Read(n)
  PROVE  ReaderKept
<1>1. Content \in Seq(Tag) /\ pos \in 1..Len(Content) + 1
  BY ContentType DEF DisplayInv, Placed
<1> QED
  BY <1>1 DEF Read, Readable, ReaderKept

LEMMA ExpectKeeps ==
  ASSUME DisplayInv, showing, NEW types \in Seq({"uint", "str", "array", "map"}), types # <<>>,
         Expect(types)
  PROVE  ReaderKept
<1> DEFINE n == Len(types)
<1>1. Content \in Seq(Tag) /\ pos \in 1..Len(Content) + 1
  BY ContentType DEF DisplayInv, Placed
<1>2. n \in Nat \ {0} /\ types[n] # "nil"
  OBVIOUS
<1>3. ASSUME Agree(types, n) PROVE pos + n - 1 <= Len(Content)
  <2>1. n - 1 \in Nat /\ n \in 1..n
    BY <1>2
  <2>2. Ahead(n - 1).t # "nil"
    BY <1>2, <1>3, <2>1 DEF Agree
  <2>3. pos + (n - 1) <= Len(Content)
    BY <2>1, <2>2, AheadType
  <2> QED
    BY <1>1, <1>2, <2>3
<1>4. err' = (err \/ ~Agree(types, n)) /\ pos' = IF err' THEN pos ELSE pos + n
  BY DEF Expect
<1>5. err' \in BOOLEAN /\ (~err' => pos + n - 1 <= Len(Content))
  BY <1>3, <1>4
<1> HIDE DEF n
<1> QED
  BY <1>1, <1>2, <1>4, <1>5 DEF ReaderKept

LEMMA ExpectedType ==
  ASSUME DisplayInv, showing, NEW types, NEW n \in Nat \ {0}
  PROVE  Expected(types, n) \in Nat
<1>1. n - 1 \in Nat
  OBVIOUS
<1> QED
  BY <1>1, AheadType DEF Expected

LEMMA NumbersType ==
  ASSUME DisplayInv, showing, NEW k \in Nat, NEW n \in Nat
  PROVE  Numbers(k, n) \in Seq(Nat) /\ Len(Numbers(k, n)) = n
<1>1. \A j \in 1..n : k + j - 1 \in Nat
  OBVIOUS
<1>2. \A j \in 1..n : Ahead(k + j - 1).v \in Nat
  BY <1>1, AheadType
<1>3. Numbers(k, n) \in [1..n -> Nat]
  BY <1>2 DEF Numbers
<1> QED
  BY <1>3, SeqDef

LEMMA TextType ==
  ASSUME DisplayInv, showing, NEW k \in Nat, NEW n \in Nat
  PROVE  Text(k, n) \in Seq(Nat)
BY NumbersType DEF Text

-----------------------------------------------------------------------------
(* A step of the task on top. *)
LEMMA StackStep ==
  ASSUME DisplayInv, showing, UNCHANGED outer, Stacked(todo'),
         ReaderKept \/ UNCHANGED reader, port_link_flag' \in {0, 1},
         \/ UNCHANGED shown
         \/ UNCHANGED line /\ \E c \in Printed : c.line = line /\ out' = Append(out, c)
  PROVE  DisplayInv'
<1>1. Content' = Content /\ showing' = showing /\ res' = res
  BY DEF outer, Content
<1>2. Placed' /\ err' \in BOOLEAN /\ pos' \in Nat
  <2>1. Content \in Seq(Tag)
    BY ContentType DEF DisplayInv, Placed
  <2> QED
    BY <1>1, <2>1 DEF DisplayInv, Placed, ReaderKept, reader
<1>3. /\ line' \in Nat /\ out' \in Seq(Printed)
      /\ \A k \in 1..Len(out') : out'[k].line <= line'
  <2>1. CASE UNCHANGED shown
    BY <2>1 DEF shown, DisplayInv
  <2>2. CASE UNCHANGED line /\ \E c \in Printed : c.line = line /\ out' = Append(out, c)
    <3>1. PICK c \in Printed : c.line = line /\ out' = Append(out, c)
      BY <2>2
    <3> QED
      BY <2>2, <3>1 DEF DisplayInv
  <2> QED
    BY <2>1, <2>2
<1> QED
  BY <1>1, <1>2, <1>3 DEF DisplayInv

\* Most tasks are replaced by others.
LEMMA TaskStep ==
  ASSUME DisplayInv, showing, todo # <<>>, UNCHANGED outer,
         NEW tasks, Stacked(tasks), Then(tasks),
         ReaderKept \/ UNCHANGED reader, port_link_flag' \in {0, 1},
         \/ UNCHANGED shown
         \/ UNCHANGED line /\ \E c \in Printed : c.line = line /\ out' = Append(out, c)
  PROVE  DisplayInv'
<1>1. Stacked(todo')
  BY TopFrame, TwoStacks DEF DisplayInv, Then
<1> QED
  BY <1>1, StackStep

-----------------------------------------------------------------------------
(* The frames that the actions push. *)
LEMMA TaskSound ==
  ASSUME NEW do \in Work \ {"names", "entries"}, NEW n \in Int
  PROVE  Sound(Task(do, n)) /\ Sound(NewLine)
<1>1. Task(do, n) \in Frame /\ Task(do, n).do = do
  BY FrameType
<1>2. "newline" \in Work /\ 1 \in Int /\ NewLine = Task("newline", 1)
  BY DEF Work, NewLine
<1>3. NewLine \in Frame /\ NewLine.do = "newline"
  BY <1>2, FrameType
<1> QED
  BY <1>1, <1>3 DEF Sound

LEMMA CellSound == ASSUME NEW fmt \in HeadFormats PROVE Sound(Cell(fmt))
<1> DEFINE f == Task("cell", 1)
<1>1. f \in Frame /\ f.do = "cell"
  BY FrameType DEF Work
<1> HIDE DEF f
<1>2. [f EXCEPT !.fmt = fmt] \in Frame /\ [f EXCEPT !.fmt = fmt].do = "cell"
  BY <1>1 DEF Frame
<1> QED
  BY <1>2 DEF Sound, Cell, f

LEMMA UnpackSound ==
  ASSUME NEW tag \in Tag, NEW fmt \in HeadFormats, NEW at \in Nat
  PROVE  Sound(Unpack(tag, fmt, at)) /\ Sound(ByFormat(fmt, tag, at))
<1> DEFINE f == Task("unpack", 1)
           g == [f EXCEPT !.tag = tag, !.fmt = fmt, !.at = at]
           h == [g EXCEPT !.do = "special"]
<1>1. f \in Frame /\ f.do = "unpack"
  BY FrameType DEF Work
<1> HIDE DEF f
<1>2. g \in Frame /\ g.do = "unpack"
  BY <1>1 DEF Frame
<1> HIDE DEF g
<1>3. h \in Frame /\ h.do = "special"
  BY <1>2 DEF Frame, Work
<1>4. Sound(g) /\ Sound(h)
  BY <1>2, <1>3 DEF Sound
<1> QED
  BY <1>4, Zenon DEF Unpack, ByFormat, f, g

LEMMA ListSound ==
  ASSUME NEW style \in {"table", "sparse"}, NEW n \in Int
  PROVE  Sound(List(style, n))
<1> DEFINE f == Task("list", n)
<1>1. f \in Frame /\ f.do = "list"
  BY FrameType DEF Work
<1> HIDE DEF f
<1>2. [f EXCEPT !.style = style] \in Frame /\ [f EXCEPT !.style = style].do = "list"
  BY <1>1 DEF Frame
<1> QED
  BY <1>2 DEF Sound, List, f

\* The task on top.
LEMMA TopSound ==
  ASSUME DisplayInv, NEW do, Doing(do)
  PROVE  /\ showing /\ todo # <<>> /\ Top \in Frame /\ Top.do = do
         /\ Fewer \in Frame /\ Fewer.do = do
         /\ do # "names" => Sound(Top) /\ Sound(Fewer)
<1>1. showing /\ todo # <<>> /\ Stacked(todo) /\ Top.do = do
  BY DEF DisplayInv, Doing, Top
<1>2. Top \in Frame /\ (do = "entries" => Top.fmt \in Listed)
  BY <1>1, TopFrame DEF Top
<1>3. Fewer \in Frame /\ Fewer.do = do /\ Fewer.fmt = Top.fmt
  <2> DEFINE t == Top
             m == t.n - 1
             f == [t EXCEPT !.n = m]
  <2>1. t \in Frame /\ t.do = do
    BY <1>1, <1>2
  <2>2. m \in Int
    <3>1. t.n \in Int
      BY <1>2 DEF Frame
    <3> HIDE DEF t
    <3> QED
      BY <3>1
  <2> HIDE DEF t, m
  <2>3. f \in Frame
    BY <2>1, <2>2 DEF Frame
  <2>4. f.do = do /\ f.fmt = t.fmt
    BY <2>1 DEF Frame
  <2> HIDE DEF f
  <2> QED
    BY <2>3, <2>4, Zenon DEF Fewer, t, m, f
<1> QED
  BY <1>1, <1>2, <1>3 DEF Sound

\* What reads nothing and prints nothing.
LEMMA QuietTask ==
  ASSUME DisplayInv, showing, todo # <<>>, NEW tasks, Stacked(tasks), Then(tasks),
         UNCHANGED <<outer, reader, port_link_flag, shown>>
  PROVE  DisplayInv'
<1>1. port_link_flag' \in {0, 1} /\ UNCHANGED outer /\ UNCHANGED reader /\ UNCHANGED shown
  BY DEF DisplayInv
<1> QED
  BY <1>1, TaskStep

\* What reads and prints nothing.
LEMMA ReadingTask ==
  ASSUME DisplayInv, showing, todo # <<>>, NEW tasks, Stacked(tasks), Then(tasks), ReaderKept,
         UNCHANGED <<outer, port_link_flag, shown>>
  PROVE  DisplayInv'
<1>1. port_link_flag' \in {0, 1} /\ UNCHANGED outer /\ UNCHANGED shown
  BY DEF DisplayInv
<1> QED
  BY <1>1, TaskStep

\* What prints a cell.
LEMMA PrintingTask ==
  ASSUME DisplayInv, showing, todo # <<>>, UNCHANGED outer,
         NEW fmt \in Formats \cup {NoFormat}, NEW val \in Seq(Nat), NEW at \in Nat,
         PrintCell(fmt, val, at),
         NEW tasks, Stacked(tasks), Then(tasks),
         ReaderKept \/ UNCHANGED reader, port_link_flag' \in {0, 1}
  PROVE  DisplayInv'
<1> DEFINE c == [fmt |-> fmt, val |-> val, at |-> at, line |-> line]
<1>1. c \in Printed /\ c.line = line
  BY DEF Printed, DisplayInv
<1>2. UNCHANGED line /\ out' = Append(out, c)
  BY DEF PrintCell
<1> HIDE DEF c
<1> QED
  BY <1>1, <1>2, TaskStep

-----------------------------------------------------------------------------
(* The actions. *)
LEMMA AnswerSteps ==
  ASSUME DisplayInv, BeginAnswer \/ SetOk \/ Refused \/ EndAnswer
  PROVE  DisplayInv'
<1>1. CASE BeginAnswer
  <2>1. Content \in Seq(Tag) /\ Content' = Content
    BY <1>1, ContentType DEF BeginAnswer, Content, DisplayInv
  <2>2. Stacked(todo')
    <3>1. Sound(Task("answer", 1))
      BY TaskSound DEF Work
    <3> QED
      BY <1>1, <3>1, OneFrame DEF BeginAnswer
  <2>3. /\ showing' = TRUE /\ pos' = 1 /\ err' = FALSE /\ line' = 0 /\ out' = <<>> /\ res # <<>>
        /\ UNCHANGED <<res, port_link_flag>>
    BY <1>1 DEF BeginAnswer
  <2>4. Placed'
    BY <2>1, <2>3 DEF Placed
  <2>5. out' \in Seq(Printed) /\ Len(out') = 0
    BY <2>3
  <2>6. \A k \in 1..Len(out') : out'[k].line <= line'
    BY <2>5
  <2>7. res' \in Seq(Reply) /\ port_link_flag' \in {0, 1}
    BY <2>3 DEF DisplayInv
  <2> QED
    BY <2>2, <2>3, <2>4, <2>5, <2>6, <2>7 DEF DisplayInv
<1>2. CASE SetOk \/ Refused
  <2>1. /\ ~showing' /\ res' \in Seq(Reply)
        /\ UNCHANGED <<showing, reader, todo, port_link_flag, shown>>
    <3>1. res \in Seq(Reply)
      BY DEF DisplayInv
    <3>2. CASE SetOk
      BY <3>1, <3>2 DEF SetOk
    <3>3. CASE Refused
      BY <3>1, <3>3 DEF Refused
    <3> QED
      BY <1>2, <3>2, <3>3
  <2> QED
    BY <2>1 DEF DisplayInv, Placed, reader, shown
<1>3. CASE EndAnswer
  <2>1. /\ showing' = FALSE /\ pos' = 1 /\ err' = FALSE /\ res' \in Seq(Reply)
        /\ UNCHANGED <<todo, port_link_flag, shown>>
    BY <1>3 DEF EndAnswer, DisplayInv, Placed
  <2> QED
    BY <2>1 DEF DisplayInv, Placed, shown
<1> QED
  BY <1>1, <1>2, <1>3

LEMMA LayoutSound ==
  ASSUME NEW type, NEW n \in Int
  PROVE  Stacked(Layout(type, n))
<1>1. n - 1 \in Int /\ n - 2 \in Int
  OBVIOUS
<1>2. /\ Sound(Task("elements", n - 1)) /\ Sound(Task("groups", n - 1))
      /\ Sound(Task("blocks", n - 1))
      /\ Sound(List("table", n - 2)) /\ Sound(List("sparse", n - 2))
  BY <1>1, TaskSound, ListSound DEF Work
<1>3. /\ Stacked(<<Task("elements", n - 1)>>) /\ Stacked(<<Task("groups", n - 1)>>)
      /\ Stacked(<<Task("blocks", n - 1)>>) /\ Stacked(<<List("table", n - 2)>>)
      /\ Stacked(<<List("sparse", n - 2)>>)
  BY <1>2, OneFrame
<1> QED
  BY <1>3, Nothing, Zenon DEF Layout

LEMMA ExpectOne ==
  ASSUME DisplayInv, showing, NEW type \in {"uint", "str", "array", "map"}, Expect(<<type>>)
  PROVE  ReaderKept /\ Expected(<<type>>, 1) \in Nat
<1>1. <<type>> \in Seq({"uint", "str", "array", "map"}) /\ <<type>> # <<>>
  OBVIOUS
<1>2. ReaderKept
  BY <1>1, ExpectKeeps
<1>3. Expected(<<type>>, 1) \in Nat
  BY ExpectedType
<1> QED
  BY <1>2, <1>3

LEMMA NoFormatType == NoFormat \in HeadFormats /\ NoFormat \in Formats \cup {NoFormat}
BY DEF HeadFormats

LEMMA HeadAtType ==
  ASSUME NEW heads \in Seq(HeadFormats), NEW j, NEW fmt \in HeadAt(heads, j)
  PROVE  fmt \in HeadFormats
BY DEF HeadAt, HeadFormats

\* One more name of a column is known.
LEMMA Headed ==
  ASSUME NEW f \in Frame, NEW fmt \in HeadFormats
  PROVE  LET g == [f EXCEPT !.heads = Append(@, fmt)]
         IN  g \in Frame /\ g.do = f.do /\ g.fmt = f.fmt /\ g.tag = f.tag /\ g.at = f.at
<1> DEFINE h == Append(f.heads, fmt)
           g == [f EXCEPT !.heads = h]
<1>1. h \in Seq(HeadFormats)
  <2>1. f.heads \in Seq(HeadFormats)
    BY DEF Frame
  <2> QED
    BY <2>1
<1> HIDE DEF h
<1>2. g \in Frame
  BY <1>1 DEF Frame
<1>3. g.do = f.do /\ g.fmt = f.fmt /\ g.tag = f.tag /\ g.at = f.at
  BY DEF Frame
<1> QED
  BY <1>2, <1>3, Zenon DEF h

\* The two tasks on top are replaced by two others.
LEMMA TwoReplaced ==
  ASSUME NEW s \in Seq(Frame), Len(s) >= 2, NEW a \in Frame, NEW b \in Frame,
         NEW t, t = <<a, b>> \o SubSeq(s, 3, Len(s))
  PROVE  /\ t \in Seq(Frame) /\ Len(t) = Len(s) /\ t[1] = a /\ t[2] = b
         /\ \A k \in 1..Len(t) : k > 2 => t[k] = s[k]
<1> DEFINE rest == SubSeq(s, 3, Len(s))
           pair == <<a, b>>
<1>1. Len(s) \in Nat
  OBVIOUS
<1>2. /\ rest \in Seq(Frame) /\ Len(rest) = Len(s) - 2
      /\ \A k \in 1..Len(rest) : rest[k] = s[k + 2]
  <2>1. 3 \in Int /\ Len(s) \in Int /\ \A k \in 3..Len(s) : s[k] \in Frame
    BY <1>1
  <2>2. /\ rest \in Seq(Frame) /\ Len(rest) = IF 3 <= Len(s) THEN Len(s) - 3 + 1 ELSE 0
        /\ \A k \in 1..(Len(s) - 3 + 1) : rest[k] = s[3 + k - 1]
    BY <2>1, SubSeqProperties
  <2> HIDE DEF rest
  <2>3. Len(rest) = Len(s) - 2
    BY <1>1, <2>2, SMTT(30)
  <2>4. ASSUME NEW k \in 1..Len(rest) PROVE rest[k] = s[k + 2]
    <3>1. k \in 1..(Len(s) - 3 + 1) /\ 3 + k - 1 = k + 2
      BY <1>1, <2>3
    <3> QED
      BY <2>2, <3>1
  <2> QED
    BY <2>2, <2>3, <2>4
<1>3. pair \in Seq(Frame) /\ Len(pair) = 2 /\ pair[1] = a /\ pair[2] = b /\ t = pair \o rest
  OBVIOUS
<1> HIDE DEF pair, rest
<1>4. /\ pair \o rest \in Seq(Frame) /\ Len(pair \o rest) = Len(s)
      /\ \A k \in 1..Len(s) : (pair \o rest)[k] = IF k <= 2 THEN pair[k] ELSE rest[k - 2]
  BY <1>1, <1>2, <1>3
<1>5. \A k \in 1..Len(s) : k > 2 => k - 2 \in 1..Len(rest) /\ (k - 2) + 2 = k
  BY <1>1, <1>2
<1> QED
  BY <1>1, <1>2, <1>3, <1>4, <1>5, SMTT(30)

LEMMA NameStep == ASSUME DisplayInv, Name PROVE DisplayInv'
<1> DEFINE length == Expected(<<"str">>, 1)
           fmt == FormatIn(Text(1, length))
           rows == [todo[2] EXCEPT !.heads = Append(@, fmt)]
<1>1. /\ showing /\ todo # <<>> /\ Top.do = "names" /\ Fewer \in Frame /\ Fewer.do = "names"
  BY TopSound DEF Name
<1>2. todo \in Seq(Frame) /\ Len(todo) \in Nat /\ Len(todo) >= 2 /\ Stacked(todo)
  BY <1>1, TopFrame DEF DisplayInv, Stacked, Top
<1>3. length \in Nat /\ Content \in Seq(Tag) /\ pos \in 1..Len(Content) + 1
  BY <1>1, ExpectedType, ContentType DEF DisplayInv, Placed
<1>4. /\ err' = (Ahead(0).t # "str" \/ ~Readable(1 + length))
      /\ pos' = IF err' THEN pos ELSE pos + 1 + length
      /\ todo' = <<Fewer, rows>> \o SubSeq(todo, 3, Len(todo))
      /\ UNCHANGED <<outer, port_link_flag, shown>>
  BY Zenon DEF Name
<1>5. ReaderKept
  <2> HIDE DEF length, rows
  <2>1. ~err' => Readable(1 + length)
    BY <1>4, Zenon
  <2>2. Readable(1 + length) => pos + 1 + length <= Len(Content) + 1
    BY <1>3 DEF Readable
  <2> QED
    BY <1>3, <1>4, <2>1, <2>2 DEF ReaderKept
<1>6. Stacked(todo')
  <2>1. fmt \in HeadFormats /\ todo[2] \in Frame
    BY <1>2, FormatType
  <2> HIDE DEF length, fmt
  <2>2. rows \in Frame /\ rows.do = todo[2].do /\ rows.fmt = todo[2].fmt
    BY <2>1, Headed
  <2> HIDE DEF rows
  <2>4. /\ todo' \in Seq(Frame) /\ Len(todo') = Len(todo)
        /\ todo'[1] = Fewer /\ todo'[2] = rows
        /\ \A k \in 1..Len(todo') : k > 2 => todo'[k] = todo[k]
    BY <1>1, <1>2, <1>4, <2>2, TwoReplaced, SMTT(30)
  <2>5. ASSUME NEW k \in 1..Len(todo')
        PROVE  /\ todo'[k].do = "names" => k < Len(todo')
               /\ todo'[k].do = "entries" => todo'[k].fmt \in Listed
    <3>1. CASE k = 1
      BY <1>1, <1>2, <2>4, <3>1
    <3>2. CASE k = 2
      BY <1>2, <2>2, <2>4, <3>2 DEF Stacked
    <3>3. CASE k > 2
      BY <1>2, <2>4, <3>3 DEF Stacked
    <3> QED
      BY <1>2, <2>4, <3>1, <3>2, <3>3
  <2> QED
    BY <2>4, <2>5 DEF Stacked
<1>7. UNCHANGED outer /\ UNCHANGED shown /\ port_link_flag' \in {0, 1}
  BY <1>4 DEF DisplayInv
<1> QED
  BY <1>1, <1>5, <1>6, <1>7, StackStep

\* What the actions change of a frame.
LEMMA Renamed ==
  ASSUME NEW f \in Frame, NEW do \in Work \ {"names", "entries"}, NEW n \in Int
  PROVE  Sound([f EXCEPT !.do = do, !.n = n])
<1> DEFINE g == [f EXCEPT !.do = do, !.n = n]
<1>1. g \in Frame /\ g.do = do
  BY DEF Frame
<1> HIDE DEF g
<1> QED
  BY <1>1 DEF Sound, g

LEMMA Styled ==
  ASSUME NEW do \in Work, NEW n \in Int, NEW style \in {"", "table", "sparse"}
  PROVE  /\ [Task(do, n) EXCEPT !.style = style] \in Frame
         /\ [Task(do, n) EXCEPT !.style = style].do = do
<1> DEFINE f == Task(do, n)
<1>1. f \in Frame /\ f.do = do
  BY FrameType
<1> HIDE DEF f
<1>2. [f EXCEPT !.style = style] \in Frame /\ [f EXCEPT !.style = style].do = do
  BY <1>1 DEF Frame
<1> QED
  BY <1>2 DEF f

LEMMA ListNamesStep == ASSUME DisplayInv, ListNames PROVE DisplayInv'
<1> DEFINE n == Expected(<<"array">>, 1)
           names == [Task("names", n) EXCEPT !.style = Top.style]
           rows == [Task("rows", Top.n) EXCEPT !.style = Top.style]
           above == IF Top.style = "sparse" THEN <<>> ELSE <<NewLine>>
<1>1. showing /\ todo # <<>> /\ Top \in Frame
  BY TopSound DEF ListNames
<1>2. ReaderKept /\ n \in Nat
  BY <1>1, ExpectOne DEF ListNames
<1>3. Top.n \in Int /\ Top.style \in {"", "table", "sparse"}
  BY <1>1 DEF Frame
<1>4. names \in Frame /\ names.do = "names" /\ rows \in Frame /\ rows.do = "rows"
  <2>1. n \in Int /\ "names" \in Work /\ "rows" \in Work
    BY <1>2 DEF Work
  <2> HIDE DEF n
  <2> QED
    BY <1>3, <2>1, Styled
<1>5. Stacked(<<names, rows>>)
  <2> HIDE DEF names, rows
  <2> QED
    BY <1>4 DEF Stacked
<1>6. Stacked(above)
  <2>1. Sound(NewLine)
    BY TaskSound DEF Work
  <2> QED
    BY <2>1, OneFrame, Nothing
<1>7. Then(above \o <<names, rows>>) /\ UNCHANGED <<outer, port_link_flag, shown>>
  BY Zenon DEF ListNames
<1> HIDE DEF names, rows, above
<1>8. Stacked(above \o <<names, rows>>)
  BY <1>5, <1>6, TwoStacks
<1> QED
  BY <1>1, <1>2, <1>7, <1>8, ReadingTask

LEMMA RowStep == ASSUME DisplayInv, Row PROVE DisplayInv'
<1> DEFINE cells == [Top EXCEPT !.do = "cells", !.n = Ahead(0).v]
<1>1. showing /\ todo # <<>> /\ Top \in Frame /\ Sound(Fewer)
  BY TopSound DEF Row
<1>2. ReaderKept
  BY <1>1, ReadKeeps DEF Row
<1>3. Sound(cells) /\ Sound(NewLine)
  <2>1. Ahead(0).v \in Int /\ "cells" \in Work \ {"names", "entries"}
    BY <1>1, AheadType DEF Work
  <2> QED
    BY <1>1, <2>1, Renamed, TaskSound
<1>4. Then(<<cells, NewLine, Fewer>>) /\ UNCHANGED <<outer, port_link_flag, shown>>
  BY Zenon DEF Row
<1> HIDE DEF cells
<1>5. Stacked(<<cells, NewLine, Fewer>>)
  BY <1>1, <1>3, ThreeFrames
<1> QED
  BY <1>1, <1>2, <1>4, <1>5, ReadingTask

LEMMA CellOfTableStep == ASSUME DisplayInv, CellOfTable PROVE DisplayInv'
<1> DEFINE rest == [Fewer EXCEPT !.heads = IF @ = <<>> THEN @ ELSE Tail(@)]
<1>1. showing /\ todo # <<>> /\ Top \in Frame /\ Fewer \in Frame /\ Fewer.do = "cells"
  BY TopSound DEF CellOfTable
<1>2. Top.heads \in Seq(HeadFormats)
  BY <1>1 DEF Frame
<1>3. Sound(rest)
  <2> DEFINE f == Fewer
             h == IF f.heads = <<>> THEN f.heads ELSE Tail(f.heads)
  <2>1. f \in Frame /\ f.do = "cells"
    BY <1>1
  <2> HIDE DEF f
  <2>2. h \in Seq(HeadFormats)
    <3>1. f.heads \in Seq(HeadFormats)
      BY <2>1 DEF Frame
    <3> QED
      BY <3>1
  <2> HIDE DEF h
  <2>3. [f EXCEPT !.heads = h] \in Frame /\ [f EXCEPT !.heads = h].do = "cells"
    BY <2>1, <2>2 DEF Frame
  <2>4. Sound([f EXCEPT !.heads = h])
    BY <2>3 DEF Sound
  <2> QED
    BY <2>4, Zenon DEF f, h
<1> HIDE DEF rest
<1>4. PICK fmt \in HeadAt(Top.heads, 1) : Then(<<Cell(fmt), rest>>)
  BY Zenon DEF CellOfTable, rest
<1>5. Sound(Cell(fmt))
  BY <1>2, HeadAtType, CellSound
<1>6. Stacked(<<Cell(fmt), rest>>)
  BY <1>3, <1>5, TwoFrames
<1>7. UNCHANGED <<outer, reader, port_link_flag, shown>>
  BY DEF CellOfTable
<1> QED
  BY <1>1, <1>4, <1>6, <1>7, QuietTask

LEMMA CellOfSparseStep == ASSUME DisplayInv, CellOfSparse PROVE DisplayInv'
<1>1. showing /\ todo # <<>> /\ Top \in Frame /\ Sound(Fewer)
  BY TopSound DEF CellOfSparse
<1>2. Top.heads \in Seq(HeadFormats)
  BY <1>1 DEF Frame
<1>3. ReaderKept
  BY <1>1, ReadKeeps DEF CellOfSparse
<1>4. PICK fmt \in HeadAt(Top.heads, Ahead(1).v) :
        Then(<<IF fmt = NoFormat THEN Cell(fmt) ELSE ByFormat(fmt, Nil, 0), Fewer>>)
  BY DEF CellOfSparse
<1>5. Sound(Cell(fmt)) /\ Sound(ByFormat(fmt, Nil, 0))
  BY <1>2, HeadAtType, CellSound, UnpackSound, NilType
<1>6. Stacked(<<IF fmt = NoFormat THEN Cell(fmt) ELSE ByFormat(fmt, Nil, 0), Fewer>>)
  BY <1>1, <1>5, TwoFrames
<1>7. UNCHANGED <<outer, port_link_flag, shown>>
  BY DEF CellOfSparse
<1> QED
  BY <1>1, <1>3, <1>4, <1>6, <1>7, ReadingTask

LEMMA ElementsStep == ASSUME DisplayInv, Elements PROVE DisplayInv'
<1>1. showing /\ todo # <<>> /\ Sound(Fewer)
  BY TopSound DEF Elements
<1>2. Sound(Cell(NoFormat)) /\ Sound(NewLine)
  BY CellSound, NoFormatType, TaskSound DEF Work
<1>3. Stacked(<<Cell(NoFormat), NewLine, Fewer>>)
  BY <1>1, <1>2, ThreeFrames
<1> QED
  BY <1>1, <1>3, QuietTask DEF Elements

LEMMA GroupStep == ASSUME DisplayInv, Group PROVE DisplayInv'
<1> DEFINE num == Expected(<<"array">>, 1)
<1>1. showing /\ todo # <<>> /\ Sound(Fewer)
  BY TopSound DEF Group
<1>2. ReaderKept /\ num \in Nat
  BY <1>1, ExpectOne DEF Group
<1>3. Sound(Cell(NoFormat)) /\ Sound(List("table", num - 2))
  <2>1. num - 2 \in Int
    BY <1>2
  <2> QED
    BY <2>1, CellSound, NoFormatType, ListSound
<1>4. Then(<<Cell(NoFormat), List("table", num - 2), Fewer>>)
        /\ UNCHANGED <<outer, port_link_flag, shown>>
  BY Zenon DEF Group
<1> HIDE DEF num
<1>5. Stacked(<<Cell(NoFormat), List("table", num - 2), Fewer>>)
  BY <1>1, <1>3, ThreeFrames
<1> QED
  BY <1>1, <1>2, <1>4, <1>5, ReadingTask

LEMMA BlockStep == ASSUME DisplayInv, Block PROVE DisplayInv'
<1> DEFINE num == Expected(<<"array">>, 1)
<1>1. showing /\ todo # <<>> /\ Sound(Fewer)
  BY TopSound DEF Block
<1>2. ReaderKept /\ num \in Nat
  BY <1>1, ExpectOne DEF Block
<1>3. Sound(Cell(NoFormat)) /\ Sound(Task("lines", num - 1)) /\ Sound(NewLine)
  <2>1. num - 1 \in Int
    BY <1>2
  <2> QED
    BY <2>1, CellSound, NoFormatType, TaskSound DEF Work
<1>4. Then(<<Cell(NoFormat), NewLine, Task("lines", num - 1), NewLine, Fewer>>)
        /\ UNCHANGED <<outer, port_link_flag, shown>>
  BY Zenon DEF Block
<1> HIDE DEF num
<1>5. Stacked(<<Cell(NoFormat), NewLine, Task("lines", num - 1), NewLine, Fewer>>)
  BY <1>1, <1>3, FiveFrames
<1> QED
  BY <1>1, <1>2, <1>4, <1>5, ReadingTask

LEMMA LineOfBlockStep == ASSUME DisplayInv, LineOfBlock PROVE DisplayInv'
<1> DEFINE again == [Task("again", Ahead(0).v) EXCEPT !.tag = Ahead(0), !.at = pos]
<1>1. showing /\ todo # <<>> /\ Sound(Fewer)
  BY TopSound DEF LineOfBlock
<1>2. ReaderKept
  BY <1>1, ReadKeeps DEF LineOfBlock
<1>3. Sound(again) /\ Sound(NewLine)
  <2> DEFINE f == Task("again", Ahead(0).v)
  <2>1. Ahead(0).v \in Int /\ Ahead(0) \in Tag /\ pos \in Nat
    BY <1>1, AheadType DEF DisplayInv
  <2>2. f \in Frame /\ f.do = "again"
    BY <2>1, FrameType DEF Work
  <2> HIDE DEF f
  <2>3. [f EXCEPT !.tag = Ahead(0), !.at = pos] \in Frame
          /\ [f EXCEPT !.tag = Ahead(0), !.at = pos].do = "again"
    BY <2>1, <2>2 DEF Frame
  <2>4. Sound([f EXCEPT !.tag = Ahead(0), !.at = pos])
    BY <2>3 DEF Sound
  <2> QED
    <3>1. Sound(again)
      BY <2>4, Zenon DEF f
    <3>2. Sound(NewLine)
      BY TaskSound DEF Work
    <3> QED
      BY <3>1, <3>2
<1>4. Then(<<again, NewLine, Fewer>>) /\ UNCHANGED <<outer, port_link_flag, shown>>
  BY Zenon DEF LineOfBlock
<1> HIDE DEF again
<1>5. Stacked(<<again, NewLine, Fewer>>)
  BY <1>1, <1>3, ThreeFrames
<1> QED
  BY <1>1, <1>2, <1>4, <1>5, ReadingTask

LEMMA AgainStep == ASSUME DisplayInv, Again PROVE DisplayInv'
<1>1. showing /\ todo # <<>> /\ Sound(Fewer) /\ Top \in Frame
  BY TopSound DEF Again
<1>2. Top.tag \in Tag /\ Top.at \in Nat
  BY <1>1 DEF Frame
<1>3. Stacked(<<Unpack(Top.tag, NoFormat, Top.at), Fewer>>)
  BY <1>1, <1>2, UnpackSound, NoFormatType, TwoFrames
<1> QED
  BY <1>1, <1>3, QuietTask DEF Again

LEMMA LayoutSteps ==
  ASSUME DisplayInv, Layouts
  PROVE  DisplayInv'
<1>1. CASE ProcessShowCmds
  <2> DEFINE types == <<"array", "uint">>
             tasks == Layout(Expected(types, 2), Expected(types, 1))
  <2>1. showing /\ todo # <<>>
    BY <1>1, TopSound DEF ProcessShowCmds
  <2>2. types \in Seq({"uint", "str", "array", "map"}) /\ types # <<>>
    OBVIOUS
  <2>3. Expect(types) /\ Then(tasks) /\ UNCHANGED <<outer, port_link_flag, shown>>
    BY <1>1, Zenon DEF ProcessShowCmds
  <2> HIDE DEF types
  <2>4. ReaderKept /\ Expected(types, 1) \in Int
    BY <2>1, <2>2, <2>3, ExpectKeeps, ExpectedType
  <2>5. Stacked(tasks)
    BY <2>4, LayoutSound
  <2> QED
    BY <2>1, <2>3, <2>4, <2>5, ReadingTask
<1>2. CASE Elements
  BY <1>2, ElementsStep
<1>3. CASE ListNames
  BY <1>3, ListNamesStep
<1>4. CASE Name
  BY <1>4, NameStep
<1>5. CASE Row
  BY <1>5, RowStep
<1>6. CASE CellOfTable
  BY <1>6, CellOfTableStep
<1>7. CASE CellOfSparse
  BY <1>7, CellOfSparseStep
<1>8. CASE Group
  BY <1>8, GroupStep
<1>9. CASE Block
  BY <1>9, BlockStep
<1>10. CASE LineOfBlock
  BY <1>10, LineOfBlockStep
<1>11. CASE Again
  BY <1>11, AgainStep
<1>12. CASE LoopEnds
  BY <1>12, Nothing, QuietTask DEF LoopEnds
<1>13. CASE EndLine
  <2>1. showing /\ todo # <<>> /\ Stacked(Tail(todo))
    BY <1>13, TopFrame DEF EndLine, Doing, DisplayInv
  <2>2. todo' = Tail(todo)
    BY <1>13, <2>1 DEF EndLine, Then, Stacked
  <2>3. line' = line + 1 /\ UNCHANGED <<res, showing, pos, err, port_link_flag, out>>
    BY <1>13 DEF EndLine, outer, reader
  <2>4. \A k \in 1..Len(out) : out[k].line <= line + 1
    <3>1. \A k \in 1..Len(out) : out[k].line \in Nat /\ out[k].line <= line
      <4>1. out \in Seq(Printed) /\ \A k \in 1..Len(out) : out[k].line <= line
        BY DEF DisplayInv
      <4>2. ASSUME NEW k \in 1..Len(out) PROVE out[k].line \in Nat
        <5>1. out[k] \in Printed
          BY <4>1
        <5> QED
          BY <5>1 DEF Printed
      <4> QED
        BY <4>1, <4>2
    <3> QED
      BY <3>1 DEF DisplayInv
  <2>5. Placed'
    BY <2>3 DEF DisplayInv, Placed, Content
  <2> QED
    BY <2>1, <2>2, <2>3, <2>4, <2>5 DEF DisplayInv
<1> QED
  BY <1>1, <1>2, <1>3, <1>4, <1>5, <1>6, <1>7, <1>8, <1>9, <1>10, <1>11, <1>12, <1>13 DEF Layouts

\* What there is on top of the stack.
LEMMA TopFields ==
  ASSUME Top \in Frame
  PROVE  /\ Top.n \in Int /\ Top.tag \in Tag /\ Top.tag.v \in Nat /\ Top.at \in Nat
         /\ Top.fmt \in HeadFormats /\ Top.last \in Seq(Nat)
<1>1. /\ Top.n \in Int /\ Top.tag \in Tag /\ Top.at \in Nat
      /\ Top.fmt \in HeadFormats /\ Top.last \in Seq(Nat)
  BY DEF Frame
<1> QED
  BY <1>1 DEF Tag

LEMMA UnpackSteps ==
  ASSUME DisplayInv, UnpackByType
  PROVE  DisplayInv'
<1>1. CASE ReadCell
  <2>1. showing /\ todo # <<>> /\ Top \in Frame
    BY <1>1, TopSound DEF ReadCell
  <2>2. ReaderKept /\ Ahead(0) \in Tag /\ pos \in Nat /\ Top.fmt \in HeadFormats
    BY <1>1, <2>1, ReadKeeps, AheadType, TopFields DEF ReadCell, DisplayInv
  <2>3. Stacked(<<Unpack(Ahead(0), Top.fmt, pos)>>)
    BY <2>2, UnpackSound, OneFrame
  <2> QED
    BY <1>1, <2>1, <2>2, <2>3, ReadingTask DEF ReadCell
<1>2. CASE Number \/ String \/ Array \/ Map \/ OtherType
  <2>1. showing /\ todo # <<>> /\ Top \in Frame
    BY <1>2, TopSound DEF Number, String, Array, Map, OtherType, HasTask
  <2>2. /\ Top.tag \in Tag /\ Top.tag.v \in Nat /\ Top.at \in Nat /\ Top.fmt \in HeadFormats
        /\ port_link_flag \in {0, 1}
    BY <2>1, TopFields DEF DisplayInv
  <2>3. /\ Stacked(<<ByFormat(Top.fmt, Top.tag, Top.at)>>)
        /\ Stacked(<<ByFormat(Top.fmt, Nil, Top.at)>>)
        /\ Stacked(<<Task("values", Top.tag.v)>>) /\ Stacked(<<Task("pairs", Top.tag.v)>>)
    <3>1. Sound(Task("values", Top.tag.v)) /\ Sound(Task("pairs", Top.tag.v))
      BY <2>2, TaskSound DEF Work
    <3> QED
      BY <2>2, <3>1, UnpackSound, NilType, OneFrame
  <2>4. /\ <<Top.tag.v>> \in Seq(Nat) /\ <<>> \in Seq(Nat)
        /\ Text(0, Top.tag.v) \in Seq(Nat)
    <3>1. Text(0, Top.tag.v) \in Seq(Nat)
      BY <2>1, <2>2, TextType
    <3> QED
      BY <2>2, <3>1
  <2>5. CASE Number
    <3>1. UNCHANGED outer /\ UNCHANGED reader /\ port_link_flag' = port_link_flag
      BY <2>5 DEF Number
    <3>2. CASE Top.fmt = NoFormat
      <4>1. PrintCell(NoFormat, <<Top.tag.v>>, Top.at) /\ Then(<<>>)
        BY <2>5, <3>2 DEF Number
      <4> QED
        BY <2>1, <2>2, <2>4, <3>1, <4>1, Nothing, NoFormatType, PrintingTask
    <3>3. CASE Top.fmt # NoFormat
      <4>1. Then(<<ByFormat(Top.fmt, Top.tag, Top.at)>>) /\ UNCHANGED shown
        BY <2>5, <3>3 DEF Number
      <4> QED
        BY <2>1, <2>3, <3>1, <4>1, QuietTask
    <3> QED
      BY <3>2, <3>3
  <2>6. CASE String
    <3>1. UNCHANGED outer /\ ReaderKept /\ port_link_flag' = port_link_flag
      BY <2>1, <2>2, <2>6, ReadKeeps DEF String
    <3>2. CASE Top.fmt = NoFormat
      <4>1. PrintCell(NoFormat, Text(0, Top.tag.v), Top.at) /\ Then(<<>>)
        BY <2>6, <3>2 DEF String
      <4> QED
        BY <2>1, <2>2, <2>4, <3>1, <4>1, Nothing, NoFormatType, PrintingTask
    <3>3. CASE Top.fmt # NoFormat
      <4>1. Then(<<ByFormat(Top.fmt, Nil, Top.at)>>) /\ UNCHANGED shown
        BY <2>6, <3>3 DEF String
      <4> QED
        BY <2>1, <2>3, <3>1, <4>1, ReadingTask
    <3> QED
      BY <3>2, <3>3
  <2>7. CASE Array
    <3>1. UNCHANGED outer /\ UNCHANGED reader /\ port_link_flag' = port_link_flag
      BY <2>7 DEF Array
    <3>2. CASE Top.tag.v = 0
      <4>1. PrintCell(NoFormat, <<>>, Top.at) /\ Then(<<>>)
        BY <2>7, <3>2 DEF Array
      <4> QED
        BY <2>1, <2>2, <2>4, <3>1, <4>1, Nothing, NoFormatType, PrintingTask
    <3>3. CASE Top.tag.v # 0
      <4> DEFINE tasks == IF Top.fmt = NoFormat THEN <<Task("values", Top.tag.v)>>
                          ELSE <<ByFormat(Top.fmt, Nil, Top.at)>>
      <4>1. Then(tasks) /\ UNCHANGED shown
        BY <2>7, <3>3 DEF Array
      <4>2. Stacked(tasks)
        BY <2>3
      <4> HIDE DEF tasks
      <4> QED
        BY <2>1, <3>1, <4>1, <4>2, QuietTask
    <3> QED
      BY <3>2, <3>3
  <2>8. CASE Map
    BY <2>1, <2>3, <2>8, QuietTask DEF Map
  <2>9. CASE OtherType
    BY <2>1, <2>9, Nothing, QuietTask DEF OtherType
  <2> QED
    BY <1>2, <2>5, <2>6, <2>7, <2>8, <2>9
<1>3. CASE Value
  <2>1. showing /\ todo # <<>> /\ Sound(Fewer) /\ Sound(Cell(NoFormat))
    BY <1>3, TopSound, CellSound, NoFormatType DEF Value
  <2>2. Stacked(<<Cell(NoFormat), Fewer>>)
    BY <2>1, TwoFrames
  <2> QED
    BY <1>3, <2>1, <2>2, QuietTask DEF Value
<1>4. CASE Pair
  <2> DEFINE key == Ahead(0)
             fmt == FormatIn(Text(1, key.v))
             next == IF fmt = NoFormat THEN Cell(NoFormat) ELSE ByFormat(fmt, Nil, 0)
  <2>1. showing /\ todo # <<>> /\ Sound(Fewer)
    BY <1>4, TopSound DEF Pair
  <2>2. key \in Tag /\ key.v \in Nat /\ pos \in Nat /\ fmt \in HeadFormats
    BY <2>1, AheadType, FormatType DEF DisplayInv
  <2>3. /\ Sound(Cell(NoFormat)) /\ Sound(Unpack(key, NoFormat, pos)) /\ Sound(next)
    BY <2>2, CellSound, UnpackSound, NoFormatType, NilType
  <2>4. /\ IF key.t # "str"
           THEN Read(1) /\ Then(<<Unpack(key, NoFormat, pos), Cell(NoFormat), Fewer>>)
           ELSE Read(1 + key.v) /\ Then(<<next, Fewer>>)
        /\ UNCHANGED <<outer, port_link_flag, shown>>
    BY <1>4, Zenon DEF Pair
  <2> HIDE DEF key, fmt, next
  <2>5. ReaderKept
    <3>1. 1 \in Nat /\ 1 + key.v \in Nat
      BY <2>2
    <3> QED
      BY <2>1, <2>4, <3>1, ReadKeeps
  <2>6. Stacked(<<Unpack(key, NoFormat, pos), Cell(NoFormat), Fewer>>) /\ Stacked(<<next, Fewer>>)
    BY <2>1, <2>3, TwoFrames, ThreeFrames
  <2> QED
    BY <2>1, <2>4, <2>5, <2>6, ReadingTask
<1> QED
  BY <1>1, <1>2, <1>3, <1>4 DEF UnpackByType

-----------------------------------------------------------------------------
(* The formats. *)
LEMMA SpecialTop ==
  ASSUME DisplayInv, NEW fmts, Special(fmts)
  PROVE  /\ showing /\ todo # <<>> /\ Top \in Frame /\ Top.fmt \in fmts
         /\ Top.tag.v \in Nat /\ Top.at \in Nat /\ pos \in Nat /\ port_link_flag \in {0, 1}
<1>1. showing /\ todo # <<>> /\ Top \in Frame
  BY TopSound DEF Special
<1> QED
  BY <1>1, TopFields DEF Special, DisplayInv

\* A format that shows what it was given, or what it has read.
LEMMA ShowingStep ==
  ASSUME DisplayInv, NEW fmts \in SUBSET Formats, Special(fmts),
         NEW val \in Seq(Nat), NEW at \in Nat, Shows(val, at), UNCHANGED outer,
         ReaderKept \/ UNCHANGED reader, port_link_flag' \in {0, 1}
  PROVE  DisplayInv'
<1>1. showing /\ todo # <<>> /\ Top.fmt \in Formats \cup {NoFormat}
  BY SpecialTop
<1>2. PrintCell(Top.fmt, val, at) /\ Then(<<>>)
  BY DEF Shows
<1> QED
  BY <1>1, <1>2, Nothing, PrintingTask

LEMMA TakingStep ==
  ASSUME DisplayInv, NEW fmts \in SUBSET Formats, Special(fmts),
         NEW n \in Nat, NEW val \in Seq(Nat), Takes(n, val)
  PROVE  DisplayInv'
<1>1. showing /\ pos \in Nat /\ port_link_flag \in {0, 1}
  BY SpecialTop
<1>2. Read(n) /\ Shows(val, pos) /\ UNCHANGED outer /\ port_link_flag' = port_link_flag
  BY DEF Takes
<1>3. ReaderKept
  BY <1>1, <1>2, ReadKeeps
<1> QED
  BY <1>1, <1>2, <1>3, ShowingStep

\* An array that is checked as it is read.
LEMMA CheckedStep ==
  ASSUME DisplayInv, NEW fmts \in SUBSET Formats, Special(fmts),
         NEW n \in Nat \ {0}, Checked(n)
  PROVE  DisplayInv'
<1> DEFINE types == <<"array">> \o [j \in 1 .. n |-> "uint"]
           right == Ahead(0) = Byte("array", n)
           val == [j \in 1 .. n |-> IF right THEN Expected(types, j + 1) ELSE 0]
<1>1. showing /\ pos \in Nat /\ port_link_flag \in {0, 1}
  BY SpecialTop
<1>2. Content \in Seq(Tag) /\ pos \in 1..Len(Content) + 1
  BY <1>1, ContentType DEF DisplayInv, Placed
<1>3. types[n + 1] = "uint"
  <2> DEFINE uints == [j \in 1 .. n |-> "uint"]
  <2>1. uints \in Seq({"uint", "array"}) /\ Len(uints) = n /\ uints[n] = "uint"
    <3>1. uints \in [1..n -> {"uint", "array"}]
      OBVIOUS
    <3> QED
      BY <3>1, SeqDef
  <2>2. <<"array">> \in Seq({"uint", "array"}) /\ Len(<<"array">>) = 1
    OBVIOUS
  <2> HIDE DEF uints
  <2>3. (<<"array">> \o uints)[n + 1] = uints[n]
    BY <2>1, <2>2
  <2> QED
    BY <2>1, <2>3 DEF uints
<1>4. /\ err' = (~right \/ ~Agree(types, n + 1))
      /\ pos' = IF err' THEN pos ELSE pos + n + 1
      /\ Shows(val, pos) /\ UNCHANGED outer /\ port_link_flag' = port_link_flag
  BY Zenon DEF Checked
<1>5. Agree(types, n + 1) => pos + n <= Len(Content)
  <2>1. Agree(types, n + 1) => Ahead((n + 1) - 1).t = types[n + 1]
    <3>1. n + 1 \in 1..(n + 1)
      OBVIOUS
    <3> QED
      BY <3>1, Zenon DEF Agree
  <2> HIDE DEF types
  <2>2. (n + 1) - 1 = n
    OBVIOUS
  <2> QED
    BY <1>1, <1>3, <2>1, <2>2, AheadType
<1>6. val \in Seq(Nat)
  <2>1. ASSUME NEW j \in 1..n PROVE Expected(types, j + 1) \in Nat
    <3> HIDE DEF types
    <3>1. j + 1 \in Nat \ {0}
      OBVIOUS
    <3> QED
      BY <1>1, <3>1, ExpectedType
  <2> HIDE DEF types, right
  <2>2. val \in [1..n -> Nat]
    BY <2>1
  <2> QED
    BY <2>2, SeqDef
<1> HIDE DEF types, right, val
<1>7. ReaderKept
  <2>1. err' \in BOOLEAN /\ (~err' => pos + n <= Len(Content))
    BY <1>4, <1>5
  <2> QED
    BY <1>2, <1>4, <2>1 DEF ReaderKept
<1> QED
  BY <1>1, <1>4, <1>6, <1>7, ShowingStep

LEMMA TwoStringsStep ==
  ASSUME DisplayInv, NEW fmts \in SUBSET Formats, Special(fmts), TwoStrings
  PROVE  DisplayInv'
<1> DEFINE first == Ahead(1).v
           second == Ahead(2 + first).v
           val == Text(2, first) \o Text(3 + first, second)
<1>1. showing
  BY SpecialTop
<1>2. first \in Nat
  BY <1>1, AheadType
<1>3. second \in Nat
  <2> HIDE DEF first
  <2>1. 2 + first \in Nat
    BY <1>2
  <2> QED
    BY <1>1, <2>1, AheadType
<1>4. Takes(3 + first + second, val)
  BY Zenon DEF TwoStrings
<1> HIDE DEF first, second
<1>5. 3 + first \in Nat /\ 3 + first + second \in Nat /\ 2 \in Nat
  BY <1>2, <1>3
<1>6. val \in Seq(Nat)
  <2>1. Text(2, first) \in Seq(Nat) /\ Text(3 + first, second) \in Seq(Nat)
    BY <1>1, <1>2, <1>3, <1>5, TextType
  <2> QED
    BY <2>1, ConcatProperties
<1> HIDE DEF val
<1> QED
  BY <1>4, <1>5, <1>6, TakingStep

LEMMA CodeStep ==
  ASSUME DisplayInv, NEW fmts \in SUBSET Formats, CodeOf(fmts)
  PROVE  DisplayInv'
<1>1. showing /\ Special(fmts)
  BY SpecialTop DEF CodeOf
<1>2. Ahead(0).v \in Nat
  BY <1>1, AheadType
<1>3. Word(Top.fmt, Ahead(0).v) \in Seq(Nat)
  BY <1>2 DEF Word
<1> QED
  BY <1>1, <1>3, TakingStep DEF CodeOf

LEMMA ListStep ==
  ASSUME DisplayInv, NEW fmts \in SUBSET Listed, ListOf(fmts)
  PROVE  DisplayInv'
<1> DEFINE f == Top
           n == Ahead(0).v
           g == [f EXCEPT !.do = "entries", !.n = n, !.at = pos]
<1>1. showing /\ todo # <<>> /\ f \in Frame /\ f.fmt \in Listed /\ pos \in Nat
  BY SpecialTop DEF ListOf
<1>2. ReaderKept /\ n \in Int
  BY <1>1, ReadKeeps, AheadType DEF ListOf
<1>3. Then(<<g>>) /\ UNCHANGED <<outer, port_link_flag, shown>>
  BY Zenon DEF ListOf
<1> HIDE DEF f, n
<1>4. g \in Frame /\ g.fmt = f.fmt /\ g.do = "entries"
  BY <1>1, <1>2 DEF Frame, Work
<1> HIDE DEF g
<1>5. Stacked(<<g>>)
  <2>1. Sound(g)
    BY <1>1, <1>4 DEF Sound
  <2> QED
    BY <2>1, OneFrame
<1> QED
  BY <1>1, <1>2, <1>3, <1>5, ReadingTask

LEMMA EntryStep == ASSUME DisplayInv, Entry PROVE DisplayInv'
<1> DEFINE size == EntrySize[Top.fmt]
           val == Numbers(1, size)
           next == [Fewer EXCEPT !.last = val, !.at = pos]
<1>1. /\ showing /\ todo # <<>> /\ Sound(Fewer) /\ Fewer \in Frame /\ Fewer.do = "entries"
      /\ Sound(Top) /\ Top.do = "entries" /\ pos \in Nat /\ port_link_flag \in {0, 1}
  BY TopSound DEF Entry, DisplayInv
<1>2. Top.fmt \in Listed /\ Listed \subseteq Formats
  BY <1>1, NamedFormats DEF Sound, Listed
<1>3. size \in Nat /\ 1 + size \in Nat
  BY <1>2 DEF Listed, EntrySize
<1>4. /\ Read(1 + size)
      /\ IF Top.fmt = "p" THEN Then(<<next>>) /\ UNCHANGED shown
         ELSE PrintCell(Top.fmt, val, pos) /\ Then(<<Fewer>>)
      /\ UNCHANGED outer /\ port_link_flag' = port_link_flag
  BY Zenon DEF Entry
<1> HIDE DEF size
<1>5. ReaderKept /\ val \in Seq(Nat)
  BY <1>1, <1>3, <1>4, ReadKeeps, NumbersType
<1> HIDE DEF val
<1>6. CASE Top.fmt = "p"
  <2>1. Sound(next)
    <3> DEFINE f == Fewer
    <3>1. f \in Frame /\ f.do = "entries" /\ f.fmt \in Listed
      BY <1>1 DEF Sound
    <3> HIDE DEF f
    <3>2. /\ [f EXCEPT !.last = val, !.at = pos] \in Frame
          /\ [f EXCEPT !.last = val, !.at = pos].do = "entries"
          /\ [f EXCEPT !.last = val, !.at = pos].fmt = f.fmt
      BY <1>1, <1>5, <3>1 DEF Frame
    <3>3. Sound([f EXCEPT !.last = val, !.at = pos])
      BY <3>1, <3>2 DEF Sound
    <3> QED
      BY <3>3, Zenon DEF f
  <2> HIDE DEF next
  <2>2. Stacked(<<next>>)
    BY <2>1, OneFrame
  <2> QED
    BY <1>1, <1>4, <1>5, <1>6, <2>2, ReadingTask
<1>7. CASE Top.fmt # "p"
  <2>1. Stacked(<<Fewer>>) /\ Top.fmt \in Formats \cup {NoFormat}
    BY <1>1, <1>2, OneFrame
  <2>2. /\ PrintCell(Top.fmt, val, pos) /\ Then(<<Fewer>>)
        /\ UNCHANGED outer /\ port_link_flag' \in {0, 1}
    BY <1>1, <1>4, <1>7
  <2> QED
    BY <1>1, <1>5, <2>1, <2>2, PrintingTask
<1> QED
  BY <1>6, <1>7

LEMMA EntriesEndStep == ASSUME DisplayInv, EntriesEnd PROVE DisplayInv'
<1>1. /\ showing /\ todo # <<>> /\ Top.at \in Nat /\ Top.last \in Seq(Nat)
      /\ port_link_flag \in {0, 1}
  BY TopSound, TopFields DEF EntriesEnd, DisplayInv
<1>2. Then(<<>>) /\ UNCHANGED <<outer, reader, port_link_flag>>
  BY DEF EntriesEnd
<1>3. CASE UNCHANGED shown
  BY <1>1, <1>2, <1>3, Nothing, QuietTask
<1>4. CASE ~UNCHANGED shown
  <2>1. PICK ports \in [1 .. 4 -> Garbage] :
          PrintCell("p", IF Top.last = <<>> THEN <<0, 0>> \o ports \o <<0>> ELSE Top.last, Top.at)
    BY <1>4, Zenon DEF EntriesEnd
  <2> DEFINE val == IF Top.last = <<>> THEN <<0, 0>> \o ports \o <<0>> ELSE Top.last
  <2>2. val \in Seq(Nat)
    <3>1. ports \in Seq(Nat)
      <4>1. ports \in [1..4 -> Nat] /\ 4 \in Nat
        BY DisplayAssumption
      <4> QED
        BY <4>1, SeqDef
    <3>2. <<0, 0>> \in Seq(Nat) /\ <<0>> \in Seq(Nat)
      OBVIOUS
    <3>3. <<0, 0>> \o ports \o <<0>> \in Seq(Nat)
      BY <3>1, <3>2, ConcatProperties
    <3> QED
      BY <1>1, <3>3
  <2>3. PrintCell("p", val, Top.at)
    BY <2>1
  <2> HIDE DEF val
  <2>4. "p" \in Formats \cup {NoFormat}
    BY NamedFormats
  <2>5. UNCHANGED outer /\ UNCHANGED reader /\ port_link_flag' \in {0, 1}
    BY <1>1, <1>2
  <2> QED
    BY <1>1, <1>2, <2>2, <2>3, <2>4, <2>5, Nothing, PrintingTask
<1> QED
  BY <1>3, <1>4

\* A word of one number, or nothing.
LEMMA OneNumber == ASSUME NEW v \in Nat PROVE <<v>> \in Seq(Nat) /\ <<>> \in Seq(Nat)
OBVIOUS

LEMMA GivenSteps ==
  ASSUME DisplayInv, Link \/ Switch \/ Speed \/ Duplex
  PROVE  DisplayInv'
<1>0. {"l"} \in SUBSET Formats /\ {"o"} \in SUBSET Formats /\ {"S"} \in SUBSET Formats
        /\ {"d"} \in SUBSET Formats
  BY NamedFormats
<1>1. CASE Link
  <2>1. Special({"l"}) /\ Top.at \in Nat
    BY <1>1, SpecialTop DEF Link
  <2>2. port_link_flag' \in {0, 1} /\ Shows(<<port_link_flag'>>, Top.at)
          /\ UNCHANGED outer /\ UNCHANGED reader
    BY <1>1 DEF Link
  <2>3. <<port_link_flag'>> \in Seq(Nat)
    BY <2>2, OneNumber
  <2> QED
    BY <1>0, <2>1, <2>2, <2>3, ShowingStep
<1>2. CASE Switch
  <2> DEFINE val == <<IF Top.tag.v # 0 THEN 1 ELSE 0>>
  <2>1. Special({"o"}) /\ Top.at \in Nat /\ port_link_flag \in {0, 1}
    BY <1>2, SpecialTop DEF Switch
  <2>2. /\ Shows(val, Top.at) /\ UNCHANGED outer /\ UNCHANGED reader
        /\ port_link_flag' = port_link_flag
    BY <1>2 DEF Switch
  <2>3. val \in Seq(Nat)
    BY OneNumber
  <2> HIDE DEF val
  <2> QED
    BY <1>0, <2>1, <2>2, <2>3, ShowingStep
<1>3. CASE Speed
  <2> DEFINE val == IF port_link_flag = 1 THEN SpeedWord(Top.tag.v) ELSE <<>>
  <2>1. Special({"S"}) /\ Top.at \in Nat /\ port_link_flag \in {0, 1} /\ Top.tag.v \in Nat
    BY <1>3, SpecialTop DEF Speed
  <2>2. /\ Shows(val, Top.at) /\ UNCHANGED outer /\ UNCHANGED reader
        /\ port_link_flag' = port_link_flag
    BY <1>3 DEF Speed
  <2>3. val \in Seq(Nat)
    BY <2>1, OneNumber DEF SpeedWord
  <2> HIDE DEF val
  <2> QED
    BY <1>0, <2>1, <2>2, <2>3, ShowingStep
<1>4. CASE Duplex
  <2> DEFINE val == IF port_link_flag = 1 THEN <<IF Top.tag.v # 0 THEN 1 ELSE 0>> ELSE <<>>
  <2>1. Special({"d"}) /\ Top.at \in Nat /\ port_link_flag \in {0, 1}
    BY <1>4, SpecialTop DEF Duplex
  <2>2. /\ Shows(val, Top.at) /\ UNCHANGED outer /\ UNCHANGED reader
        /\ port_link_flag' = port_link_flag
    BY <1>4 DEF Duplex
  <2>3. val \in Seq(Nat)
    BY OneNumber
  <2> HIDE DEF val
  <2> QED
    BY <1>0, <2>1, <2>2, <2>3, ShowingStep
<1> QED
  BY <1>1, <1>2, <1>3, <1>4

LEMMA ReadingSteps ==
  ASSUME DisplayInv, SlotModulePort \/ CounterType \/ Ip
  PROVE  DisplayInv'
<1>0. {"s"} \in SUBSET Formats /\ {"c"} \in SUBSET Formats /\ {"i"} \in SUBSET Formats
  BY NamedFormats
<1>1. CASE SlotModulePort
  <2> DEFINE n == Ahead(0).v
  <2>1. showing /\ todo # <<>> /\ Special({"s"})
    BY <1>1, SpecialTop DEF SlotModulePort
  <2>2. n \in Nat /\ 1 + n \in Nat
    BY <2>1, AheadType
  <2>3. IF n \in 1 .. 3 THEN Takes(1 + n, Numbers(1, n))
        ELSE Read(1) /\ Then(<<>>) /\ UNCHANGED <<outer, port_link_flag, shown>>
    BY <1>1, Zenon DEF SlotModulePort
  <2> HIDE DEF n
  <2>4. CASE n \in 1 .. 3
    BY <1>0, <2>1, <2>2, <2>3, <2>4, NumbersType, TakingStep
  <2>5. CASE n \notin 1 .. 3
    BY <2>1, <2>3, <2>5, Nothing, ReadKeeps, ReadingTask
  <2> QED
    BY <2>4, <2>5
<1>2. CASE CounterType
  <2> DEFINE type == Ahead(0).v % 16
             val == <<IF type = 2 THEN 2 ELSE 1>> \o Numbers(1, 2)
  <2>1. showing /\ todo # <<>> /\ Special({"c"})
    BY <1>2, SpecialTop DEF CounterType
  <2>2. IF type \in {0, 15} THEN Read(3) /\ Then(<<>>) /\ UNCHANGED <<outer, port_link_flag, shown>>
        ELSE Takes(3, val)
    BY <1>2, Zenon DEF CounterType
  <2>3. val \in Seq(Nat)
    <3>1. Numbers(1, 2) \in Seq(Nat) /\ <<IF type = 2 THEN 2 ELSE 1>> \in Seq(Nat)
      BY <2>1, NumbersType, OneNumber
    <3> QED
      BY <3>1, ConcatProperties
  <2> HIDE DEF type, val
  <2>4. CASE type \in {0, 15}
    BY <2>1, <2>2, <2>4, Nothing, ReadKeeps, ReadingTask
  <2>5. CASE type \notin {0, 15}
    BY <1>0, <2>1, <2>2, <2>3, <2>5, TakingStep
  <2> QED
    BY <2>4, <2>5
<1>3. CASE Ip
  <2>1. showing /\ Special({"i"}) /\ Takes(3, Numbers(1, 2))
    BY <1>3, SpecialTop DEF Ip
  <2> QED
    BY <1>0, <2>1, NumbersType, TakingStep
<1> QED
  BY <1>1, <1>2, <1>3

LEMMA FormatSteps ==
  ASSUME DisplayInv, UnpackSpecVal
  PROVE  DisplayInv'
<1>1. CASE Link \/ Switch \/ Speed \/ Duplex
  BY <1>1, GivenSteps
<1>2. CASE SlotModulePort \/ CounterType \/ Ip
  BY <1>2, ReadingSteps
<1>3. CASE Uptime \/ OutVlan
  <2>1. {"D"} \in SUBSET Formats /\ {"V"} \in SUBSET Formats
    BY NamedFormats
  <2>2. (Special({"D"}) /\ Checked(4)) \/ (Special({"V"}) /\ Checked(3))
    BY <1>3 DEF Uptime, OutVlan
  <2> QED
    BY <2>1, <2>2, CheckedStep
<1>4. CASE Ipv6 \/ Mac
  <2>1. {"I"} \in SUBSET Formats /\ {"m"} \in SUBSET Formats
    BY NamedFormats
  <2>2. (Special({"I"}) /\ TwoStrings) \/ (Special({"m"}) /\ TwoStrings)
    BY <1>4 DEF Ipv6, Mac
  <2> QED
    BY <2>1, <2>2, TwoStringsStep
<1>5. CASE PlatformOrBoard \/ Balance \/ VlanTag \/ ActionOrForward \/ OmSwitchOver \/ BoardStatus
  <2>1. /\ {"f", "b"} \in SUBSET Formats /\ {"L"} \in SUBSET Formats /\ {"v"} \in SUBSET Formats
        /\ {"A", "F"} \in SUBSET Formats /\ {"O"} \in SUBSET Formats /\ {"t"} \in SUBSET Formats
    BY NamedFormats
  <2> QED
    BY <1>5, <2>1, CodeStep
    DEF PlatformOrBoard, Balance, VlanTag, ActionOrForward, OmSwitchOver, BoardStatus
<1>6. CASE InportsOutports \/ UserData \/ PowerOrFan
  BY <1>6, ListStep DEF InportsOutports, UserData, PowerOrFan, Listed
<1>7. CASE Entry
  BY <1>7, EntryStep
<1>8. CASE EntriesEnd
  BY <1>8, EntriesEndStep
<1>9. CASE UnknownFormat
  <2>1. showing /\ todo # <<>>
    BY <1>9, SpecialTop DEF UnknownFormat
  <2> QED
    BY <1>9, <2>1, Nothing, QuietTask DEF UnknownFormat
<1> QED
  BY <1>1, <1>2, <1>3, <1>4, <1>5, <1>6, <1>7, <1>8, <1>9 DEF UnpackSpecVal

LEMMA InitDisplay == Init => DisplayInv
<1> SUFFICES ASSUME Init PROVE DisplayInv
  OBVIOUS
<1>1. res \in Seq(Reply) /\ showing = FALSE /\ err = FALSE /\ port_link_flag = 0
  BY DisplayAssumption DEF Init
<1>2. pos = 1 /\ line = 0 /\ todo = <<>> /\ out = <<>>
  BY DEF Init
<1>3. Stacked(todo) /\ Placed
  BY <1>1, <1>2, Nothing DEF Placed
<1>4. out \in Seq(Printed) /\ \A k \in 1..Len(out) : out[k].line <= line
  BY <1>2
<1> QED
  BY <1>1, <1>2, <1>3, <1>4 DEF DisplayInv

LEMMA StepDisplay == ASSUME DisplayInv, [Next]_vars PROVE DisplayInv'
<1>1. CASE BeginAnswer \/ SetOk \/ Refused \/ EndAnswer
  BY <1>1, AnswerSteps
<1>2. CASE Layouts
  BY <1>2, LayoutSteps
<1>3. CASE UnpackByType
  BY <1>3, UnpackSteps
<1>4. CASE UnpackSpecVal
  BY <1>4, FormatSteps
<1>5. CASE UNCHANGED vars
  BY <1>5 DEF vars, DisplayInv, Placed, Content
<1> QED
  BY <1>1, <1>2, <1>3, <1>4, <1>5 DEF Next

\* Whatever bytes an answer is made of, cut short or not, the reader stays
\* inside its content or just behind it, the loops count numbers, and every cell
\* that is printed has a format the program knows and stands on a line that
\* has been begun.
THEOREM DisplayTypeCorrect == Spec => []TypeOK
<1>1. Init => DisplayInv
  BY InitDisplay
<1>2. DisplayInv /\ [Next]_vars => DisplayInv'
  BY StepDisplay
<1>3. DisplayInv => TypeOK
  <2> SUFFICES ASSUME DisplayInv PROVE TypeOK
    OBVIOUS
  <2>1. \A k \in DOMAIN todo : todo[k].n \in Int
    <3>1. todo \in Seq(Frame)
      BY DEF DisplayInv, Stacked
    <3>2. \A k \in DOMAIN todo : todo[k] \in Frame
      BY <3>1
    <3> QED
      BY <3>2 DEF Frame
  <2>2. \A k \in DOMAIN out : out[k].fmt \in Formats \cup {NoFormat} /\ out[k].line <= line
    <3>1. out \in Seq(Printed) /\ \A k \in 1..Len(out) : out[k].line <= line
      BY DEF DisplayInv
    <3>2. \A k \in DOMAIN out : out[k] \in Printed /\ k \in 1..Len(out)
      BY <3>1
    <3>3. \A k \in DOMAIN out : out[k].fmt \in Formats \cup {NoFormat}
      BY <3>2 DEF Printed
    <3> QED
      BY <3>1, <3>2, <3>3
  <2> QED
    BY <2>1, <2>2 DEF TypeOK, DisplayInv, Placed
<1> QED
  BY <1>1, <1>2, <1>3, PTL DEF Spec

-----------------------------------------------------------------------------
(* What is printed stands in the answer, in its order. *)

\* A value that is shown as it stands.
Printable(tag) == tag.t \in {"uint", "str"} \/ tag = Byte("array", 0)

\* Nothing that has been printed stands behind this place.
Upto(at) == \A k \in DOMAIN out : out[k].at <= at

\* The tag of the frame is the one at its place, and nothing behind it is printed.
InPlace(f) == f.at \in 1..Len(Content) /\ Content[f.at] = f.tag /\ Upto(f.at)

\* A frame that prints nothing before it has read something.
Quiet(f) ==
  /\ f.do \notin {"unpack", "special", "entries"}
  /\ f.do = "again" => ~Printable(f.tag)

\* A tag that is being unpacked, and will be once more.
Repeats(f, g) ==
  f.do = "unpack" /\ f.fmt = NoFormat /\ g.do = "again" /\ f.tag = g.tag /\ f.at = g.at

Settled(f) ==
  /\ f.do \in {"unpack", "again"} /\ Printable(f.tag) => InPlace(f)
  /\ f.do = "unpack" /\ f.fmt # NoFormat /\ f.tag.t = "array" => InPlace(f)
  /\ f.do = "special" =>
       f.fmt # NoFormat /\ (f.at = 0 \/ (f.at \in 1..Len(Content) /\ Upto(f.at)))
  /\ f.do = "entries" /\ f.fmt = "p" => Upto(f.at)

\* Only the frame on top may print what was read before.
Waiting ==
  /\ \A k \in DOMAIN todo : todo[k].at <= pos
  /\ \A k \in DOMAIN todo : k > 1 => Quiet(todo[k]) \/ (k = 2 /\ Repeats(todo[1], todo[2]))
  /\ todo # <<>> => Settled(todo[1])

Sent(c) ==
  /\ c.fmt \in GivenOnes /\ c.at # 0 => c.at \in 1..Len(Content)
  /\ c.fmt = NoFormat =>
       /\ c.at \in 1..Len(Content)
       /\ \/ Content[c.at].t = "uint" /\ c.val = <<Content[c.at].v>>
          \/ Content[c.at].t = "str" /\ Len(c.val) \in {0, Content[c.at].v}
          \/ Content[c.at] = Byte("array", 0) /\ c.val = <<>>

Printout == InOrder /\ Upto(pos) /\ \A k \in DOMAIN out : Sent(out[k])

OrderInv == InOrder /\ (showing => Printout /\ Waiting)

LEMMA PrintedType ==
  ASSUME DisplayInv, NEW k \in DOMAIN out
  PROVE  out[k] \in Printed /\ out[k].at \in Nat /\ Len(out) \in Nat /\ DOMAIN out = 1..Len(out)
<1>1. out \in Seq(Printed)
  BY DEF DisplayInv
<1>2. out[k] \in Printed /\ Len(out) \in Nat /\ DOMAIN out = 1..Len(out)
  BY <1>1
<1> QED
  BY <1>2 DEF Printed

\* The output when nothing is printed, and when a cell is.
LEMMA Unshown ==
  ASSUME DisplayInv, OrderInv, showing, UNCHANGED outer, UNCHANGED out, pos' \in Nat, pos <= pos'
  PROVE  Printout'
<1>1. Content' = Content /\ pos \in Nat
  BY DEF outer, Content, DisplayInv
<1>2. Printout
  BY DEF OrderInv
<1>3. InOrder'
  BY <1>2 DEF Printout, InOrder
<1>4. Upto(pos)'
  <2>1. SUFFICES ASSUME NEW k \in DOMAIN out PROVE out[k].at <= pos'
    BY DEF Upto
  <2>2. out[k].at <= pos /\ out[k].at \in Nat
    BY <1>2, PrintedType DEF Printout, Upto
  <2> QED
    BY <1>1, <2>2
<1>5. (\A k \in DOMAIN out : Sent(out[k]))'
  BY <1>1, <1>2 DEF Printout, Sent
<1> QED
  BY <1>3, <1>4, <1>5 DEF Printout

LEMMA OneShown ==
  ASSUME DisplayInv, OrderInv, showing, UNCHANGED outer,
         NEW fmt, NEW val, NEW at \in Nat, PrintCell(fmt, val, at),
         pos' \in Nat, pos <= pos', at <= pos', at = 0 \/ Upto(at),
         Sent([fmt |-> fmt, val |-> val, at |-> at, line |-> line])
  PROVE  Printout'
<1> DEFINE c == [fmt |-> fmt, val |-> val, at |-> at, line |-> line]
           n == Len(out)
<1>1. Content' = Content /\ pos \in Nat
  BY DEF outer, Content, DisplayInv
<1>2. Printout
  BY DEF OrderInv
<1>3. c.at = at /\ out' = Append(out, c) /\ Sent(c)
  BY DEF PrintCell
<1> HIDE DEF c
<1>4. n \in Nat /\ DOMAIN out = 1..n
  BY DEF DisplayInv
<1>5. /\ DOMAIN out' = 1..(n + 1) /\ out'[n + 1] = c
      /\ \A k \in 1..n : out'[k] = out[k] /\ out[k].at \in Nat
  <2>1. out \in Seq(Printed)
    BY DEF DisplayInv
  <2>2. DOMAIN out' = 1..(n + 1) /\ out'[n + 1] = c /\ \A k \in 1..n : out'[k] = out[k]
    BY <1>3, <2>1
  <2> QED
    BY <1>4, <2>2, PrintedType
<1> HIDE DEF n
<1>6. InOrder'
  <2>1. SUFFICES ASSUME NEW j \in 1..(n + 1), NEW k \in 1..(n + 1), j < k,
                        out'[j].at # 0, out'[k].at # 0
                 PROVE  out'[j].at <= out'[k].at
    BY <1>5 DEF InOrder
  <2>2. j \in 1..n /\ out'[j] = out[j]
    BY <1>4, <1>5, <2>1
  <2>3. CASE k \in 1..n
    BY <1>2, <1>4, <1>5, <2>1, <2>2, <2>3 DEF Printout, InOrder
  <2>4. CASE k = n + 1
    BY <1>3, <1>4, <1>5, <2>1, <2>2, <2>4 DEF Upto
  <2> QED
    BY <1>4, <2>3, <2>4
<1>7. Upto(pos)'
  <2>1. SUFFICES ASSUME NEW k \in 1..(n + 1) PROVE out'[k].at <= pos'
    BY <1>5 DEF Upto
  <2>2. CASE k \in 1..n
    <3>1. out'[k] = out[k] /\ out[k].at \in Nat /\ out[k].at <= pos
      BY <1>2, <1>4, <1>5, <2>2 DEF Printout, Upto
    <3> QED
      BY <1>1, <3>1
  <2>3. CASE k = n + 1
    BY <1>3, <1>5, <2>3
  <2> QED
    BY <1>4, <2>2, <2>3
<1>8. (\A k \in DOMAIN out : Sent(out[k]))'
  <2>1. SUFFICES ASSUME NEW k \in 1..(n + 1) PROVE Sent(out'[k])
    BY <1>1, <1>5 DEF Sent
  <2>2. CASE k \in 1..n
    BY <1>2, <1>4, <1>5, <2>2 DEF Printout
  <2>3. CASE k = n + 1
    BY <1>3, <1>5, <2>3
  <2> QED
    BY <1>4, <2>2, <2>3
<1> QED
  BY <1>6, <1>7, <1>8 DEF Printout

LEMMA QuietSettled == ASSUME NEW f, Quiet(f) PROVE Settled(f) /\ Settled(f)'
BY DEF Quiet, Settled

\* The tasks that replace the one on top, with quiet ones below.
LEMMA Replaced ==
  ASSUME DisplayInv, OrderInv, showing, UNCHANGED outer, todo # <<>>, Printout',
         \A k \in DOMAIN todo : k > 1 => Quiet(todo[k]),
         NEW S, NEW tasks \in Seq(S), Then(tasks), pos' \in Nat, pos <= pos',
         \A k \in 1..Len(tasks) : tasks[k].at <= pos' /\ (k > 1 => Quiet(tasks[k])),
         tasks # <<>> => Settled(tasks[1])'
  PROVE  OrderInv'
<1> DEFINE n == Len(tasks)
           s == Tail(todo)
<1>1. /\ todo \in Seq(Frame) /\ Len(todo) \in Nat \ {0} /\ n \in Nat /\ DOMAIN todo = 1..Len(todo)
      /\ s \in Seq(Frame) /\ Len(s) = Len(todo) - 1
      /\ \A k \in 1..Len(s) : s[k] = todo[k + 1]
      /\ pos \in Nat /\ todo' = tasks \o s
  <2>1. todo \in Seq(Frame) /\ pos \in Nat
    BY DEF DisplayInv, Stacked
  <2> QED
    BY <2>1 DEF Then
<1> HIDE DEF s
<1>2. /\ Len(todo') = n + Len(s) /\ DOMAIN todo' = 1..Len(todo') /\ Len(todo') \in Nat
      /\ \A k \in 1..Len(todo') : todo'[k] = IF k <= n THEN tasks[k] ELSE s[k - n]
  <2>1. tasks \in Seq(S \cup Frame) /\ s \in Seq(S \cup Frame)
    BY <1>1
  <2>2. /\ tasks \o s \in Seq(S \cup Frame) /\ Len(tasks \o s) = n + Len(s)
        /\ \A k \in 1..(n + Len(s)) : (tasks \o s)[k] = IF k <= n THEN tasks[k] ELSE s[k - n]
    BY <1>1, <2>1, ConcatProperties, ZenonT(60)
  <2>3. DOMAIN todo' = 1..Len(todo')
    BY <1>1, <2>2
  <2> QED
    BY <1>1, <2>2, <2>3, SMTT(30)
<1>3. \A k \in 1..Len(todo') : k > n => k - n \in 1..Len(s) /\ k - n + 1 \in DOMAIN todo
                                        /\ k - n + 1 > 1 /\ todo'[k] = todo[k - n + 1]
  <2> SUFFICES ASSUME NEW k \in 1..Len(todo'), k > n
               PROVE  /\ k - n \in 1..Len(s) /\ k - n + 1 \in 1..Len(todo)
                      /\ k - n + 1 > 1 /\ todo'[k] = todo[k - n + 1]
    BY <1>1
  <2>1. k - n \in 1..Len(s) /\ k - n + 1 \in 1..Len(todo) /\ k - n + 1 > 1 /\ ~(k <= n)
    BY <1>1, <1>2, SMTT(30)
  <2> QED
    BY <1>1, <1>2, <2>1
<1>4. \A k \in DOMAIN todo : todo[k].at <= pos /\ todo[k].at \in Nat
  <2>1. \A k \in DOMAIN todo : todo[k] \in Frame
    BY <1>1
  <2> QED
    BY <2>1 DEF OrderInv, Waiting, Frame
<1>5. ASSUME NEW k \in 1..Len(todo')
      PROVE  todo'[k].at <= pos' /\ (k > 1 => Quiet(todo'[k]))
  <2>1. CASE k <= n
    <3>1. k \in 1..n /\ todo'[k] = tasks[k]
      BY <1>1, <1>2, <2>1
    <3> QED
      BY <3>1
  <2>2. CASE ~(k <= n)
    <3> DEFINE j == k - n + 1
    <3>0. k > n
      BY <1>1, <1>2, <2>2
    <3>1. j \in DOMAIN todo /\ j > 1 /\ todo'[k] = todo[j]
      BY <1>3, <3>0
    <3> HIDE DEF j
    <3>2. Quiet(todo'[k])
      BY <3>1
    <3>3. todo'[k].at <= pos'
      BY <1>1, <1>4, <3>1
    <3> QED
      BY <3>2, <3>3
  <2> QED
    BY <2>1, <2>2
<1>6. todo' # <<>> => Settled(todo[1])'
  <2>1. SUFFICES ASSUME todo' # <<>> PROVE Settled(todo[1])'
    OBVIOUS
  <2>2. 1 \in 1..Len(todo')
    <3>1. Len(todo') = 0 => todo' = <<>>
      BY <1>1, <1>2
    <3> QED
      BY <1>2, <2>1, <3>1
  <2>3. CASE n > 0
    <3>1. todo'[1] = tasks[1] /\ tasks # <<>>
      BY <1>1, <1>2, <2>2, <2>3
    <3> QED
      BY <3>1 DEF Settled, InPlace
  <2>4. CASE n = 0
    <3>1. 2 \in DOMAIN todo /\ todo'[1] = todo[2]
      BY <1>3, <2>2, <2>4
    <3>2. Quiet(todo'[1])
      BY <3>1
    <3> QED
      BY <3>2, QuietSettled
  <2>5. n > 0 \/ n = 0
    BY <1>1
  <2> QED
    BY <2>3, <2>4, <2>5, Zenon
<1>7. Waiting'
  BY <1>2, <1>5, <1>6 DEF Waiting, Quiet
<1> QED
  BY <1>7 DEF OrderInv, Printout

\* A frame that prints nothing of its own.
Still(f) == f.at \in Nat /\ f.at <= pos /\ f.do \notin {"unpack", "special", "entries", "again"}

\* The reader never goes back.
Onward == pos' \in Nat /\ pos <= pos'

LEMMA ReadOnward == ASSUME DisplayInv, NEW n \in Nat, Read(n) PROVE Onward
<1>1. pos \in Nat
  BY DEF DisplayInv
<1> QED
  BY <1>1 DEF Read, Onward

LEMMA StayOnward == ASSUME DisplayInv, pos' = pos PROVE Onward
<1>1. pos \in Nat
  BY DEF DisplayInv
<1> QED
  BY <1>1 DEF Onward

LEMMA ExpectOnward ==
  ASSUME DisplayInv, NEW types, Len(types) \in Nat, Expect(types)
  PROVE  Onward
<1>1. pos \in Nat /\ (pos' = pos \/ pos' = pos + Len(types))
  BY DEF DisplayInv, Expect
<1> QED
  BY <1>1 DEF Onward

LEMMA StillTask ==
  ASSUME DisplayInv, NEW do \in Work \ {"unpack", "special", "entries", "again"}, NEW n
  PROVE  Still(Task(do, n))
<1>1. pos \in Nat /\ Task(do, n).at = 0 /\ Task(do, n).do = do
  BY DEF DisplayInv, Task
<1> QED
  BY <1>1 DEF Still

LEMMA StillLine == ASSUME DisplayInv PROVE Still(NewLine)
<1>1. "newline" \in Work \ {"unpack", "special", "entries", "again"}
  BY DEF Work
<1> QED
  BY <1>1, StillTask DEF NewLine

LEMMA StillCell == ASSUME DisplayInv, NEW fmt PROVE Still(Cell(fmt))
<1>1. pos \in Nat /\ Cell(fmt).at = 0 /\ Cell(fmt).do = "cell"
  BY DEF DisplayInv, Task, Cell
<1> QED
  BY <1>1 DEF Still

LEMMA StillList == ASSUME DisplayInv, NEW style, NEW n PROVE Still(List(style, n))
<1>1. pos \in Nat /\ List(style, n).at = 0 /\ List(style, n).do = "list"
  BY DEF DisplayInv, Task, List
<1> QED
  BY <1>1 DEF Still

LEMMA FrameOfTop ==
  ASSUME DisplayInv, OrderInv, showing, todo # <<>>
  PROVE  /\ Top \in Frame /\ Top = todo[1] /\ 1 \in DOMAIN todo
         /\ Top.at \in Nat /\ Top.at <= pos /\ pos \in Nat
         /\ Settled(Top)
         /\ Fewer.at = Top.at /\ Fewer.do = Top.do /\ Fewer.tag = Top.tag /\ Fewer.fmt = Top.fmt
<1>1. todo \in Seq(Frame) /\ pos \in Nat /\ Waiting
  BY DEF DisplayInv, Stacked, OrderInv
<1>2. Top \in Frame /\ Top = todo[1] /\ 1 \in DOMAIN todo
  BY <1>1 DEF Top
<1>3. Top.at \in Nat /\ Top.at <= pos /\ Settled(Top)
  BY <1>1, <1>2 DEF Waiting, Frame
<1>4. Fewer.at = Top.at /\ Fewer.do = Top.do /\ Fewer.tag = Top.tag /\ Fewer.fmt = Top.fmt
  BY <1>2 DEF Fewer, Frame
<1> QED
  BY <1>1, <1>2, <1>3, <1>4

LEMMA StillFewer ==
  ASSUME DisplayInv, OrderInv, showing, todo # <<>>,
         Top.do \notin {"unpack", "special", "entries", "again"}
  PROVE  Still(Fewer) /\ Still(Top)
BY FrameOfTop DEF Still

LEMMA RestQuiet ==
  ASSUME DisplayInv, OrderInv, showing, todo # <<>>,
         ~(Top.do = "unpack" /\ Top.fmt = NoFormat /\ Printable(Top.tag))
  PROVE  \A k \in DOMAIN todo : k > 1 => Quiet(todo[k])
<1> SUFFICES ASSUME NEW k \in DOMAIN todo, k > 1, ~Quiet(todo[k]) PROVE FALSE
  OBVIOUS
<1>1. k = 2 /\ Repeats(todo[1], todo[2])
  BY DEF OrderInv, Waiting
<1>2. Top = todo[1]
  BY FrameOfTop
<1> QED
  BY <1>1, <1>2 DEF Repeats, Quiet

\* What prints nothing and leaves nothing that prints on top.
LEMMA StillStep ==
  ASSUME DisplayInv, OrderInv, showing, todo # <<>>, UNCHANGED outer, UNCHANGED out, Onward,
         ~(Top.do = "unpack" /\ Top.fmt = NoFormat /\ Printable(Top.tag)),
         NEW S, NEW tasks \in Seq(S), Then(tasks), \A k \in 1..Len(tasks) : Still(tasks[k])
  PROVE  OrderInv'
<1>1. Printout'
  BY Unshown DEF Onward
<1>2. \A k \in DOMAIN todo : k > 1 => Quiet(todo[k])
  BY RestQuiet
<1>3. pos \in Nat /\ pos' \in Nat /\ pos <= pos'
  BY DEF DisplayInv, Onward
<1>4. ASSUME NEW k \in 1..Len(tasks)
      PROVE  tasks[k].at <= pos' /\ Quiet(tasks[k])
  <2>1. tasks[k].at <= pos /\ tasks[k].at \in Nat
        /\ tasks[k].do \notin {"unpack", "special", "entries", "again"}
    BY DEF Still
  <2>2. tasks[k].at <= pos'
    BY <1>3, <2>1
  <2> QED
    BY <2>1, <2>2 DEF Quiet
<1>5. tasks # <<>> => Settled(tasks[1])'
  <2>1. tasks # <<>> => 1 \in 1..Len(tasks)
    OBVIOUS
  <2> QED
    BY <1>4, <2>1, QuietSettled
<1> QED
  BY <1>1, <1>2, <1>3, <1>4, <1>5, Replaced

\* The same for each number of tasks.
StillOnly ==
  /\ DisplayInv /\ OrderInv /\ showing /\ todo # <<>> /\ UNCHANGED outer /\ UNCHANGED out /\ Onward
  /\ ~(Top.do = "unpack" /\ Top.fmt = NoFormat /\ Printable(Top.tag))

LEMMA StillNone == ASSUME StillOnly, Then(<<>>) PROVE OrderInv'
<1>1. <<>> \in Seq({}) /\ \A k \in 1..Len(<<>>) : Still(<<>>[k])
  OBVIOUS
<1> QED
  BY <1>1, StillStep DEF StillOnly

LEMMA StillOne == ASSUME StillOnly, NEW a, Still(a), Then(<<a>>) PROVE OrderInv'
<1>1. <<a>> \in Seq({a}) /\ \A k \in 1..Len(<<a>>) : Still(<<a>>[k])
  OBVIOUS
<1> QED
  BY <1>1, StillStep DEF StillOnly

LEMMA StillTwo ==
  ASSUME StillOnly, NEW a, NEW b, Still(a), Still(b), Then(<<a, b>>)
  PROVE  OrderInv'
<1> DEFINE s == <<a, b>>
<1>1. s \in Seq({a, b}) /\ \A k \in 1..Len(s) : Still(s[k])
  OBVIOUS
<1> QED
  BY <1>1, StillStep DEF StillOnly

LEMMA StillThree ==
  ASSUME StillOnly, NEW a, NEW b, NEW c, Still(a), Still(b), Still(c), Then(<<a, b, c>>)
  PROVE  OrderInv'
<1> DEFINE s == <<a, b, c>>
<1>1. s \in Seq({a, b, c}) /\ \A k \in 1..Len(s) : Still(s[k])
  OBVIOUS
<1> QED
  BY <1>1, StillStep DEF StillOnly

-----------------------------------------------------------------------------
(* The steps that print nothing. *)
LEMMA StillTop ==
  ASSUME DisplayInv, OrderInv, NEW do \in Work \ {"unpack", "special", "entries", "again"},
         Doing(do), UNCHANGED outer, UNCHANGED out, Onward
  PROVE  StillOnly /\ Still(Fewer)
<1>1. showing /\ todo # <<>> /\ Top.do = do
  BY DEF Doing, Top
<1> QED
  BY <1>1, StillFewer DEF StillOnly

\* The reader and the output where nothing is printed.
LEMMA QuietReader ==
  ASSUME DisplayInv, UNCHANGED <<outer, reader, port_link_flag, shown>>
  PROVE  UNCHANGED outer /\ UNCHANGED out /\ Onward
<1>1. UNCHANGED outer /\ UNCHANGED out /\ pos' = pos
  BY DEF shown, reader
<1> QED
  BY <1>1, StayOnward

LEMMA ExpectOneOnward == ASSUME DisplayInv, NEW type, Expect(<<type>>) PROVE Onward
<1>1. Len(<<type>>) \in Nat
  OBVIOUS
<1> QED
  BY <1>1, ExpectOnward

LEMMA AnswerOrder ==
  ASSUME DisplayInv, OrderInv, BeginAnswer \/ SetOk \/ Refused \/ EndAnswer
  PROVE  OrderInv'
<1>1. CASE BeginAnswer
  <2>1. /\ out' = <<>> /\ pos' = 1 /\ todo' = <<Task("answer", 1)>>
    BY <1>1 DEF BeginAnswer
  <2>2. Printout' /\ InOrder'
    BY <2>1 DEF Printout, InOrder, Upto
  <2>3. Task("answer", 1).at = 0 /\ Task("answer", 1).do = "answer"
    BY DEF Task
  <2>4. /\ DOMAIN todo' = {1} /\ todo'[1].at = 0 /\ todo'[1].do = "answer"
    BY <2>1, <2>3
  <2>5. Waiting'
    BY <2>1, <2>4 DEF Waiting, Settled
  <2> QED
    BY <2>2, <2>5 DEF OrderInv
<1>2. CASE SetOk \/ Refused \/ EndAnswer
  <2>1. ~showing' /\ out' = out
    BY <1>2 DEF SetOk, Refused, EndAnswer, shown
  <2> QED
    BY <2>1 DEF OrderInv, InOrder
<1> QED
  BY <1>1, <1>2

SingleStill(s) == s = <<>> \/ \E f : Still(f) /\ s = <<f>>

LEMMA StillLayout == ASSUME DisplayInv, NEW type, NEW n PROVE SingleStill(Layout(type, n))
<1>1. /\ Still(Task("elements", n - 1)) /\ Still(List("table", n - 2))
      /\ Still(List("sparse", n - 2)) /\ Still(Task("groups", n - 1))
      /\ Still(Task("blocks", n - 1))
  BY StillTask, StillList DEF Work
<1>2. /\ SingleStill(<<>>) /\ SingleStill(<<Task("elements", n - 1)>>)
      /\ SingleStill(<<List("table", n - 2)>>) /\ SingleStill(<<List("sparse", n - 2)>>)
      /\ SingleStill(<<Task("groups", n - 1)>>) /\ SingleStill(<<Task("blocks", n - 1)>>)
  BY <1>1 DEF SingleStill
<1> QED
  BY <1>2, Zenon DEF Layout

LEMMA ShowCmdsOrder == ASSUME DisplayInv, OrderInv, ProcessShowCmds PROVE OrderInv'
<1> DEFINE types == <<"array", "uint">>
           tasks == Layout(Expected(types, 2), Expected(types, 1))
<1>1. Doing("answer") /\ Expect(types) /\ Then(tasks) /\ UNCHANGED outer /\ UNCHANGED out
  BY DEF ProcessShowCmds, shown
<1>2. Onward
  <2>1. Len(types) \in Nat
    OBVIOUS
  <2> HIDE DEF types
  <2> QED
    BY <1>1, <2>1, ExpectOnward
<1>3. tasks = <<>> \/ \E f : Still(f) /\ tasks = <<f>>
  BY StillLayout DEF SingleStill
<1> HIDE DEF types, tasks
<1>4. StillOnly
  BY <1>1, <1>2, StillTop DEF Work
<1> QED
  BY <1>1, <1>3, <1>4, StillNone, StillOne

LEMMA NameOrder == ASSUME DisplayInv, OrderInv, Name PROVE OrderInv'
<1> DEFINE length == Expected(<<"str">>, 1)
           fmt == FormatIn(Text(1, length))
           rows == [todo[2] EXCEPT !.heads = Append(@, fmt)]
<1>1. /\ showing /\ todo # <<>> /\ Top.do = "names" /\ Fewer \in Frame
  BY TopSound DEF Name
<1>2. todo \in Seq(Frame) /\ Len(todo) \in Nat /\ Len(todo) >= 2
  BY <1>1, TopFrame DEF DisplayInv, Stacked, Top
<1>3. length \in Nat
  BY <1>1, ExpectedType
<1>4. /\ pos' = IF err' THEN pos ELSE pos + 1 + length
      /\ todo' = <<Fewer, rows>> \o SubSeq(todo, 3, Len(todo))
      /\ UNCHANGED outer /\ UNCHANGED out
  BY Zenon DEF Name, shown
<1>5. Onward
  <2>1. pos \in Nat
    BY DEF DisplayInv
  <2> HIDE DEF length
  <2> QED
    BY <1>3, <1>4, <2>1 DEF Onward
<1>6. Printout'
  BY <1>1, <1>4, <1>5, Unshown DEF Onward
<1>7. /\ rows \in Frame /\ rows.do = todo[2].do /\ rows.fmt = todo[2].fmt
      /\ rows.tag = todo[2].tag /\ rows.at = todo[2].at
  <2>1. fmt \in HeadFormats /\ todo[2] \in Frame
    BY <1>2, FormatType
  <2> HIDE DEF fmt
  <2> QED
    BY <2>1, Headed
<1> HIDE DEF rows
<1>8. /\ Len(todo') = Len(todo) /\ DOMAIN todo' = DOMAIN todo /\ DOMAIN todo = 1..Len(todo)
      /\ todo'[1] = Fewer /\ todo'[2] = rows
      /\ \A k \in 1..Len(todo) : k > 2 => todo'[k] = todo[k]
  <2>1. /\ todo' \in Seq(Frame) /\ Len(todo') = Len(todo) /\ todo'[1] = Fewer /\ todo'[2] = rows
        /\ \A k \in 1..Len(todo') : k > 2 => todo'[k] = todo[k]
    BY <1>1, <1>2, <1>4, <1>7, TwoReplaced
  <2> QED
    BY <1>2, <2>1
<1>9. ASSUME NEW k \in DOMAIN todo
      PROVE  /\ todo'[k].do = todo[k].do /\ todo'[k].fmt = todo[k].fmt
             /\ todo'[k].tag = todo[k].tag /\ todo'[k].at = todo[k].at
  <2>1. /\ Top = todo[1] /\ Fewer.at = Top.at /\ Fewer.do = Top.do
        /\ Fewer.tag = Top.tag /\ Fewer.fmt = Top.fmt
    BY <1>1, FrameOfTop
  <2>2. k = 1 \/ k = 2 \/ k > 2
    BY <1>2, <1>8
  <2> QED
    BY <1>7, <1>8, <2>1, <2>2
<1>10. Waiting'
  <2>1. \A k \in DOMAIN todo : todo[k].at \in Nat /\ todo[k].at <= pos
    <3>1. \A k \in DOMAIN todo : todo[k] \in Frame
      BY <1>2
    <3> QED
      BY <1>1, <3>1 DEF OrderInv, Waiting, Frame
  <2>2. pos \in Nat /\ pos' \in Nat /\ pos <= pos'
    BY <1>5 DEF DisplayInv, Onward
  <2>3. (\A k \in DOMAIN todo : todo[k].at <= pos)'
    BY <1>8, <1>9, <2>1, <2>2
  <2>4. \A k \in DOMAIN todo : k > 1 => Quiet(todo'[k])
    <3>1. \A k \in DOMAIN todo : k > 1 => Quiet(todo[k])
      BY <1>1, RestQuiet
    <3> QED
      BY <1>9, <3>1 DEF Quiet
  <2>5. Quiet(todo'[1])
    BY <1>1, <1>2, <1>8, FrameOfTop DEF Quiet
  <2>6. Settled(todo[1])'
    BY <2>5, QuietSettled
  <2> QED
    BY <1>8, <2>3, <2>4, <2>6 DEF Waiting, Quiet
<1> QED
  BY <1>6, <1>10 DEF OrderInv, Printout

LEMMA ElementsOrder == ASSUME DisplayInv, OrderInv, Elements PROVE OrderInv'
<1>1. StillOnly /\ Still(Fewer)
  BY QuietReader, StillTop DEF Elements, Work
<1>2. Then(<<Cell(NoFormat), NewLine, Fewer>>)
  BY DEF Elements
<1> QED
  BY <1>1, <1>2, StillCell, StillLine, StillThree

LEMMA ListNamesOrder == ASSUME DisplayInv, OrderInv, ListNames PROVE OrderInv'
<1> DEFINE n == Expected(<<"array">>, 1)
           names == [Task("names", n) EXCEPT !.style = Top.style]
           rows == [Task("rows", Top.n) EXCEPT !.style = Top.style]
<1>1. /\ Doing("list") /\ Expect(<<"array">>) /\ UNCHANGED outer /\ UNCHANGED out
      /\ Then((IF Top.style = "sparse" THEN <<>> ELSE <<NewLine>>) \o <<names, rows>>)
  BY Zenon DEF ListNames, shown
<1>2. StillOnly
  BY <1>1, ExpectOneOnward, StillTop DEF Work
<1>3. Still(names) /\ Still(rows) /\ Still(NewLine)
  <2>1. pos \in Nat
    BY DEF DisplayInv
  <2>2. /\ names.at = 0 /\ names.do = "names" /\ rows.at = 0 /\ rows.do = "rows"
    BY DEF Task
  <2> HIDE DEF names, rows
  <2> QED
    BY <2>1, <2>2, StillLine DEF Still
<1> HIDE DEF names, rows
<1>4. CASE Top.style = "sparse"
  <2>1. <<>> \o <<names, rows>> = <<names, rows>>
    OBVIOUS
  <2>2. Then(<<names, rows>>)
    BY <1>1, <1>4, <2>1
  <2> QED
    BY <1>2, <1>3, <2>2, StillTwo
<1>5. CASE Top.style # "sparse"
  <2> DEFINE S == {NewLine, names, rows}
             one == <<NewLine>>
             two == <<names, rows>>
             tasks == one \o two
  <2>1. /\ one \in Seq(S) /\ Len(one) = 1 /\ one[1] = NewLine
        /\ two \in Seq(S) /\ Len(two) = 2 /\ two[1] = names /\ two[2] = rows
    OBVIOUS
  <2>2. Then(tasks)
    BY <1>1, <1>5
  <2> HIDE DEF one, two
  <2>3. /\ tasks \in Seq(S) /\ Len(tasks) = 3
        /\ \A k \in 1..3 : tasks[k] = IF k <= 1 THEN one[k] ELSE two[k - 1]
    BY <2>1, ConcatProperties
  <2>4. \A k \in 1..Len(tasks) : tasks[k] \in S
    BY <2>3
  <2>5. \A k \in 1..Len(tasks) : Still(tasks[k])
    BY <1>3, <2>4
  <2> HIDE DEF tasks, S
  <2> QED
    BY <1>2, <2>2, <2>3, <2>5, StillStep DEF StillOnly
<1> QED
  BY <1>4, <1>5

\* The task on top with some of its fields changed.
LEMMA ChangedTop ==
  ASSUME DisplayInv, OrderInv, showing, todo # <<>>, NEW n, NEW do, NEW at, NEW heads, NEW last
  PROVE  /\ [Top EXCEPT !.do = do, !.n = n].at = Top.at
         /\ [Top EXCEPT !.do = do, !.n = n].do = do
         /\ [Fewer EXCEPT !.heads = heads].at = Top.at /\ [Fewer EXCEPT !.heads = heads].do = Top.do
         /\ [Top EXCEPT !.do = do, !.n = n, !.at = at].at = at
         /\ [Top EXCEPT !.do = do, !.n = n, !.at = at].do = do
         /\ [Fewer EXCEPT !.last = last, !.at = at].at = at
         /\ [Fewer EXCEPT !.last = last, !.at = at].do = Top.do
<1>1. Top \in Frame
  BY FrameOfTop
<1> QED
  BY <1>1 DEF Frame, Fewer

LEMMA RowOrder == ASSUME DisplayInv, OrderInv, Row PROVE OrderInv'
<1> DEFINE cells == [Top EXCEPT !.do = "cells", !.n = Ahead(0).v]
<1>1. /\ Doing("rows") /\ Read(1) /\ UNCHANGED outer /\ UNCHANGED out
      /\ Then(<<cells, NewLine, Fewer>>)
  BY Zenon DEF Row, shown
<1>2. StillOnly /\ Still(Fewer)
  BY <1>1, ReadOnward, StillTop DEF Work
<1>3. Still(cells)
  <2>1. /\ cells.at = Top.at /\ cells.do = "cells" /\ Top.at \in Nat /\ Top.at <= pos
    BY <1>2, ChangedTop, FrameOfTop DEF StillOnly
  <2> HIDE DEF cells
  <2> QED
    BY <2>1 DEF Still
<1> HIDE DEF cells
<1> QED
  BY <1>1, <1>2, <1>3, StillLine, StillThree

LEMMA CellOfTableOrder == ASSUME DisplayInv, OrderInv, CellOfTable PROVE OrderInv'
<1> DEFINE rest == [Fewer EXCEPT !.heads = IF @ = <<>> THEN @ ELSE Tail(@)]
<1>1. /\ Doing("cells") /\ \E fmt \in HeadAt(Top.heads, 1) : Then(<<Cell(fmt), rest>>)
      /\ UNCHANGED <<outer, reader, port_link_flag, shown>>
  BY Zenon DEF CellOfTable
<1>2. StillOnly /\ Still(Fewer)
  BY <1>1, QuietReader, StillTop DEF Work
<1>3. Still(rest)
  <2>1. rest.at = Top.at /\ rest.do = Top.do /\ Top.at \in Nat /\ Top.at <= pos /\ Top.do = "cells"
    BY <1>1, <1>2, ChangedTop, FrameOfTop DEF StillOnly, Doing, Top
  <2> HIDE DEF rest
  <2> QED
    BY <2>1 DEF Still
<1> HIDE DEF rest
<1>4. PICK fmt : Then(<<Cell(fmt), rest>>)
  BY <1>1
<1> QED
  BY <1>2, <1>3, <1>4, StillCell, StillTwo

LEMMA GroupOrder == ASSUME DisplayInv, OrderInv, Group PROVE OrderInv'
<1> DEFINE list == List("table", Expected(<<"array">>, 1) - 2)
<1>1. /\ Doing("groups") /\ Expect(<<"array">>) /\ UNCHANGED outer /\ UNCHANGED out
      /\ Then(<<Cell(NoFormat), list, Fewer>>)
  BY Zenon DEF Group, shown
<1>2. StillOnly /\ Still(Fewer)
  BY <1>1, ExpectOneOnward, StillTop DEF Work
<1>3. Still(Cell(NoFormat)) /\ Still(list)
  BY StillCell, StillList
<1> HIDE DEF list
<1> QED
  BY <1>1, <1>2, <1>3, StillThree

LEMMA BlockOrder == ASSUME DisplayInv, OrderInv, Block PROVE OrderInv'
<1> DEFINE lines == Task("lines", Expected(<<"array">>, 1) - 1)
           tasks == <<Cell(NoFormat), NewLine, lines, NewLine, Fewer>>
<1>1. /\ Doing("blocks") /\ Expect(<<"array">>) /\ UNCHANGED outer /\ UNCHANGED out
      /\ Then(tasks)
  BY Zenon DEF Block, shown
<1>2. StillOnly /\ Still(Fewer)
  BY <1>1, ExpectOneOnward, StillTop DEF Work
<1>3. Still(Cell(NoFormat)) /\ Still(NewLine) /\ Still(lines)
  BY StillCell, StillLine, StillTask DEF Work
<1> HIDE DEF lines
<1>4. tasks \in Seq({Cell(NoFormat), NewLine, lines, Fewer})
  OBVIOUS
<1>5. \A k \in 1..Len(tasks) : Still(tasks[k])
  BY <1>2, <1>3
<1> HIDE DEF tasks
<1> QED
  BY <1>1, <1>2, <1>4, <1>5, StillStep DEF StillOnly

LEMMA LoopEndsOrder == ASSUME DisplayInv, OrderInv, LoopEnds PROVE OrderInv'
<1>1. /\ showing /\ todo # <<>> /\ Then(<<>>) /\ Top.do # "unpack"
  BY DEF LoopEnds, Guarded, Counted, Top
<1>2. UNCHANGED outer /\ UNCHANGED out /\ Onward
  BY QuietReader DEF LoopEnds
<1> QED
  BY <1>1, <1>2, StillNone DEF StillOnly

LEMMA EndLineOrder == ASSUME DisplayInv, OrderInv, EndLine PROVE OrderInv'
<1>1. Doing("newline") /\ Then(<<>>) /\ UNCHANGED outer /\ UNCHANGED out /\ pos' = pos
  BY DEF EndLine, reader
<1>2. StillOnly
  BY <1>1, StayOnward, StillTop DEF Work
<1> QED
  BY <1>1, <1>2, StillNone

LEMMA ValueOrder == ASSUME DisplayInv, OrderInv, Value PROVE OrderInv'
<1>1. StillOnly /\ Still(Fewer)
  BY QuietReader, StillTop DEF Value, Work
<1>2. Then(<<Cell(NoFormat), Fewer>>)
  BY DEF Value
<1> QED
  BY <1>1, <1>2, StillCell, StillTwo

-----------------------------------------------------------------------------
(* What puts a task that may print on top. *)
\* What puts a frame that may print on top.
Led ==
  /\ DisplayInv /\ OrderInv /\ showing /\ todo # <<>> /\ UNCHANGED outer /\ Onward /\ Printout'
  /\ ~(Top.do = "unpack" /\ Top.fmt = NoFormat /\ Printable(Top.tag))

LEMMA StillLed == ASSUME StillOnly PROVE Led
BY Unshown DEF StillOnly, Led, Onward

LEMMA LedStep ==
  ASSUME Led, NEW S, NEW tasks \in Seq(S), tasks # <<>>, Then(tasks),
         Settled(tasks[1])', tasks[1].at <= pos',
         \A k \in 1..Len(tasks) : k > 1 => Still(tasks[k])
  PROVE  OrderInv'
<1>1. \A k \in DOMAIN todo : k > 1 => Quiet(todo[k])
  BY RestQuiet DEF Led
<1>2. pos \in Nat /\ pos' \in Nat /\ pos <= pos'
  BY DEF Led, DisplayInv, Onward
<1>3. ASSUME NEW k \in 1..Len(tasks)
      PROVE  tasks[k].at <= pos' /\ (k > 1 => Quiet(tasks[k]))
  <2>1. CASE k = 1
    BY <2>1
  <2>2. CASE k # 1
    <3>1. k > 1
      BY <2>2
    <3>2. tasks[k].at \in Nat /\ tasks[k].at <= pos
          /\ tasks[k].do \notin {"unpack", "special", "entries", "again"}
      BY <3>1 DEF Still
    <3>3. tasks[k].at <= pos'
      BY <1>2, <3>2
    <3> QED
      BY <3>2, <3>3 DEF Quiet
  <2> QED
    BY <2>1, <2>2
<1> QED
  BY <1>1, <1>2, <1>3, Replaced DEF Led

LEMMA LedNone == ASSUME Led, Then(<<>>) PROVE OrderInv'
<1>1. <<>> \in Seq({}) /\ Len(<<>>) = 0
  OBVIOUS
<1>2. \A k \in DOMAIN todo : k > 1 => Quiet(todo[k])
  BY RestQuiet DEF Led
<1>3. pos' \in Nat /\ pos <= pos'
  BY DEF Led, Onward
<1>4. \A k \in 1..Len(<<>>) : <<>>[k].at <= pos' /\ (k > 1 => Quiet(<<>>[k]))
  BY <1>1
<1> QED
  BY <1>1, <1>2, <1>3, <1>4, Replaced DEF Led

LEMMA LedOne == ASSUME Led, NEW a, Settled(a)', a.at <= pos', Then(<<a>>) PROVE OrderInv'
<1> DEFINE s == <<a>>
<1>1. s \in Seq({a}) /\ s # <<>> /\ s[1] = a /\ \A k \in 1..Len(s) : k > 1 => Still(s[k])
  OBVIOUS
<1>2. Settled(s[1])' /\ s[1].at <= pos'
  OBVIOUS
<1> HIDE DEF s
<1> QED
  BY <1>1, <1>2, LedStep DEF s

LEMMA LedTwo ==
  ASSUME Led, NEW a, NEW b, Settled(a)', a.at <= pos', Still(b), Then(<<a, b>>)
  PROVE  OrderInv'
<1> DEFINE s == <<a, b>>
<1>1. s \in Seq({a, b}) /\ s # <<>> /\ s[1] = a /\ \A k \in 1..Len(s) : k > 1 => Still(s[k])
  OBVIOUS
<1>2. Settled(s[1])' /\ s[1].at <= pos'
  OBVIOUS
<1> HIDE DEF s
<1> QED
  BY <1>1, <1>2, LedStep DEF s

LEMMA LedThree ==
  ASSUME Led, NEW a, NEW b, NEW c, Settled(a)', a.at <= pos', Still(b), Still(c),
         Then(<<a, b, c>>)
  PROVE  OrderInv'
<1> DEFINE s == <<a, b, c>>
<1>1. s \in Seq({a, b, c}) /\ s # <<>> /\ s[1] = a /\ \A k \in 1..Len(s) : k > 1 => Still(s[k])
  OBVIOUS
<1>2. Settled(s[1])' /\ s[1].at <= pos'
  OBVIOUS
<1> HIDE DEF s
<1> QED
  BY <1>1, <1>2, LedStep DEF s

\* The byte that is read is in its place, and nothing behind it has been printed.
LEMMA NextInPlace ==
  ASSUME DisplayInv, OrderInv, showing
  PROVE  /\ Upto(pos) /\ pos \in Nat /\ pos <= Len(Content) + 1
         /\ Ahead(0).t # "nil" => pos \in 1..Len(Content) /\ Content[pos] = Ahead(0)
<1>1. Upto(pos) /\ pos \in 1..Len(Content) + 1 /\ Len(Content) \in Nat
  BY ContentType DEF OrderInv, Printout, DisplayInv, Placed
<1>2. Ahead(0).t # "nil" => ~err /\ pos + 0 <= Len(Content)
  BY AheadType
<1>3. Ahead(0).t # "nil" => Content[pos] = Ahead(0)
  BY <1>1, <1>2 DEF Ahead
<1> QED
  BY <1>1, <1>2, <1>3

LEMMA PrintableTag == ASSUME NEW tag, Printable(tag) PROVE tag.t \in {"uint", "str", "array"}
BY DEF Printable, Byte

\* The frame of a tag that has just been read.
LEMMA TagSettled ==
  ASSUME DisplayInv, OrderInv, showing, UNCHANGED outer, UNCHANGED out,
         NEW f, f.do \in {"unpack", "again"}, f.at = pos, f.tag = Ahead(0)
  PROVE  Settled(f)'
<1>1. Content' = Content
  BY DEF outer, Content
<1>2. Ahead(0).t # "nil" => InPlace(f)
  BY NextInPlace DEF InPlace
<1>3. Ahead(0).t # "nil" => InPlace(f)'
  BY <1>1, <1>2 DEF InPlace, Upto
<1>4. Printable(f.tag) => InPlace(f)'
  BY <1>3, PrintableTag
<1>5. f.tag.t = "array" => InPlace(f)'
  BY <1>3
<1> QED
  BY <1>4, <1>5 DEF Settled

\* The frames that hold a tag.
LEMMA TagFrame ==
  ASSUME NEW tag, NEW fmt, NEW at, NEW n
  PROVE  /\ Unpack(tag, fmt, at).do = "unpack" /\ Unpack(tag, fmt, at).tag = tag
         /\ Unpack(tag, fmt, at).fmt = fmt /\ Unpack(tag, fmt, at).at = at
         /\ ByFormat(fmt, tag, at).do = "special" /\ ByFormat(fmt, tag, at).tag = tag
         /\ ByFormat(fmt, tag, at).fmt = fmt /\ ByFormat(fmt, tag, at).at = at
         /\ [Task("again", n) EXCEPT !.tag = tag, !.at = at].do = "again"
         /\ [Task("again", n) EXCEPT !.tag = tag, !.at = at].tag = tag
         /\ [Task("again", n) EXCEPT !.tag = tag, !.at = at].at = at
<1> DEFINE f == Task("unpack", 1)
           g == [f EXCEPT !.tag = tag, !.fmt = fmt, !.at = at]
           h == [g EXCEPT !.do = "special"]
           a == Task("again", n)
           b == [a EXCEPT !.tag = tag, !.at = at]
<1>1. /\ DOMAIN f = {"do", "n", "heads", "style", "fmt", "tag", "at", "last"} /\ f.do = "unpack"
      /\ DOMAIN a = {"do", "n", "heads", "style", "fmt", "tag", "at", "last"} /\ a.do = "again"
  BY DEF Task
<1> HIDE DEF f, a
<1>2. /\ DOMAIN g = DOMAIN f /\ g.do = "unpack" /\ g.tag = tag /\ g.fmt = fmt /\ g.at = at
      /\ b.do = "again" /\ b.tag = tag /\ b.at = at
  BY <1>1
<1> HIDE DEF g
<1>3. h.do = "special" /\ h.tag = tag /\ h.fmt = fmt /\ h.at = at
  BY <1>1, <1>2
<1> QED
  BY <1>2, <1>3, Zenon DEF Unpack, ByFormat, f, g, h, a, b

\* A format of a key, which has no place.
LEMMA KeySettled ==
  ASSUME NEW fmt, fmt # NoFormat, NEW tag, NEW f, f = ByFormat(fmt, tag, 0)
  PROVE  Settled(f)' /\ f.at = 0
<1>1. f.do = "special" /\ f.fmt = fmt /\ f.at = 0
  BY TagFrame
<1> QED
  BY <1>1 DEF Settled

LEMMA CellSettled == ASSUME NEW fmt, NEW f, f = Cell(fmt) PROVE Settled(f)' /\ f.at = 0
<1>1. f.at = 0 /\ f.do = "cell"
  BY DEF Task, Cell
<1> QED
  BY <1>1, QuietSettled DEF Quiet

\* A value without a format, or the format of its column or key.
LEMMA ByColumnSettled ==
  ASSUME NEW fmt, DisplayInv, Onward,
         NEW f, f = IF fmt = NoFormat THEN Cell(fmt) ELSE ByFormat(fmt, Nil, 0)
  PROVE  Settled(f)' /\ f.at <= pos'
<1>1. f.at = 0 /\ Settled(f)'
  BY CellSettled, KeySettled
<1> QED
  BY <1>1 DEF Onward

LEMMA CellOfSparseOrder == ASSUME DisplayInv, OrderInv, CellOfSparse PROVE OrderInv'
<1>1. /\ Doing("cells") /\ Read(2) /\ UNCHANGED outer /\ UNCHANGED out
      /\ \E fmt \in HeadAt(Top.heads, Ahead(1).v) :
           Then(<<IF fmt = NoFormat THEN Cell(fmt) ELSE ByFormat(fmt, Nil, 0), Fewer>>)
  BY DEF CellOfSparse, shown
<1>2. Onward
  BY <1>1, ReadOnward
<1>3. Led /\ Still(Fewer)
  BY <1>1, <1>2, StillTop, StillLed DEF Work
<1>4. PICK fmt : Then(<<IF fmt = NoFormat THEN Cell(fmt) ELSE ByFormat(fmt, Nil, 0), Fewer>>)
  BY <1>1
<1>5. PICK f : f = IF fmt = NoFormat THEN Cell(fmt) ELSE ByFormat(fmt, Nil, 0)
  OBVIOUS
<1>6. Settled(f)' /\ f.at <= pos'
  BY <1>2, <1>5, ByColumnSettled
<1>7. Then(<<f, Fewer>>)
  BY <1>4, <1>5
<1> QED
  BY <1>3, <1>6, <1>7, LedTwo

LEMMA LineOfBlockOrder == ASSUME DisplayInv, OrderInv, LineOfBlock PROVE OrderInv'
<1>0. PICK again : again = [Task("again", Ahead(0).v) EXCEPT !.tag = Ahead(0), !.at = pos]
  OBVIOUS
<1>1. /\ Doing("lines") /\ Read(1) /\ UNCHANGED outer /\ UNCHANGED out
      /\ Then(<<again, NewLine, Fewer>>)
  BY <1>0, Zenon DEF LineOfBlock, shown
<1>2. Onward /\ showing
  BY <1>1, ReadOnward DEF Doing
<1>3. Led /\ Still(Fewer)
  BY <1>1, <1>2, StillTop, StillLed DEF Work
<1>4. again.do = "again" /\ again.tag = Ahead(0) /\ again.at = pos
  BY <1>0, TagFrame
<1>5. Settled(again)' /\ again.at <= pos'
  BY <1>1, <1>2, <1>4, TagSettled DEF Onward
<1> QED
  BY <1>1, <1>3, <1>5, StillLine, LedThree

LEMMA ReadCellOrder == ASSUME DisplayInv, OrderInv, ReadCell PROVE OrderInv'
<1>0. PICK f : f = Unpack(Ahead(0), Top.fmt, pos)
  OBVIOUS
<1>1. Doing("cell") /\ Read(1) /\ UNCHANGED outer /\ UNCHANGED out /\ Then(<<f>>)
  BY <1>0, Zenon DEF ReadCell, shown
<1>2. Onward /\ showing
  BY <1>1, ReadOnward DEF Doing
<1>3. Led
  BY <1>1, <1>2, StillTop, StillLed DEF Work
<1>4. f.do = "unpack" /\ f.tag = Ahead(0) /\ f.at = pos
  BY <1>0, TagFrame
<1>5. Settled(f)' /\ f.at <= pos'
  BY <1>1, <1>2, <1>4, TagSettled DEF Onward
<1> QED
  BY <1>1, <1>3, <1>5, LedOne

\* The tag of a line of a block is unpacked once more.
LEMMA AgainOrder == ASSUME DisplayInv, OrderInv, Again PROVE OrderInv'
<1>0. PICK f : f = Unpack(Top.tag, NoFormat, Top.at)
  OBVIOUS
<1> DEFINE pair == <<f, Fewer>>
           s == Tail(todo)
<1>1. /\ showing /\ todo # <<>> /\ Top.do = "again" /\ UNCHANGED outer /\ UNCHANGED out
      /\ Onward /\ pos' = pos /\ todo' = pair \o s
  BY <1>0, QuietReader DEF Again, Doing, Top, Then, reader
<1>2. /\ f.do = "unpack" /\ f.tag = Top.tag /\ f.at = Top.at /\ f.fmt = NoFormat
  BY <1>0, TagFrame
<1>3. /\ Top \in Frame /\ Top.at \in Nat /\ Top.at <= pos /\ Settled(Top)
      /\ Fewer.at = Top.at /\ Fewer.do = "again" /\ Fewer.tag = Top.tag
  BY <1>1, FrameOfTop
<1>4. \A k \in DOMAIN todo : k > 1 => Quiet(todo[k])
  BY <1>1, RestQuiet
<1>5. todo \in Seq(Frame) /\ \A k \in DOMAIN todo : todo[k].at <= pos
  BY <1>1 DEF DisplayInv, Stacked, OrderInv, Waiting
<1>6. /\ DOMAIN todo' = 1..(Len(todo) + 1) /\ Len(todo) \in Nat /\ todo' # <<>>
      /\ todo'[1] = f /\ todo'[2] = Fewer
      /\ \A k \in 1..(Len(todo) + 1) : k > 2 => k - 1 \in DOMAIN todo /\ todo'[k] = todo[k - 1]
  <2> DEFINE S == Frame \cup {f, Fewer}
  <2>1. /\ pair \in Seq(S) /\ Len(pair) = 2 /\ pair[1] = f /\ pair[2] = Fewer
    OBVIOUS
  <2>2. /\ s \in Seq(Frame) /\ Len(s) = Len(todo) - 1 /\ Len(todo) \in Nat \ {0}
        /\ DOMAIN todo = 1..Len(todo) /\ \A k \in 1..Len(s) : s[k] = todo[k + 1]
    BY <1>1, <1>5
  <2> HIDE DEF pair, s
  <2>3. s \in Seq(S)
    BY <2>2
  <2> HIDE DEF S
  <2>4. /\ Len(pair \o s) = 2 + Len(s)
        /\ \A k \in 1..(2 + Len(s)) : (pair \o s)[k] = IF k <= 2 THEN pair[k] ELSE s[k - 2]
        /\ pair \o s \in Seq(S)
    <3>1. /\ pair \o s \in Seq(S) /\ Len(pair \o s) = Len(pair) + Len(s)
          /\ \A k \in 1..(Len(pair) + Len(s)) :
               (pair \o s)[k] = IF k <= Len(pair) THEN pair[k] ELSE s[k - Len(pair)]
      BY <2>1, <2>3, ConcatProperties
    <3> QED
      BY <2>1, <3>1
  <2>5. 2 + Len(s) = Len(todo) + 1 /\ Len(s) \in Nat
    BY <2>2
  <2>6. DOMAIN todo' = 1..(Len(todo) + 1) /\ todo' # <<>>
    BY <1>1, <2>4, <2>5
  <2>7. todo'[1] = f /\ todo'[2] = Fewer
    BY <1>1, <2>1, <2>4, <2>5
  <2>8. ASSUME NEW k \in 1..(Len(todo) + 1), k > 2
        PROVE  k - 1 \in DOMAIN todo /\ todo'[k] = todo[k - 1]
    <3>1. k - 2 \in 1..Len(s) /\ (k - 2) + 1 = k - 1 /\ k - 1 \in 1..Len(todo) /\ ~(k <= 2)
      BY <2>2, <2>8
    <3> QED
      BY <1>1, <2>2, <2>4, <2>5, <2>8, <3>1
  <2> QED
    BY <2>2, <2>6, <2>7, <2>8
<1> HIDE DEF pair, s
<1>7. Printout'
  BY <1>1, Unshown DEF Onward
<1>8. Settled(f)'
  <2>1. Content' = Content
    BY <1>1 DEF outer, Content
  <2>2. Printable(f.tag) => InPlace(Top)
    BY <1>1, <1>2, <1>3 DEF Settled
  <2>3. Printable(f.tag) => InPlace(f)'
    BY <1>1, <1>2, <2>1, <2>2 DEF InPlace, Upto
  <2> QED
    BY <1>2, <2>3 DEF Settled
<1>9. Waiting'
  <2>1. ASSUME NEW k \in DOMAIN todo'
        PROVE  /\ todo'[k].at <= pos'
               /\ k > 1 => Quiet(todo'[k]) \/ (k = 2 /\ Repeats(todo'[1], todo'[2]))
    <3>1. CASE k = 1
      BY <1>1, <1>2, <1>3, <1>6, <3>1
    <3>2. CASE k = 2
      <4>1. Repeats(todo'[1], todo'[2])
        BY <1>2, <1>3, <1>6 DEF Repeats
      <4> QED
        BY <1>1, <1>3, <1>6, <3>2, <4>1
    <3>3. CASE k > 2
      <4>1. k - 1 \in DOMAIN todo /\ todo'[k] = todo[k - 1] /\ k - 1 > 1
        BY <1>6, <3>3
      <4> QED
        BY <1>1, <1>4, <1>5, <4>1
    <3> QED
      BY <1>6, <3>1, <3>2, <3>3
  <2> QED
    BY <1>6, <1>8, <2>1 DEF Waiting, Quiet, Repeats
<1> QED
  BY <1>7, <1>9 DEF OrderInv, Printout

-----------------------------------------------------------------------------
(* A value without a format is shown. *)
LEMMA UnpackTop ==
  ASSUME DisplayInv, OrderInv, HasTask
  PROVE  /\ showing /\ todo # <<>> /\ Top.do = "unpack" /\ Top \in Frame /\ Top.tag \in Tag
         /\ Top.tag.v \in Nat /\ Top.at \in Nat /\ Top.at <= pos
         /\ Printable(Top.tag) => InPlace(Top)
         /\ Top.fmt # NoFormat /\ Top.tag.t = "array" => InPlace(Top)
<1>1. showing /\ todo # <<>> /\ Top.do = "unpack"
  BY DEF HasTask, Doing, Top
<1>2. Top \in Frame /\ Top.at \in Nat /\ Top.at <= pos /\ Settled(Top)
  BY <1>1, FrameOfTop
<1>3. Top.tag \in Tag /\ Top.tag.v \in Nat
  BY <1>2 DEF Frame, Tag
<1> QED
  BY <1>1, <1>2, <1>3 DEF Settled

\* The tag that was unpacked is done with; it may be unpacked once more.
LEMMA Unpacked ==
  ASSUME DisplayInv, OrderInv, HasTask, UNCHANGED outer, Onward, Printout', Then(<<>>),
         InPlace(Top), NEW at, at = Top.at, Upto(at)'
  PROVE  OrderInv'
<1> DEFINE s == Tail(todo)
<1>1. /\ showing /\ todo # <<>> /\ Top = todo[1] /\ pos \in Nat /\ pos' \in Nat /\ pos <= pos'
  BY UnpackTop, FrameOfTop DEF Onward
<1>2. todo \in Seq(Frame) /\ Waiting
  BY <1>1 DEF DisplayInv, Stacked, OrderInv
<1>3. /\ todo' = s /\ DOMAIN s = 1..(Len(todo) - 1) /\ Len(todo) \in Nat
      /\ \A k \in DOMAIN s : s[k] = todo[k + 1] /\ k + 1 \in DOMAIN todo /\ k + 1 > 1
      /\ s # <<>> => 1 \in DOMAIN s
  <2>1. s \in Seq(Frame) /\ <<>> \o s = s /\ todo' = s
    BY <1>1, <1>2 DEF Then
  <2>2. /\ Len(s) = Len(todo) - 1 /\ Len(todo) \in Nat \ {0} /\ DOMAIN todo = 1..Len(todo)
        /\ \A k \in 1..Len(s) : s[k] = todo[k + 1]
    BY <1>1, <1>2
  <2>3. DOMAIN s = 1..(Len(todo) - 1) /\ (s # <<>> => 1 \in DOMAIN s)
    BY <2>1, <2>2
  <2> HIDE DEF s
  <2>4. \A k \in DOMAIN s : s[k] = todo[k + 1] /\ k + 1 \in DOMAIN todo /\ k + 1 > 1
    BY <2>2, <2>3
  <2> QED
    BY <2>1, <2>2, <2>3, <2>4
<1> HIDE DEF s
<1>4. ASSUME NEW k \in DOMAIN s
      PROVE  s[k].at <= pos' /\ (k > 1 => Quiet(s[k]))
  <2>1. s[k] = todo[k + 1] /\ k + 1 \in DOMAIN todo /\ todo[k + 1].at <= pos
    BY <1>2, <1>3 DEF Waiting
  <2>2. todo[k + 1].at \in Nat
    <3>1. todo[k + 1] \in Frame
      BY <1>2, <2>1
    <3> QED
      BY <3>1 DEF Frame
  <2>3. k > 1 => Quiet(todo[k + 1])
    BY <1>2, <1>3, <2>1 DEF Waiting
  <2> QED
    BY <1>1, <2>1, <2>2, <2>3
<1>5. ASSUME s # <<>> PROVE Settled(todo[1])'
  <2>1. PICK f : f = todo[2]
    OBVIOUS
  <2>2. 1 \in DOMAIN s /\ s[1] = f /\ 2 \in DOMAIN todo
    BY <1>3, <1>5, <2>1
  <2>3. Quiet(f) \/ Repeats(Top, f)
    BY <1>1, <1>2, <2>1, <2>2 DEF Waiting
  <2>4. Content' = Content
    BY DEF outer, Content
  <2>5. Repeats(Top, f) => Settled(f)'
    <3>1. Repeats(Top, f) => f.at = at /\ f.tag = Top.tag
      BY DEF Repeats
    <3>2. at \in 1..Len(Content)' /\ Content'[at] = Top.tag /\ Upto(at)'
      BY <2>4 DEF InPlace
    <3>3. Repeats(Top, f) => InPlace(f)'
      BY <3>1, <3>2 DEF InPlace
    <3> QED
      BY <3>3 DEF Repeats, Settled
  <2>6. Settled(f)'
    BY <2>3, <2>5, QuietSettled
  <2>7. todo'[1] = f
    BY <1>3, <2>2
  <2> QED
    BY <2>6, <2>7 DEF Settled, InPlace
<1>6. Waiting'
  BY <1>3, <1>4, <1>5 DEF Waiting, Quiet
<1> QED
  BY <1>6 DEF OrderInv, Printout

\* A value without a format is shown.
LEMMA PlainShown ==
  ASSUME DisplayInv, OrderInv, HasTask, Printable(Top.tag), UNCHANGED outer, Onward,
         NEW val, PrintCell(NoFormat, val, Top.at), Then(<<>>),
         \/ Top.tag.t = "uint" /\ val = <<Top.tag.v>>
         \/ Top.tag.t = "str" /\ Len(val) \in {0, Top.tag.v}
         \/ Top.tag = Byte("array", 0) /\ val = <<>>
  PROVE  OrderInv'
<1>1. /\ showing /\ Top.at \in Nat /\ Top.at <= pos /\ InPlace(Top)
      /\ pos \in Nat /\ pos' \in Nat /\ pos <= pos'
  BY UnpackTop DEF Onward, DisplayInv
<1> DEFINE c == [fmt |-> NoFormat, val |-> val, at |-> Top.at, line |-> line]
<1>2. Sent(c)
  <2>1. c.fmt = NoFormat /\ c.val = val /\ c.at = Top.at /\ NoFormat \notin {"l", "o", "S", "d"}
    BY DEF NoFormat
  <2> HIDE DEF c
  <2>2. c.at \in 1..Len(Content) /\ Content[c.at] = Top.tag
    BY <1>1, <2>1 DEF InPlace
  <2> QED
    BY <2>1, <2>2 DEF Sent
<1>3. Upto(Top.at) /\ Top.at <= pos'
  BY <1>1 DEF InPlace
<1>4. Printout'
  BY <1>1, <1>2, <1>3, OneShown
<1>5. PICK at : at = Top.at
  OBVIOUS
<1>6. Upto(at)'
  <2>1. out' = Append(out, c) /\ c.at = at
    BY <1>5 DEF PrintCell
  <2> HIDE DEF c
  <2>3. DOMAIN out' = 1..(Len(out) + 1) /\ out'[Len(out) + 1] = c /\ DOMAIN out = 1..Len(out)
        /\ Len(out) \in Nat /\ \A k \in DOMAIN out : out'[k] = out[k]
    BY <2>1 DEF DisplayInv
  <2>4. at \in Nat /\ \A k \in DOMAIN out : out[k].at <= at
    BY <1>1, <1>3, <1>5 DEF Upto
  <2>5. ASSUME NEW k \in DOMAIN out' PROVE out'[k].at <= at
    <3>1. CASE k \in DOMAIN out
      BY <2>3, <2>4, <3>1
    <3>2. CASE k \notin DOMAIN out
      BY <2>1, <2>3, <2>4, <3>2
    <3> QED
      BY <3>1, <3>2
  <2> QED
    BY <2>5 DEF Upto
<1> QED
  BY <1>1, <1>4, <1>5, <1>6, Unpacked

\* A value of a column or key with a format is left to the format.
LEMMA LeftToFormat ==
  ASSUME DisplayInv, OrderInv, HasTask, Top.fmt # NoFormat, InPlace(Top),
         UNCHANGED outer, UNCHANGED out, Onward,
         NEW tag, Then(<<ByFormat(Top.fmt, tag, Top.at)>>)
  PROVE  OrderInv'
<1>1. showing /\ todo # <<>> /\ Top.at \in Nat /\ Top.at <= pos /\ pos \in Nat
  BY UnpackTop DEF DisplayInv
<1>2. Led
  BY <1>1, Unshown DEF Led, Onward
<1>3. PICK f : f = ByFormat(Top.fmt, tag, Top.at)
  OBVIOUS
<1>4. f.do = "special" /\ f.fmt # NoFormat /\ f.at = Top.at
  BY <1>3, TagFrame
<1>5. f.at \in 1..Len(Content) /\ Upto(f.at) /\ Content' = Content
  BY <1>4 DEF InPlace, outer, Content
<1>6. Settled(f)'
  BY <1>4, <1>5 DEF Settled, Upto
<1>7. f.at <= pos'
  BY <1>1, <1>4 DEF Onward
<1> QED
  BY <1>2, <1>3, <1>6, <1>7, LedOne

LEMMA NumberOrder == ASSUME DisplayInv, OrderInv, Number PROVE OrderInv'
<1>1. HasTask /\ Top.tag.t = "uint" /\ UNCHANGED outer /\ pos' = pos
  BY DEF Number, reader
<1>2. Onward /\ Printable(Top.tag) /\ InPlace(Top)
  BY <1>1, StayOnward, UnpackTop DEF Printable
<1>3. CASE Top.fmt = NoFormat
  <2>1. PrintCell(NoFormat, <<Top.tag.v>>, Top.at) /\ Then(<<>>)
    BY <1>3 DEF Number
  <2> QED
    BY <1>1, <1>2, <2>1, PlainShown
<1>4. CASE Top.fmt # NoFormat
  <2>1. Then(<<ByFormat(Top.fmt, Top.tag, Top.at)>>) /\ UNCHANGED out
    BY <1>4 DEF Number, shown
  <2> QED
    BY <1>1, <1>2, <1>4, <2>1, LeftToFormat
<1> QED
  BY <1>3, <1>4

LEMMA StringOrder == ASSUME DisplayInv, OrderInv, String PROVE OrderInv'
<1>1. HasTask /\ Top.tag.t = "str" /\ UNCHANGED outer /\ Read(Top.tag.v)
  BY DEF String
<1>2. /\ Onward /\ Printable(Top.tag) /\ InPlace(Top) /\ showing /\ Top.tag.v \in Nat
  BY <1>1, ReadOnward, UnpackTop DEF Printable
<1>3. CASE Top.fmt = NoFormat
  <2>1. PICK val : val = Text(0, Top.tag.v)
    OBVIOUS
  <2>2. PrintCell(NoFormat, val, Top.at) /\ Then(<<>>)
    BY <1>3, <2>1 DEF String
  <2>3. Len(val) \in {0, Top.tag.v}
    <3>1. Len(Numbers(0, Top.tag.v)) = Top.tag.v
      BY <1>2, NumbersType
    <3> QED
      BY <2>1, <3>1 DEF Text
  <2> QED
    BY <1>1, <1>2, <2>2, <2>3, PlainShown
<1>4. CASE Top.fmt # NoFormat
  <2>1. Then(<<ByFormat(Top.fmt, Nil, Top.at)>>) /\ UNCHANGED out
    BY <1>4 DEF String, shown
  <2> QED
    BY <1>1, <1>2, <1>4, <2>1, LeftToFormat
<1> QED
  BY <1>3, <1>4

LEMMA ArrayOrder == ASSUME DisplayInv, OrderInv, Array PROVE OrderInv'
<1>1. HasTask /\ Top.tag.t = "array" /\ UNCHANGED outer /\ pos' = pos
  BY DEF Array, reader
<1>2. Onward /\ showing /\ todo # <<>> /\ Top.tag \in Tag
  BY <1>1, StayOnward, UnpackTop
<1>3. CASE Top.tag.v = 0
  <2>1. Top.tag = Byte("array", 0)
    BY <1>1, <1>2, <1>3 DEF Byte, Tag
  <2>2. PrintCell(NoFormat, <<>>, Top.at) /\ Then(<<>>)
    BY <1>3 DEF Array
  <2> QED
    BY <1>1, <1>2, <2>1, <2>2, PlainShown DEF Printable
<1>4. CASE Top.tag.v # 0 /\ Top.fmt = NoFormat
  <2>1. Then(<<Task("values", Top.tag.v)>>) /\ UNCHANGED out
    BY <1>4 DEF Array, shown
  <2>2. ~Printable(Top.tag)
    BY <1>1, <1>4 DEF Printable, Byte
  <2>3. Still(Task("values", Top.tag.v))
    BY StillTask DEF Work
  <2> QED
    BY <1>1, <1>2, <2>1, <2>2, <2>3, StillOne DEF StillOnly
<1>5. CASE Top.tag.v # 0 /\ Top.fmt # NoFormat
  <2>1. Then(<<ByFormat(Top.fmt, Nil, Top.at)>>) /\ UNCHANGED out /\ InPlace(Top)
    BY <1>1, <1>5, UnpackTop DEF Array, shown
  <2> QED
    BY <1>1, <1>2, <1>5, <2>1, LeftToFormat
<1> QED
  BY <1>3, <1>4, <1>5

LEMMA MapOrder == ASSUME DisplayInv, OrderInv, Map PROVE OrderInv'
<1>1. /\ HasTask /\ Top.tag.t = "map" /\ Then(<<Task("pairs", Top.tag.v)>>)
      /\ UNCHANGED outer /\ UNCHANGED out /\ pos' = pos
  BY DEF Map, reader, shown
<1>2. Onward /\ showing /\ todo # <<>> /\ ~Printable(Top.tag)
  BY <1>1, StayOnward, UnpackTop DEF Printable, Byte
<1>3. Still(Task("pairs", Top.tag.v))
  BY StillTask DEF Work
<1> QED
  BY <1>1, <1>2, <1>3, StillOne DEF StillOnly

LEMMA OtherTypeOrder == ASSUME DisplayInv, OrderInv, OtherType PROVE OrderInv'
<1>1. /\ HasTask /\ Top.tag.t \notin {"uint", "str", "array", "map"} /\ Then(<<>>)
      /\ UNCHANGED outer /\ UNCHANGED out /\ pos' = pos
  BY DEF OtherType, reader, shown
<1>2. Onward /\ showing /\ todo # <<>> /\ ~Printable(Top.tag)
  BY <1>1, StayOnward, UnpackTop DEF Printable, Byte
<1> QED
  BY <1>1, <1>2, StillNone DEF StillOnly

LEMMA PairOrder == ASSUME DisplayInv, OrderInv, Pair PROVE OrderInv'
<1> DEFINE key == Ahead(0)
           fmt == FormatIn(Text(1, key.v))
<1>1. /\ Doing("pairs") /\ showing /\ UNCHANGED outer /\ UNCHANGED out
  BY DEF Pair, Doing, shown
<1>2. CASE key.t # "str"
  <2>1. PICK f : f = Unpack(key, NoFormat, pos)
    OBVIOUS
  <2>2. Read(1) /\ Then(<<f, Cell(NoFormat), Fewer>>)
    BY <1>2, <2>1 DEF Pair
  <2>3. Onward /\ Led /\ Still(Fewer)
    BY <1>1, <2>2, ReadOnward, StillTop, StillLed DEF Work
  <2>4. f.do = "unpack" /\ f.tag = Ahead(0) /\ f.at = pos
    BY <2>1, TagFrame
  <2>5. Settled(f)' /\ f.at <= pos'
    BY <1>1, <2>3, <2>4, TagSettled DEF Onward
  <2> QED
    BY <2>2, <2>3, <2>5, StillCell, LedThree
<1>3. CASE key.t = "str"
  <2>1. PICK f : f = IF fmt = NoFormat THEN Cell(NoFormat) ELSE ByFormat(fmt, Nil, 0)
    OBVIOUS
  <2>2. Read(1 + key.v) /\ Then(<<f, Fewer>>)
    BY <1>3, <2>1, Zenon DEF Pair
  <2>3. 1 + key.v \in Nat
    BY <1>1, AheadType
  <2>4. Onward
    BY <2>2, <2>3, ReadOnward
  <2>5. Led /\ Still(Fewer)
    BY <1>1, <2>4, StillTop, StillLed DEF Work
  <2>6. Settled(f)' /\ f.at <= pos'
    <3>1. f = IF fmt = NoFormat THEN Cell(fmt) ELSE ByFormat(fmt, Nil, 0)
      BY <2>1
    <3> HIDE DEF fmt
    <3> QED
      BY <2>4, <3>1, ByColumnSettled
  <2> QED
    BY <2>2, <2>5, <2>6, LedTwo
<1> QED
  BY <1>2, <1>3

-----------------------------------------------------------------------------
(* The formats. *)
LEMMA FormatTop ==
  ASSUME DisplayInv, OrderInv, NEW fmts, Special(fmts)
  PROVE  /\ showing /\ todo # <<>> /\ Top.do = "special" /\ Top.fmt \in fmts /\ Top.fmt # NoFormat
         /\ Top.at \in Nat /\ Top.at <= pos /\ pos \in Nat
         /\ Top.at = 0 \/ (Top.at \in 1..Len(Content) /\ Upto(Top.at))
<1>1. showing /\ todo # <<>> /\ Top.do = "special" /\ Top.fmt \in fmts
  BY DEF Special, Doing, Top
<1>2. Top.at \in Nat /\ Top.at <= pos /\ pos \in Nat /\ Settled(Top)
  BY <1>1, FrameOfTop
<1> QED
  BY <1>1, <1>2 DEF Settled

LEMMA FormatQuiet ==
  ASSUME DisplayInv, OrderInv, NEW fmts, Special(fmts), UNCHANGED outer, UNCHANGED out, Onward
  PROVE  Led
BY FormatTop, Unshown DEF Led, Onward

LEMMA FormatEnds ==
  ASSUME DisplayInv, OrderInv, NEW fmts, Special(fmts), UNCHANGED outer, UNCHANGED out, Onward,
         Then(<<>>)
  PROVE  OrderInv'
BY FormatQuiet, LedNone

\* What a format is given has a place in the answer, or none.
LEMMA GivenShown ==
  ASSUME DisplayInv, OrderInv, NEW fmts, Special(fmts), UNCHANGED outer, pos' = pos,
         NEW val, Shows(val, Top.at)
  PROVE  OrderInv'
<1>1. /\ showing /\ todo # <<>> /\ Top.do = "special" /\ Top.fmt # NoFormat
      /\ Top.at \in Nat /\ Top.at <= pos' /\ pos' \in Nat /\ pos <= pos' /\ Onward
      /\ Top.at = 0 \/ (Top.at \in 1..Len(Content) /\ Upto(Top.at))
  BY FormatTop, StayOnward
<1> DEFINE c == [fmt |-> Top.fmt, val |-> val, at |-> Top.at, line |-> line]
<1>2. Sent(c)
  <2>1. c.fmt # NoFormat /\ c.at = Top.at
    BY <1>1
  <2> HIDE DEF c
  <2> QED
    BY <1>1, <2>1 DEF Sent
<1>3. PrintCell(Top.fmt, val, Top.at) /\ Then(<<>>)
  BY DEF Shows
<1>4. Printout'
  BY <1>1, <1>2, <1>3, OneShown
<1> QED
  BY <1>1, <1>3, <1>4, LedNone DEF Led

\* What a format has read itself stands at the reader.
LEMMA ReadPrinted ==
  ASSUME DisplayInv, OrderInv, showing, UNCHANGED outer, Onward,
         NEW fmt, fmt # NoFormat, fmt \notin GivenOnes,
         NEW val, NEW at \in Nat, at <= pos, Upto(at), PrintCell(fmt, val, at)
  PROVE  Printout'
<1>1. pos \in Nat /\ pos' \in Nat /\ pos <= pos'
  BY DEF DisplayInv, Onward
<1>2. at <= pos'
  BY <1>1
<1> DEFINE c == [fmt |-> fmt, val |-> val, at |-> at, line |-> line]
<1>3. Sent(c)
  <2>1. c.fmt = fmt
    OBVIOUS
  <2> HIDE DEF c
  <2> QED
    BY <2>1 DEF Sent, GivenOnes
<1> QED
  BY <1>1, <1>2, <1>3, OneShown

LEMMA ReadShown ==
  ASSUME DisplayInv, OrderInv, NEW fmts, fmts \cap GivenOnes = {}, Special(fmts),
         UNCHANGED outer, Onward, NEW val, Shows(val, pos)
  PROVE  OrderInv'
<1>1. /\ showing /\ todo # <<>> /\ Top.do = "special" /\ Top.fmt # NoFormat /\ Top.fmt \in fmts
      /\ pos \in Nat
  BY FormatTop
<1>2. Upto(pos) /\ pos <= pos
  BY <1>1, NextInPlace
<1>3. PrintCell(Top.fmt, val, pos) /\ Then(<<>>)
  BY DEF Shows
<1>4. Printout'
  BY <1>1, <1>2, <1>3, ReadPrinted
<1> QED
  BY <1>1, <1>3, <1>4, LedNone DEF Led

LEMMA TakesShown ==
  ASSUME DisplayInv, OrderInv, NEW fmts, fmts \cap GivenOnes = {}, Special(fmts),
         NEW n \in Nat, NEW val, Takes(n, val)
  PROVE  OrderInv'
<1>1. Read(n) /\ Shows(val, pos) /\ UNCHANGED outer
  BY DEF Takes
<1>2. Onward
  BY <1>1, ReadOnward
<1> QED
  BY <1>1, <1>2, ReadShown

LEMMA CheckedShown ==
  ASSUME DisplayInv, OrderInv, NEW fmts, fmts \cap GivenOnes = {}, Special(fmts),
         NEW n \in Nat, Checked(n)
  PROVE  OrderInv'
<1>1. UNCHANGED outer /\ (pos' = pos \/ pos' = pos + n + 1)
  BY DEF Checked
<1>2. PICK val : Shows(val, pos)
  BY Zenon DEF Checked
<1>3. Onward
  BY <1>1 DEF DisplayInv, Onward
<1> QED
  BY <1>1, <1>2, <1>3, ReadShown

LEMMA GivenOrder == ASSUME DisplayInv, OrderInv, Link \/ Switch \/ Speed \/ Duplex PROVE OrderInv'
<1>1. PICK fmts : Special(fmts) /\ \E val : Shows(val, Top.at)
  BY DEF Link, Switch, Speed, Duplex
<1>2. UNCHANGED outer /\ pos' = pos
  BY DEF Link, Switch, Speed, Duplex, reader
<1>3. PICK val : Shows(val, Top.at)
  BY <1>1
<1> QED
  BY <1>1, <1>2, <1>3, GivenShown

LEMMA SelfReadOrder ==
  ASSUME DisplayInv, OrderInv,
         SlotModulePort \/ Uptime \/ OutVlan \/ CounterType \/ Ip \/ Ipv6 \/ Mac
  PROVE  OrderInv'
<1>0. /\ {"s"} \cap GivenOnes = {} /\ {"D"} \cap GivenOnes = {} /\ {"V"} \cap GivenOnes = {}
      /\ {"c"} \cap GivenOnes = {} /\ {"i"} \cap GivenOnes = {} /\ {"I"} \cap GivenOnes = {}
      /\ {"m"} \cap GivenOnes = {}
  BY DEF GivenOnes
<1>1. CASE SlotModulePort
  <2> DEFINE n == Ahead(0).v
  <2>1. Special({"s"}) /\ showing
    BY <1>1, FormatTop DEF SlotModulePort
  <2>2. n \in Nat /\ 1 + n \in Nat
    BY <2>1, AheadType
  <2>3. IF n \in 1 .. 3 THEN Takes(1 + n, Numbers(1, n))
        ELSE Read(1) /\ Then(<<>>) /\ UNCHANGED <<outer, port_link_flag, shown>>
    BY <1>1, Zenon DEF SlotModulePort
  <2> HIDE DEF n
  <2>4. CASE n \in 1 .. 3
    BY <1>0, <2>1, <2>2, <2>3, <2>4, TakesShown
  <2>5. CASE n \notin 1 .. 3
    <3>1. Read(1) /\ Then(<<>>) /\ UNCHANGED outer /\ UNCHANGED out
      BY <2>3, <2>5 DEF shown
    <3> QED
      BY <2>1, <3>1, ReadOnward, FormatEnds
  <2> QED
    BY <2>4, <2>5
<1>2. CASE Uptime \/ OutVlan
  BY <1>0, <1>2, CheckedShown DEF Uptime, OutVlan
<1>3. CASE CounterType
  <2> DEFINE type == Ahead(0).v % 16
             val == <<IF type = 2 THEN 2 ELSE 1>> \o Numbers(1, 2)
  <2>1. Special({"c"})
    BY <1>3 DEF CounterType
  <2>2. IF type \in {0, 15} THEN Read(3) /\ Then(<<>>) /\ UNCHANGED <<outer, port_link_flag, shown>>
        ELSE Takes(3, val)
    BY <1>3, Zenon DEF CounterType
  <2> HIDE DEF type, val
  <2>3. CASE type \in {0, 15}
    <3>1. Read(3) /\ Then(<<>>) /\ UNCHANGED outer /\ UNCHANGED out
      BY <2>2, <2>3 DEF shown
    <3> QED
      BY <2>1, <3>1, ReadOnward, FormatEnds
  <2>4. CASE type \notin {0, 15}
    BY <1>0, <2>1, <2>2, <2>4, TakesShown
  <2> QED
    BY <2>3, <2>4
<1>4. CASE Ip
  BY <1>0, <1>4, TakesShown DEF Ip
<1>5. CASE Ipv6 \/ Mac
  <2>1. PICK fmts : Special(fmts) /\ fmts \cap GivenOnes = {} /\ TwoStrings
    BY <1>0, <1>5 DEF Ipv6, Mac
  <2> DEFINE first == Ahead(1).v
             second == Ahead(2 + first).v
             val == Text(2, first) \o Text(3 + first, second)
  <2>2. showing
    BY <2>1, FormatTop
  <2>3. first \in Nat
    BY <2>2, AheadType
  <2>4. second \in Nat
    <3> HIDE DEF first
    <3> QED
      BY <2>2, <2>3, AheadType
  <2>5. Takes(3 + first + second, val)
    BY <2>1, Zenon DEF TwoStrings
  <2> HIDE DEF first, second, val
  <2>6. 3 + first + second \in Nat
    BY <2>3, <2>4
  <2> QED
    BY <2>1, <2>5, <2>6, TakesShown
<1> QED
  BY <1>1, <1>2, <1>3, <1>4, <1>5

LEMMA CodeOrder ==
  ASSUME DisplayInv, OrderInv,
         PlatformOrBoard \/ Balance \/ VlanTag \/ ActionOrForward \/ OmSwitchOver \/ BoardStatus
  PROVE  OrderInv'
<1>1. PICK fmts : CodeOf(fmts) /\ fmts \cap GivenOnes = {}
  BY DEF PlatformOrBoard, Balance, VlanTag, ActionOrForward, OmSwitchOver, BoardStatus, GivenOnes
<1> QED
  BY <1>1, TakesShown DEF CodeOf

\* A list is read entry by entry.
LEMMA ListOfOrder == ASSUME DisplayInv, OrderInv, NEW fmts, ListOf(fmts) PROVE OrderInv'
<1>0. PICK f : f = [Top EXCEPT !.do = "entries", !.n = Ahead(0).v, !.at = pos]
  OBVIOUS
<1>1. Special(fmts) /\ Read(1) /\ UNCHANGED outer /\ UNCHANGED out /\ Then(<<f>>)
  BY <1>0, Zenon DEF ListOf, shown
<1>2. Onward /\ showing /\ todo # <<>> /\ Upto(pos) /\ pos \in Nat
  BY <1>1, ReadOnward, FormatTop, NextInPlace
<1>3. f.do = "entries" /\ f.at = pos
  BY <1>0, <1>2, ChangedTop
<1>4. Settled(f)' /\ f.at <= pos'
  BY <1>1, <1>2, <1>3 DEF Settled, Upto, Onward
<1>5. Led
  BY <1>1, <1>2, FormatQuiet
<1> QED
  BY <1>1, <1>4, <1>5, LedOne

LEMMA EntryOrder == ASSUME DisplayInv, OrderInv, Entry PROVE OrderInv'
<1>0. PICK val : val = Numbers(1, EntrySize[Top.fmt])
  OBVIOUS
<1>1. /\ showing /\ todo # <<>> /\ Top.do = "entries" /\ Top.fmt \in Listed
      /\ Fewer.fmt = Top.fmt /\ Fewer.do = "entries" /\ Fewer.at = Top.at
  BY TopSound, FrameOfTop DEF Entry, Sound
<1>2. /\ Read(1 + EntrySize[Top.fmt]) /\ UNCHANGED outer
      /\ IF Top.fmt = "p" THEN Then(<<[Fewer EXCEPT !.last = val, !.at = pos]>>) /\ UNCHANGED out
         ELSE PrintCell(Top.fmt, val, pos) /\ Then(<<Fewer>>)
  BY <1>0, Zenon DEF Entry, shown
<1>3. Onward
  <2>1. 1 + EntrySize[Top.fmt] \in Nat
    BY <1>1 DEF Listed, EntrySize
  <2> QED
    BY <1>2, <2>1, ReadOnward
<1>4. Upto(pos) /\ pos \in Nat /\ Top.at \in Nat /\ Top.at <= pos
  BY <1>1, NextInPlace, FrameOfTop
<1>5. CASE Top.fmt = "p"
  <2>1. PICK f : f = [Fewer EXCEPT !.last = val, !.at = pos]
    OBVIOUS
  <2>2. f.at = pos /\ f.do = "entries"
    BY <1>1, <2>1, ChangedTop
  <2>3. Settled(f)' /\ f.at <= pos'
    BY <1>2, <1>3, <1>4, <1>5, <2>2 DEF Settled, Upto, Onward
  <2>4. Led
    BY <1>1, <1>2, <1>3, <1>5, Unshown DEF Led, Onward
  <2>5. Then(<<f>>)
    BY <1>2, <1>5, <2>1
  <2> QED
    BY <2>3, <2>4, <2>5, LedOne
<1>6. CASE Top.fmt # "p"
  <2>1. Printout'
    <3>1. Top.fmt # NoFormat /\ Top.fmt \notin GivenOnes /\ pos <= pos
      <4>1. \A fmt \in Listed : fmt # NoFormat /\ fmt \notin GivenOnes
        BY DEF Listed, GivenOnes, NoFormat
      <4>2. pos <= pos
        BY <1>4
      <4> QED
        BY <1>1, <4>1, <4>2
    <3> QED
      BY <1>1, <1>2, <1>3, <1>4, <1>6, <3>1, ReadPrinted
  <2>2. PICK f : f = Fewer
    OBVIOUS
  <2>3. Settled(f)' /\ f.at <= pos'
    BY <1>1, <1>3, <1>4, <1>6, <2>2 DEF Settled, Onward
  <2>4. Led
    BY <1>1, <1>2, <1>3, <2>1 DEF Led
  <2>5. Then(<<f>>)
    BY <1>2, <1>6, <2>2
  <2> QED
    BY <2>3, <2>4, <2>5, LedOne
<1> QED
  BY <1>5, <1>6

\* Of a list of ports only the last entry is printed, and only now.
LEMMA EntriesEndOrder == ASSUME DisplayInv, OrderInv, EntriesEnd PROVE OrderInv'
<1>1. /\ showing /\ todo # <<>> /\ Top.do = "entries"
      /\ Then(<<>>) /\ UNCHANGED outer /\ pos' = pos
  BY DEF EntriesEnd, Doing, Top, reader
<1>2. Onward /\ Settled(Top) /\ Top.at \in Nat /\ Top.at <= pos
  BY <1>1, StayOnward, FrameOfTop
<1>3. CASE Top.fmt # "p"
  <2>1. UNCHANGED out
    BY <1>3 DEF EntriesEnd, shown
  <2>2. Led
    BY <1>1, <1>2, <2>1, Unshown DEF Led, Onward
  <2> QED
    BY <1>1, <2>2, LedNone
<1>4. CASE Top.fmt = "p"
  <2>1. PICK val : PrintCell("p", val, Top.at)
    BY <1>4, Zenon DEF EntriesEnd
  <2>2. Upto(Top.at) /\ "p" # NoFormat /\ "p" \notin GivenOnes
    BY <1>1, <1>2, <1>4 DEF Settled, GivenOnes, NoFormat
  <2>3. Printout'
    BY <1>1, <1>2, <2>1, <2>2, ReadPrinted
  <2>4. Led
    BY <1>1, <1>2, <2>3 DEF Led
  <2> QED
    BY <1>1, <2>4, LedNone
<1> QED
  BY <1>3, <1>4

LEMMA UnknownFormatOrder == ASSUME DisplayInv, OrderInv, UnknownFormat PROVE OrderInv'
<1>1. Special({"?"}) /\ Then(<<>>) /\ UNCHANGED <<outer, reader, port_link_flag, shown>>
  BY DEF UnknownFormat
<1>2. UNCHANGED outer /\ UNCHANGED out /\ Onward
  BY <1>1, QuietReader
<1> QED
  BY <1>1, <1>2, FormatEnds

LEMMA InitOrder == Init => OrderInv
BY DEF Init, OrderInv, InOrder

LEMMA StepOrder == ASSUME DisplayInv, OrderInv, [Next]_vars PROVE OrderInv'
<1>1. CASE BeginAnswer \/ SetOk \/ Refused \/ EndAnswer
  BY <1>1, AnswerOrder
<1>2. CASE Layouts
  BY <1>2, ShowCmdsOrder, ElementsOrder, ListNamesOrder, NameOrder, RowOrder, CellOfTableOrder,
     CellOfSparseOrder, GroupOrder, BlockOrder, LineOfBlockOrder, AgainOrder, LoopEndsOrder,
     EndLineOrder
  DEF Layouts
<1>3. CASE UnpackByType
  BY <1>3, ReadCellOrder, NumberOrder, StringOrder, ArrayOrder, MapOrder, OtherTypeOrder,
     ValueOrder, PairOrder
  DEF UnpackByType
<1>4. CASE UnpackSpecVal
  <2>1. CASE Link \/ Switch \/ Speed \/ Duplex
    BY <2>1, GivenOrder
  <2>2. CASE SlotModulePort \/ Uptime \/ OutVlan \/ CounterType \/ Ip \/ Ipv6 \/ Mac
    BY <2>2, SelfReadOrder
  <2>3. CASE PlatformOrBoard \/ Balance \/ VlanTag \/ ActionOrForward \/ OmSwitchOver \/ BoardStatus
    BY <2>3, CodeOrder
  <2>4. CASE InportsOutports \/ UserData \/ PowerOrFan
    BY <2>4, ListOfOrder DEF InportsOutports, UserData, PowerOrFan
  <2>5. CASE Entry \/ EntriesEnd \/ UnknownFormat
    BY <2>5, EntryOrder, EntriesEndOrder, UnknownFormatOrder
  <2> QED
    BY <1>4, <2>1, <2>2, <2>3, <2>4, <2>5 DEF UnpackSpecVal
<1>5. CASE UNCHANGED vars
  <2>1. Content' = Content /\ UNCHANGED <<showing, out, pos, todo>>
    BY <1>5 DEF vars, Content
  <2>2. InOrder'
    BY <2>1 DEF OrderInv, InOrder
  <2>3. showing => Printout'
    BY <2>1, <2>2 DEF OrderInv, Printout, Upto, Sent
  <2>4. showing => Waiting'
    BY <2>1 DEF OrderInv, Waiting, Settled, InPlace, Upto, Quiet, Repeats
  <2> QED
    BY <2>1, <2>2, <2>3, <2>4 DEF OrderInv
<1> QED
  BY <1>1, <1>2, <1>3, <1>4, <1>5 DEF Next

\* Whatever bytes an answer is made of, a cell without a format is a number, a text
\* or an empty array that stands where the cell says it does, and a number that a
\* format is given was sent: unpack_by_type makes no value up, also of an answer
\* that is cut short or that no device would send.
THEOREM ShowingSent == Spec => []ShownIsSent
<1>1. Init => DisplayInv /\ OrderInv
  BY InitDisplay, InitOrder
<1>2. (DisplayInv /\ OrderInv) /\ [Next]_vars => (DisplayInv /\ OrderInv)'
  BY StepDisplay, StepOrder
<1>3. DisplayInv /\ OrderInv => ShownIsSent
  BY DEF OrderInv, Printout, Sent, ShownIsSent
<1> QED
  BY <1>1, <1>2, <1>3, PTL DEF Spec

\* Whatever bytes an answer is made of, process_show_cmds prints its values in the
\* order in which they stand in it, though names, tags, keys and lists of ports are
\* read before what they belong to is printed.
THEOREM ShowingInOrder == Spec => []InOrder
<1>1. Init => DisplayInv /\ OrderInv
  BY InitDisplay, InitOrder
<1>2. (DisplayInv /\ OrderInv) /\ [Next]_vars => (DisplayInv /\ OrderInv)'
  BY StepDisplay, StepOrder
<1>3. DisplayInv /\ OrderInv => InOrder
  BY DEF OrderInv
<1> QED
  BY <1>1, <1>2, <1>3, PTL DEF Spec

-----------------------------------------------------------------------------
(* Speeds and links. *)

\* port_link_flag is that of the link shown last, and every speed and duplex went
\* by the flag as the link in front of it had left it.
FlagIsLast ==
  \A j \in 1 .. Len(out) : LinkInFront(j, Len(out) + 1) => out[j].val = <<port_link_flag>>
SpeedsFollow ==
  \A j, k \in 1 .. Len(out) : LinkInFront(j, k) =>
    /\ out[k].fmt \in {"S", "d"} /\ out[k].val # <<>> => out[j].val = <<1>>
    /\ out[k].fmt = "d" /\ out[j].val = <<1>> => out[k].val # <<>>
LinkInv == FlagIsLast /\ SpeedsFollow

\* What may be printed, and how the flag may change with it.
ByFlag(fmt, val) ==
  /\ IF fmt = "l" THEN val = <<port_link_flag'>> ELSE port_link_flag' = port_link_flag
  /\ fmt \in {"S", "d"} /\ val # <<>> => port_link_flag = 1
  /\ fmt = "d" /\ port_link_flag = 1 => val # <<>>
\* A step prints nothing, or one cell by the flag.
FlagStep ==
  \/ UNCHANGED out /\ UNCHANGED port_link_flag
  \/ \E fmt, val, at : PrintCell(fmt, val, at) /\ ByFlag(fmt, val)

LEMMA FlagSteps ==
  ASSUME DisplayInv, LinkInv, FlagStep
  PROVE  LinkInv'
<1>1. out \in Seq(Printed) /\ Len(out) \in Nat /\ port_link_flag \in {0, 1}
  BY DEF DisplayInv
<1>2. CASE UNCHANGED out /\ UNCHANGED port_link_flag
  BY <1>2 DEF LinkInv, FlagIsLast, SpeedsFollow, LinkInFront
<1>3. ASSUME NEW fmt, NEW val, NEW at, PrintCell(fmt, val, at), ByFlag(fmt, val)
      PROVE  LinkInv'
  <2> DEFINE cell == [fmt |-> fmt, val |-> val, at |-> at, line |-> line]
             S == Printed \cup {cell}
  <2>1. cell.fmt = fmt /\ cell.val = val
    OBVIOUS
  <2>2. out' = Append(out, cell) /\ out \in Seq(S) /\ cell \in S
    BY <1>1, <1>3 DEF PrintCell
  <2> HIDE DEF cell, S
  <2>3. PICK n \in Nat : n = Len(out)
    BY <1>1
  <2>4. Len(out') = n + 1 /\ out'[n + 1] = cell /\ \A k \in 1..n : out'[k] = out[k]
    BY <2>2, <2>3
  <2>5. ASSUME NEW j \in 1..n, NEW k \in 1..n + 1
        PROVE  LinkInFront(j, k)' <=> LinkInFront(j, k)
    <3>1. out'[j] = out[j] /\ \A i \in j + 1..k - 1 : out'[i] = out[i]
      BY <2>4, <2>3
    <3> QED
      BY <3>1 DEF LinkInFront
  <2>6. ASSUME NEW j \in 1..n, LinkInFront(j, n + 1)
        PROVE  /\ fmt \in {"S", "d"} /\ val # <<>> => out[j].val = <<1>>
               /\ fmt = "d" /\ out[j].val = <<1>> => val # <<>>
    <3>1. out[j].val = <<port_link_flag>>
      BY <2>3, <2>6 DEF LinkInv, FlagIsLast
    <3>2. out[j].val = <<1>> <=> port_link_flag = 1
      BY <1>1, <3>1
    <3> QED
      BY <1>3, <3>2 DEF ByFlag
  <2>7. SpeedsFollow'
    <3> SUFFICES ASSUME NEW j \in 1..n + 1, NEW k \in 1..n + 1, LinkInFront(j, k)'
                 PROVE  /\ out'[k].fmt \in {"S", "d"} /\ out'[k].val # <<>> => out'[j].val = <<1>>
                        /\ out'[k].fmt = "d" /\ out'[j].val = <<1>> => out'[k].val # <<>>
      BY <2>4 DEF SpeedsFollow
    <3>1. j < k
      BY DEF LinkInFront
    <3>2. j \in 1..n
      BY <2>3, <3>1
    <3>3. LinkInFront(j, k) /\ out'[j] = out[j]
      BY <2>4, <2>5, <3>2
    <3>4. CASE k \in 1..n
      <4>1. out'[k] = out[k]
        BY <2>4, <3>4
      <4> QED
        BY <2>3, <3>2, <3>3, <3>4, <4>1 DEF LinkInv, SpeedsFollow
    <3>5. CASE k = n + 1
      <4>1. out'[k].fmt = fmt /\ out'[k].val = val
        BY <2>1, <2>4, <3>5
      <4> QED
        BY <2>6, <3>2, <3>3, <3>5, <4>1
    <3> QED
      BY <2>3, <3>4, <3>5
  <2>8. FlagIsLast'
    <3> SUFFICES ASSUME NEW j \in 1..n + 1, LinkInFront(j, n + 1 + 1)'
                 PROVE  out'[j].val = <<port_link_flag'>>
      BY <2>4 DEF FlagIsLast
    <3>1. j < n + 2 /\ out'[j].fmt = "l" /\ \A i \in j + 1..n + 1 : out'[i].fmt # "l"
      <4>1. n + 1 + 1 = n + 2 /\ n + 1 + 1 - 1 = n + 1
        OBVIOUS
      <4> QED
        BY <4>1 DEF LinkInFront
    <3>2. CASE j = n + 1
      <4>1. out'[j].fmt = fmt /\ out'[j].val = val
        BY <2>1, <2>4, <3>2
      <4> QED
        BY <1>3, <3>1, <4>1 DEF ByFlag
    <3>3. CASE j \in 1..n
      <4>1. fmt # "l"
        <5>1. n + 1 \in j + 1..n + 1
          BY <2>3, <3>3
        <5> QED
          BY <2>1, <2>4, <3>1, <5>1
      <4>2. port_link_flag' = port_link_flag
        BY <1>3, <4>1 DEF ByFlag
      <4>3. LinkInFront(j, n + 1)
        <5>1. j < n + 1 /\ out[j] = out'[j] /\ \A i \in j + 1..n : i \in j + 1..n + 1 /\ out[i] = out'[i]
          BY <2>4, <2>3, <3>3
        <5>2. n + 1 - 1 = n
          BY <2>3
        <5> QED
          BY <3>1, <5>1, <5>2 DEF LinkInFront
      <4>4. out'[j] = out[j]
        BY <2>4, <3>3
      <4> QED
        BY <2>3, <3>3, <4>2, <4>3, <4>4 DEF LinkInv, FlagIsLast
    <3> QED
      BY <2>3, <3>2, <3>3
  <2> QED
    BY <2>7, <2>8 DEF LinkInv
<1> QED
  BY <1>2, <1>3 DEF FlagStep

\* The letters of the link, its speed and its duplex are no others.
LEMMA OtherLetters ==
  /\ NoFormat \notin {"l", "S", "d"} /\ "p" \notin {"l", "S", "d"}
  /\ Listed \cap {"l", "S", "d"} = {}
<1>1. {"l", "S", "d"} \subseteq Formats
  BY NamedFormats
<1> QED
  BY <1>1, NotAFormat DEF Listed

LEMMA OtherFlag ==
  ASSUME NEW fmt, fmt \notin {"l", "S", "d"}, NEW val, UNCHANGED port_link_flag,
         UNCHANGED out \/ \E at : PrintCell(fmt, val, at)
  PROVE  FlagStep
BY DEF FlagStep, ByFlag

LEMMA QuietFlag == ASSUME UNCHANGED shown, UNCHANGED port_link_flag PROVE FlagStep
BY DEF shown, FlagStep

LEMMA LayoutsFlag == ASSUME Layouts PROVE FlagStep
<1>1. UNCHANGED out /\ UNCHANGED port_link_flag
  BY DEF Layouts, ProcessShowCmds, Elements, ListNames, Name, Row, CellOfTable, CellOfSparse,
         Group, Block, LineOfBlock, Again, LoopEnds, EndLine, shown
<1> QED
  BY <1>1 DEF FlagStep

LEMMA UnpackFlag == ASSUME UnpackByType PROVE FlagStep
<1>1. UNCHANGED port_link_flag /\ (UNCHANGED out \/ \E val, at : PrintCell(NoFormat, val, at))
  BY DEF UnpackByType, ReadCell, Number, String, Array, Map, OtherType, Value, Pair, shown
<1> QED
  BY <1>1, OtherFlag, OtherLetters

LEMMA FormatsFlag == ASSUME DisplayInv, UnpackSpecVal PROVE FlagStep
<1>1. CASE Link
  <2>1. PrintCell("l", <<port_link_flag'>>, Top.at)
    BY <1>1 DEF Link, Special, Shows
  <2> QED
    BY <2>1 DEF FlagStep, ByFlag
<1>2. CASE Speed
  <2> DEFINE val == IF port_link_flag = 1 THEN SpeedWord(Top.tag.v) ELSE <<>>
  <2>1. PrintCell("S", val, Top.at) /\ port_link_flag' = port_link_flag
        /\ (val # <<>> => port_link_flag = 1)
    BY <1>2 DEF Speed, Special, Shows
  <2> HIDE DEF val
  <2> QED
    BY <2>1 DEF FlagStep, ByFlag
<1>3. CASE Duplex
  <2> DEFINE val == IF port_link_flag = 1 THEN <<IF Top.tag.v # 0 THEN 1 ELSE 0>> ELSE <<>>
  <2>1. PrintCell("d", val, Top.at) /\ port_link_flag' = port_link_flag
    BY <1>3 DEF Duplex, Special, Shows
  <2>2. val # <<>> <=> port_link_flag = 1
    OBVIOUS
  <2> HIDE DEF val
  <2> QED
    BY <2>1, <2>2 DEF FlagStep, ByFlag
<1>4. ASSUME NEW fmts, Special(fmts), fmts \cap {"l", "S", "d"} = {}, UNCHANGED port_link_flag,
             UNCHANGED shown \/ \E val, at : Shows(val, at)
      PROVE  FlagStep
  <2>1. Top.fmt \notin {"l", "S", "d"}
    BY <1>4 DEF Special
  <2> QED
    BY <1>4, <2>1, OtherFlag, QuietFlag DEF Shows
<1>5. CASE Switch
  BY <1>4, <1>5 DEF Switch
<1>6. ASSUME NEW fmts, Special(fmts), fmts \cap {"l", "S", "d"} = {}, NEW n, NEW val, Takes(n, val)
      PROVE  FlagStep
  BY <1>4, <1>6 DEF Takes
<1>7. CASE SlotModulePort \/ CounterType \/ Ip \/ Ipv6 \/ Mac \/ UnknownFormat
  <2>1. CASE SlotModulePort
    BY <1>4, <1>6, <2>1 DEF SlotModulePort
  <2>2. CASE CounterType
    BY <1>4, <1>6, <2>2 DEF CounterType
  <2>3. CASE Ip \/ Ipv6 \/ Mac
    BY <1>6, <2>3 DEF Ip, Ipv6, Mac, TwoStrings
  <2>4. CASE UnknownFormat
    BY <1>4, <2>4 DEF UnknownFormat
  <2> QED
    BY <1>7, <2>1, <2>2, <2>3, <2>4
<1>8. CASE Uptime \/ OutVlan
  <2>1. UNCHANGED port_link_flag /\ \E val, at : Shows(val, at)
    BY <1>8 DEF Uptime, OutVlan, Checked
  <2> QED
    BY <1>4, <1>8, <2>1 DEF Uptime, OutVlan
<1>9. CASE PlatformOrBoard \/ Balance \/ VlanTag \/ ActionOrForward \/ OmSwitchOver \/ BoardStatus
  BY <1>6, <1>9 DEF PlatformOrBoard, Balance, VlanTag, ActionOrForward, OmSwitchOver, BoardStatus, CodeOf
<1>10. CASE InportsOutports \/ UserData \/ PowerOrFan
  BY <1>10, QuietFlag DEF InportsOutports, UserData, PowerOrFan, ListOf
<1>11. CASE Entry
  <2>1. todo # <<>> /\ Top.do = "entries"
    BY <1>11 DEF Entry, Doing, Top
  <2>2. Top.fmt \notin {"l", "S", "d"}
    BY <2>1, TopFrame, OtherLetters DEF DisplayInv, Top
  <2>3. UNCHANGED port_link_flag /\ (UNCHANGED shown \/ \E val, at : PrintCell(Top.fmt, val, at))
    BY <1>11 DEF Entry
  <2> QED
    BY <2>2, <2>3, OtherFlag, QuietFlag
<1>12. CASE EntriesEnd
  <2>1. UNCHANGED port_link_flag /\ (UNCHANGED shown \/ \E val, at : PrintCell("p", val, at))
    BY <1>12 DEF EntriesEnd
  <2> QED
    BY <2>1, OtherLetters, OtherFlag, QuietFlag
<1> QED
  BY <1>1, <1>2, <1>3, <1>5, <1>7, <1>8, <1>9, <1>10, <1>11, <1>12 DEF UnpackSpecVal

LEMMA InitLink == Init => LinkInv
BY DEF Init, LinkInv, FlagIsLast, SpeedsFollow

LEMMA StepLink == DisplayInv /\ LinkInv /\ [Next]_vars => LinkInv'
<1> SUFFICES ASSUME DisplayInv, LinkInv, [Next]_vars PROVE LinkInv'
  OBVIOUS
<1>1. CASE BeginAnswer
  BY <1>1 DEF BeginAnswer, LinkInv, FlagIsLast, SpeedsFollow
<1>2. CASE SetOk \/ Refused \/ EndAnswer \/ UNCHANGED vars
  <2>1. UNCHANGED out /\ UNCHANGED port_link_flag
    BY <1>2 DEF SetOk, Refused, EndAnswer, vars, shown
  <2> QED
    BY <2>1, FlagSteps DEF FlagStep
<1> QED
  BY <1>1, <1>2, LayoutsFlag, UnpackFlag, FormatsFlag, FlagSteps DEF Next

\* Whatever bytes an answer is made of, unpack_spec_val shows a speed and a duplex by
\* the link that their row shows last in front of them, never by that of another row,
\* answer or slot, though port_link_flag is a static that outlives them all.
THEOREM ShowingSpeeds == Spec => []SpeedFollowsOwnLink
<1>1. Init => DisplayInv /\ LinkInv
  BY InitDisplay, InitLink
<1>2. (DisplayInv /\ LinkInv) /\ [Next]_vars => (DisplayInv /\ LinkInv)'
  BY StepDisplay, StepLink
<1>3. DisplayInv /\ LinkInv => SpeedFollowsOwnLink
  <2>1. ASSUME DisplayInv, NEW k \in DOMAIN out PROVE k \in 1..Len(out)
    BY <2>1, PrintedType
  <2> QED
    BY <2>1 DEF LinkInv, SpeedsFollow, SpeedFollowsOwnLink
<1> QED
  BY <1>1, <1>2, <1>3, PTL DEF Spec
=============================================================================
