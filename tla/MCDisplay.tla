----------------------------- MODULE MCDisplay ------------------------------
(* Answers in every layout and with every format, for TLC. *)
EXTENDS DisplayAnswers

MCCodes == [f |-> {1, 2}, b |-> {1}, L |-> 1 .. 6, A |-> {1, 2}, t |-> 0 .. 2,
            v |-> {1}, F |-> {1}, O |-> {1}]
MCGarbage == {0, 1}

Values == {PlainNum(3), PlainText, NoElements, ArrayOf(<<PlainNum(0), PlainText>>)}
Pairs == {PairOf(NoFormat, v) : v \in Values}
         \cup UNION {{PairOf(fmt, v) : v \in Samples(fmt)} : fmt \in Sampled}
Nested == MapOf(<<PairOf(NoFormat, MapOf(<<PairOf("i", SelfRead.i[1])>>)),
                  PairOf(NoFormat, PlainNum(1))>>)
Keyed == MapOf(<<NumberedPair(PlainNum(4), PlainText)>>)

LinkTables == {Table(<<"l", "S", "d">>, <<LinkRow(l1, s1), LinkRow(l2, 8)>>) :
                 l1 \in 0 .. 1, l2 \in 0 .. 1, s1 \in {0, 3, 9}}
ListingAnswers ==
  {Listing(<<MapOf(<<p, q>>), PlainText>>, "one") : p \in Pairs, q \in {PairOf(NoFormat, PlainNum(2))}}
  \cup {Listing(<<p, q>>, "two") : p \in Values \cup {Nested, Keyed}, q \in Values}
TableAnswers ==
  {Table(<<"c", NoFormat, "o">>, <<<<Counter, v, GivenTo("o", 1, <<1>>)>>,
                                  <<UnshownCounter, v, GivenTo("o", 0, <<0>>)>>>>) : v \in Values}
  \cup UNION {{Table(<<fmt, NoFormat>>, <<<<ArrayOf(<<v>>), PlainNum(1)>>,
                                          <<NoElements, PlainNum(2)>>>>) : v \in Samples(fmt)} :
              fmt \in Sampled}
  \cup {Table(<<"?", NoFormat>>, <<<<Unused(5), PlainNum(1)>>>>)}
SparseAnswers ==
  {Sparse(<<NoFormat, "i", fmt>>,
          <<<<SparseCell(1, PlainNum(6)), SparseCell(3, SelfRead[fmt][1])>>,
            <<SparseCell(2, SelfRead.i[1]), SparseCell(1, PlainNum(1))>>>>) : fmt \in {"I", "m", "u", "D"}}
GroupAnswers ==
  {Answer(Join(<<GroupOf(d, <<NoFormat, "l">>, <<<<v, GivenTo("l", 2, <<1>>)>>>>),
                 GroupOf(PlainText, <<>>, <<>>)>>), 3, "groups") : d \in Values, v \in Values}
BlockAnswers ==
  {Answer(Join(<<BlockOf(d, <<ArrayOf(<<v>>), MapOf(<<PairOf(NoFormat, v)>>)>>),
                 BlockOf(PlainText, <<Silent(<<Byte("map", 0)>>)>>)>>), 3, "blocks") :
     d \in Values, v \in Values}
MCEncodings ==
  LinkTables \cup ListingAnswers \cup TableAnswers \cup SparseAnswers \cup GroupAnswers \cup BlockAnswers
WholeAnswers == {Sent(e) : e \in MCEncodings}
CutAnswers == UNION {{Cut(e, n) : n \in 0 .. Len(e.bytes) - 1} : e \in MCEncodings}
\* Bytes that are no encoding of anything.
Noise == {Num(1), Num(2), Byte("str", 1), Byte("array", 0), Byte("array", 2), Byte("map", 1),
          Byte("other", 1)}
NoiseAnswers ==
  {[Sent(Answer(Silent(tail), 2, type)) EXCEPT !.whole = FALSE] :
     tail \in UNION {[1 .. n -> Noise] : n \in 2 .. 3}, type \in DOMAIN HeadType}
\* The answers of two slots one after the other.
Links == {Sent(e) : e \in LinkTables}
Downs == {a \in Links : a.meant[1].val = <<0>>}
MCReplies ==
  {<<a>> : a \in WholeAnswers \cup CutAnswers \cup NoiseAnswers}
  \cup {<<a, b>> : a \in Links, b \in Downs}
  \cup {<<Done, a>> : a \in Links}
  \cup {<<a, Refusal, b>> : a \in Links, b \in Downs}
=============================================================================
