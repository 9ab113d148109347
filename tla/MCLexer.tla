------------------------------ MODULE MCLexer -------------------------------
(* Interface lists of up to two elements in each part, for TLC, and keywords  *)
(* of three letters with every way they can share a beginning.  Two words of  *)
(* a mask hold the ports, as in the program.  The buffers are small, so that  *)
(* there are lists and masks below, between and beyond their sizes.           *)
EXTENDS Lexer

N(n) == Elem("plain", n, n, FALSE)
R(a, b) == Elem("plain", a, b, TRUE)
L(c) == Elem(c, 0, 0, FALSE)

MCSlotLimit == 14
MCPortLimit == 32
MCWordSize == 16
MCIntMax == 999
MCPartSize == 20
MCTextSize == 32
MCOverwritten == {[j \in 1 .. 6 |-> {}], [j \in 1 .. 6 |-> Bits]}

SlotParts == {<<N(1)>>, <<N(9)>>, <<N(2), N(12)>>, <<R(1, 3)>>, <<Star>>}
ModuleParts == {<<L("r")>>, <<L("f"), L("b")>>, <<Star>>}
PortParts == {<<N(1)>>, <<R(15, 18)>>, <<N(2), R(30, 32)>>, <<N(33)>>, <<N(1), R(3, 2)>>, <<Star>>}

\* The numbers from 11 on: six of them with their commas are 18 characters.
From11(n) == [k \in 1 .. n |-> N(10 + k)]
LongWords ==
  {<<<<L("b")>>, From11(6)>>, <<<<L("b")>>, From11(7)>>, <<<<N(3)>>, <<L("b")>>, From11(7)>>,
   <<From11(7), <<L("b")>>, <<N(1)>>>>, <<<<Star>>, <<L("b")>>, From11(7)>>}

MCKeywords ==
  {<<1>>, <<1, 2>>, <<1, 2, 3, 3>>, <<1, 2, 3, 4>>, <<1, 2, 4>>, <<1, 3, 1>>,
   <<2, 1, 1>>, <<3, 1, 2>>, <<3, 1, 3>>, <<3, 2, 2>>}
MCPointer == {0, 3, 4, 15}
\* Every beginning of a keyword, and what is none.
Typed ==
  UNION {{SubSeq(k, 1, n) : n \in DOMAIN k} : k \in MCKeywords}
    \cup {<<4>>, <<1, 4>>, <<2, 1, 1, 1>>, <<1, 2, 3, 2>>}

MCWords ==
  {<<s, m, p>> : s \in SlotParts, m \in ModuleParts, p \in PortParts \ {<<N(33)>>}}
  \cup {<<m, p>> : m \in ModuleParts \ {<<Star>>}, p \in PortParts}
  \cup {<<p>> : p \in PortParts \ {<<Star>>}}
  \cup {<<<<Elem(how, 5, 5, FALSE)>>>> : how \in {"plain", "zero", "0x"}}
  \cup {<<<<Elem("mark", 0, 0, FALSE)>>>>} \cup LongWords
  \cup {<<[k \in DOMAIN t |-> Elem("character", t[k], t[k], FALSE)]>> : t \in Typed}

WordBits(first, j) == {b \in Bits : (j - 1) * MCWordSize + b + 1 \in first}
PortMask(set) == [j \in 1 .. 4 |-> WordBits(set, j)]
MCMasks ==
  {[slots |-> s, modules |-> m, ports |-> PortMask(p)] :
     s \in {{0}, {0, 1}, {8, 10}, {0, 2, 4}, {12, 13}},
     m \in (SUBSET ModuleBits) \ {{}},
     p \in {{1}, {32}, {15, 16, 17}, {1, 3}, 1 .. 32, {1, 2, 4, 30, 31, 32},
             {2 * n - 1 : n \in 1 .. 10}, {2 * n - 1 : n \in 1 .. 16}}}
=============================================================================
