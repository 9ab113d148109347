----------------------- MODULE DisplayEncoding_proofs -----------------------
(***************************************************************************)
(* Proofs about the display of answers that are encoded as the reader      *)
(* expects them, for every set of encodings, of any length and depth, for  *)
(* all sequences of such answers, whole or cut off anywhere, and of others *)
(* that promise nothing.                                                   *)
(*                                                                         *)
(* The invariant Following says that the tasks on the stack, one behind    *)
(* the other, fit the parts of the answer between the reader and its end,  *)
(* and the cells between what is printed and what was meant; after an      *)
(* error it says that all cells that have arrived have been printed.       *)
(***************************************************************************)
EXTENDS DisplayEncoding, Display_proofs, WellFoundedInduction

-----------------------------------------------------------------------------
(* Where the reader stands in an encoded answer. *)

\* A spot, and whether the line is still without a cell.
Place == [at: Nat, cells: Nat, fresh: BOOLEAN]
\* A line has been begun for the cell that comes next, or there is no cell yet.
Begun(s) == s.fresh \/ s.cells = 0

\* The cells between two places stand in one row, whose line they begin if it is
\* fresh.
Rowed(e, i, j, fresh) == \A c \in i + 1 .. j : c > 1 => (NewRow(e, c) <=> fresh /\ c = i + 1)
Stretch(e, s, t) ==
  /\ s.cells <= t.cells
  /\ Rowed(e, s.cells, t.cells, s.fresh)
  /\ t.fresh <=> s.fresh /\ t.cells = s.cells
\* n lines that are ended.
LinesEnd(n, s, t) == Begun(s) /\ (t.fresh <=> s.fresh \/ n > 0)

\* Part k is of a kind, begins at one place and leads to another.
IsA(e, k, kind) == k \in 1 .. Len(e.parts) /\ e.parts[k].kind = kind
From(e, k, s) == e.parts[k].at = s.at /\ e.parts[k].before = s.cells
To(e, k, t) == e.parts[k].end = t.at /\ e.parts[k].upto = t.cells
Several(e, kind, n, s, t) ==
  \E ks \in Seq(Nat) : Len(ks) = n /\ All(e, ks, kind) /\ Run(e, ks, s, t)

\* A task takes the reader from one place to another.
FitsLoop(e, kind, n, s, t) == Several(e, kind, n, s, t) /\ LinesEnd(n, s, t)
\* The names and the rows of a list, of which the task has counted the rows.
FitsList(e, f, s, t) ==
  /\ \E k \in 1 .. Len(e.parts) :
       /\ IsA(e, k, "list") /\ From(e, k, s) /\ To(e, k, t)
       /\ e.parts[k].style = f.style /\ HasRows(e, e.parts[k], f.n)
  /\ f.style = "table" => t.fresh
  /\ f.style = "sparse" => LinesEnd(f.n, s, t)
\* Rows whose columns are the names that have been read.
FitsRows(e, style, heads, n, s, t) ==
  /\ style \in {"table", "sparse"}
  /\ \E ks \in Seq(Nat) :
       /\ Len(ks) = n /\ All(e, ks, "row") /\ Run(e, ks, s, t)
       /\ \A k \in 1 .. Len(ks) : e.parts[ks[k]].style = style /\ e.parts[ks[k]].heads = heads
  /\ LinesEnd(n, s, t)
\* A cell of a table goes by its place, that of a sparse row by its key.
CellOfColumn(e, k, style, heads, j) ==
  \/ style = "table" /\ e.parts[k].kind = "value" /\ j <= Len(heads) /\ e.parts[k].fmt = heads[j]
  \/ style = "sparse" /\ e.parts[k].kind = "sparse" /\ e.parts[k].heads = heads
FitsCells(e, f, s, t) ==
  /\ \E ks \in Seq(Nat) :
       /\ Len(ks) = f.n /\ Run(e, ks, s, t)
       /\ \A j \in 1 .. Len(ks) : CellOfColumn(e, ks[j], f.style, f.heads, j)
  /\ Stretch(e, s, t)
\* Values, pairs and a single value stand in one row.
FitsValues(e, n, s, t) ==
  /\ \E ks \in Seq(Nat) : Len(ks) = n /\ Plain(e, ks) /\ Run(e, ks, s, t)
  /\ Stretch(e, s, t)
FitsPairs(e, n, s, t) == Several(e, "pair", n, s, t) /\ Stretch(e, s, t)
FitsOne(e, kind, fmt, s, t) ==
  /\ \E k \in 1 .. Len(e.parts) :
       IsA(e, k, kind) /\ e.parts[k].fmt = fmt /\ From(e, k, s) /\ To(e, k, t)
  /\ Stretch(e, s, t)
\* The first tag of the part has been read.
OpenAt(e, kind, fmt, at, s, t) ==
  /\ \E k \in 1 .. Len(e.parts) :
       /\ IsA(e, k, kind) /\ e.parts[k].fmt = fmt /\ To(e, k, t)
       /\ e.parts[k].at = at /\ at + 1 = s.at /\ e.parts[k].before = s.cells
  /\ Stretch(e, s, t)
FitsUnpack(e, fmt, tag, at, s, t) == OpenAt(e, "value", fmt, at, s, t) /\ e.bytes[at] = tag
\* A tag that is unpacked once more, or not at all.
FitsAgain(e, f, s, t) ==
  \/ f.n = 0 /\ s = t
  \/ f.n = 1 /\ FitsUnpack(e, NoFormat, f.tag, f.at, s, t)
\* A format is given its number, is unknown, or reads for itself.
FitsSpecial(e, f, s, t) ==
  \/ f.fmt \in GivenOnes /\ f.tag.t = "uint" /\ FitsUnpack(e, f.fmt, f.tag, f.at, s, t)
  \/ f.fmt = "?" /\ s = t
  \/ f.fmt \in SelfReading /\ FitsOne(e, "special", f.fmt, s, t)
\* Of a list of ports the last entry is shown when the list has ended.
FitsEntries(e, f, s, t) ==
  \/ /\ f.fmt # "p" /\ Stretch(e, s, t)
     /\ \E ks \in Seq(Nat) :
          /\ Len(ks) = f.n /\ All(e, ks, "entry") /\ Run(e, ks, s, t)
          /\ \A k \in 1 .. Len(ks) : e.parts[ks[k]].fmt = f.fmt
  \/ f.fmt = "p" /\ f.n = 1 /\ \E at \in Nat : OpenAt(e, "special", "p", at, s, t)
  \/ /\ f.fmt = "p" /\ f.n = 0 /\ f.last # <<>> /\ t.at = s.at /\ t.cells = s.cells + 1
     /\ IsCell(e, t.cells, "p", f.last, f.at, t.at) /\ Stretch(e, s, t)

\* Each task by what it has still to do.
Fits(e, f, s, t) ==
  /\ f.do \notin {"answer", "names"}
  /\ f.do = "newline" => t.at = s.at /\ t.cells = s.cells /\ t.fresh
  /\ f.do = "elements" => FitsLoop(e, "element", f.n, s, t)
  /\ f.do = "groups" => FitsLoop(e, "group", f.n, s, t)
  /\ f.do = "blocks" => FitsLoop(e, "block", f.n, s, t)
  /\ f.do = "lines" => FitsLoop(e, "line", f.n, s, t)
  /\ f.do = "list" => FitsList(e, f, s, t)
  /\ f.do = "rows" => FitsRows(e, f.style, f.heads, f.n, s, t)
  /\ f.do = "cells" => FitsCells(e, f, s, t)
  /\ f.do = "values" => FitsValues(e, f.n, s, t)
  /\ f.do = "pairs" => FitsPairs(e, f.n, s, t)
  /\ f.do = "cell" => FitsOne(e, "value", f.fmt, s, t)
  /\ f.do = "unpack" => FitsUnpack(e, f.fmt, f.tag, f.at, s, t)
  /\ f.do = "again" => FitsAgain(e, f, s, t)
  /\ f.do = "special" => FitsSpecial(e, f, s, t)
  /\ f.do = "entries" => FitsEntries(e, f, s, t)

\* The tasks of a stack take it from one place to the next.
Linked(e, stack, b) == \A k \in 1 .. Len(stack) : Fits(e, stack[k], b[k], b[k + 1])
\* So do all of them together.
Chain(e, stack, s, t) ==
  \E b \in [1 .. Len(stack) + 1 -> Place] : b[1] = s /\ b[Len(stack) + 1] = t /\ Linked(e, stack, b)
\* While names are read, the rows below wait for the formats in them.
Formatted(e, ks) == [k \in 1 .. Len(ks) |-> e.parts[ks[k]].fmt]
NamesToRows(e, stack, s, t) ==
  /\ Len(stack) >= 2 /\ stack[1].do = "names" /\ stack[2].do = "rows"
  /\ \E ks \in Seq(Nat), m, r \in Place :
       /\ Len(ks) = stack[1].n /\ All(e, ks, "name") /\ Run(e, ks, s, m) /\ m.fresh = s.fresh
       /\ FitsRows(e, stack[2].style, stack[2].heads \o Formatted(e, ks), stack[2].n, m, r)
       /\ Chain(e, Tail(Tail(stack)), r, t)
\* The stack takes the reader to the end.
Leads(e, stack, s, t) ==
  \/ Chain(e, stack, s, t)
  \/ NamesToRows(e, stack, s, t)
  \/ stack # <<>> /\ Head(stack).do = "newline" /\ NamesToRows(e, Tail(stack), [s EXCEPT !.fresh = TRUE], t)
  \/ stack = <<Task("answer", 1)>> /\ s.at = 1 /\ s.cells = 0 /\ ~s.fresh

\* The reader of the state, and the end of an answer.
Unbroken == IF out = <<>> THEN line > 0 ELSE out[Len(out)].line < line
Here == [at |-> pos, cells |-> Len(out), fresh |-> Unbroken]
Finished(e, t) == t.at = Len(e.bytes) + 1 /\ t.cells = Len(e.meant)

\* What is printed so far is what was meant, line by line, and port_link_flag
\* is that of the link shown last.
ShownSoFar(e) ==
  /\ Len(out) <= Len(e.meant)
  /\ \A k \in 1 .. Len(out) : Told(out[k]) = Told(e.meant[k])
  /\ \A k \in 2 .. Len(out) : out[k - 1].line = out[k].line <=> ~NewRow(e, k)
  /\ \A j \in 1 .. Len(out) :
       out[j].fmt = "l" /\ (\A i \in j + 1 .. Len(out) : out[i].fmt # "l") => out[j].val = <<port_link_flag>>
\* Without an error the rest of the answer is what the stack waits for.
Aligned(e) == ShownSoFar(e) /\ \E t \in Place : Finished(e, t) /\ Leads(e, todo, Here, t)

\* After an error: what arrived has been shown.
Arrived(a, e) ==
  ~a.whole /\ \A k \in 1 .. Len(e.meant) :
    e.meant[k].end <= Len(a.content) => k <= Len(out) /\ Told(out[k]) = Told(e.meant[k])
\* The invariant, of every encoding that the answer on the screen carries.
Follows(e) == IF err THEN Arrived(Head(res), e) ELSE Aligned(e)
Following == showing => \A e \in Encodings : Carries(Head(res), e) => Follows(e)

-----------------------------------------------------------------------------
(* Places. *)
LEMMA SamePlace ==
  ASSUME NEW s \in Place, NEW t \in Place, s.at = t.at, s.cells = t.cells, s.fresh = t.fresh
  PROVE  s = t
BY DEF Place

LEMMA HereType == ASSUME DisplayInv PROVE Here \in Place
<1>1. pos \in Nat /\ Len(out) \in Nat /\ Unbroken \in BOOLEAN
  <2>1. out \in Seq(Printed) /\ line \in Nat /\ pos \in Nat
    BY DEF DisplayInv
  <2>2. Len(out) \in Nat
    BY <2>1
  <2>3. CASE out = <<>>
    BY <2>1, <2>2, <2>3 DEF Unbroken
  <2>4. CASE out # <<>>
    <3>1. out[Len(out)] \in Printed
      BY <2>1, <2>4
    <3>2. out[Len(out)].line \in Nat
      BY <3>1 DEF Printed
    <3>3. (out[Len(out)].line < line) \in BOOLEAN
      BY <2>1, <3>2
    <3> QED
      BY <2>1, <2>2, <2>4, <3>3 DEF Unbroken
  <2> QED
    BY <2>3, <2>4
<1> QED
  BY <1>1 DEF Here, Place

LEMMA StretchSplit ==
  ASSUME NEW e, NEW s \in Place, NEW m \in Place, NEW t \in Place, Stretch(e, s, t),
         s.cells <= m.cells, m.cells <= t.cells, m.fresh <=> s.fresh /\ m.cells = s.cells
  PROVE  Stretch(e, s, m) /\ Stretch(e, m, t)
<1>1. s.cells \in Nat /\ m.cells \in Nat /\ t.cells \in Nat
  BY DEF Place
<1>2. Rowed(e, s.cells, m.cells, s.fresh)
  BY <1>1 DEF Stretch, Rowed
<1>3. Rowed(e, m.cells, t.cells, m.fresh)
  <2> SUFFICES ASSUME NEW c \in m.cells + 1..t.cells, c > 1
               PROVE  NewRow(e, c) <=> m.fresh /\ c = m.cells + 1
    BY DEF Rowed
  <2>1. c \in s.cells + 1..t.cells
    BY <1>1
  <2>2. NewRow(e, c) <=> s.fresh /\ c = s.cells + 1
    BY <2>1 DEF Stretch, Rowed
  <2>3. c = s.cells + 1 <=> m.cells = s.cells /\ c = m.cells + 1
    BY <1>1
  <2> QED
    BY <2>2, <2>3
<1>4. t.fresh <=> m.fresh /\ t.cells = m.cells
  BY <1>1 DEF Stretch
<1>5. m.fresh <=> s.fresh /\ m.cells = s.cells
  OBVIOUS
<1> QED
  BY <1>2, <1>3, <1>4, <1>5 DEF Stretch

\* A part of one row that begins at a place where a line begins.
LEMMA RowStretch ==
  ASSUME NEW e, NEW p, OneRow(e, p), NEW s \in Place, NEW t \in Place, Begun(s),
         p.before = s.cells, p.upto = t.cells, p.before <= p.upto, t.fresh <=> s.fresh /\ t.cells = s.cells
  PROVE  Stretch(e, s, t)
<1>1. s.cells \in Nat /\ t.cells \in Nat
  BY DEF Place
<1>2. Rowed(e, s.cells, t.cells, s.fresh)
  <2> SUFFICES ASSUME NEW c \in s.cells + 1..t.cells, c > 1
               PROVE  NewRow(e, c) <=> s.fresh /\ c = s.cells + 1
    BY DEF Rowed
  <2>1. NewRow(e, c) <=> c = s.cells + 1
    BY DEF OneRow
  <2>2. c = s.cells + 1 => s.fresh
    BY <1>1 DEF Begun
  <2> QED
    BY <2>1, <2>2
<1> QED
  BY <1>2 DEF Stretch

(* Runs. *)
LEMMA RunNone ==
  ASSUME NEW e, NEW ks, ks = <<>>, NEW s, NEW t, Run(e, ks, s, t)
  PROVE  t.at = s.at /\ t.cells = s.cells
BY DEF Run

\* The first part of a run and the rest.
LEMMA RunSplit ==
  ASSUME NEW e, NEW ks \in Seq(Nat), ks # <<>>, NEW s, NEW t, Run(e, ks, s, t), NEW m,
         m.at = e.parts[ks[1]].end, m.cells = e.parts[ks[1]].upto
  PROVE  /\ ks[1] \in 1..Len(e.parts) /\ From(e, ks[1], s) /\ To(e, ks[1], m)
         /\ Run(e, Tail(ks), m, t) /\ Tail(ks) \in Seq(Nat) /\ Len(Tail(ks)) = Len(ks) - 1
         /\ \A k \in 1..Len(Tail(ks)) : Tail(ks)[k] = ks[k + 1] /\ k + 1 \in 1..Len(ks)
<1> DEFINE rest == Tail(ks)
<1>1. /\ Len(ks) \in Nat \ {0} /\ rest \in Seq(Nat) /\ Len(rest) = Len(ks) - 1
      /\ \A k \in 1..Len(rest) : rest[k] = ks[k + 1] /\ k + 1 \in 1..Len(ks)
  OBVIOUS
<1>2. ks[1] \in 1..Len(e.parts) /\ From(e, ks[1], s) /\ To(e, ks[1], m)
  BY <1>1 DEF Run, From, To
<1> HIDE DEF rest
<1>3. \A k \in 1..Len(rest) : rest[k] \in 1..Len(e.parts)
  BY <1>1 DEF Run
<1>4. \A k \in 2..Len(rest) : /\ e.parts[rest[k]].at = e.parts[rest[k - 1]].end
                              /\ e.parts[rest[k]].before = e.parts[rest[k - 1]].upto
  <2> SUFFICES ASSUME NEW k \in 2..Len(rest)
               PROVE  /\ e.parts[rest[k]].at = e.parts[rest[k - 1]].end
                      /\ e.parts[rest[k]].before = e.parts[rest[k - 1]].upto
    OBVIOUS
  <2>1. /\ k \in 1..Len(rest) /\ k - 1 \in 1..Len(rest) /\ (k - 1) + 1 = k /\ (k + 1) - 1 = k
        /\ k + 1 \in 2..Len(ks)
    BY <1>1
  <2>2. rest[k] = ks[k + 1] /\ rest[k - 1] = ks[k]
    BY <1>1, <2>1
  <2> QED
    BY <2>1, <2>2 DEF Run
<1>5. CASE rest = <<>>
  <2>1. Len(ks) = 1
    BY <1>1, <1>5
  <2>2. m.at = t.at /\ m.cells = t.cells
    BY <2>1 DEF Run
  <2> QED
    BY <1>1, <1>2, <1>3, <1>4, <1>5, <2>2 DEF Run, rest
<1>6. CASE rest # <<>>
  <2>1. Len(rest) \in 1..Len(ks) /\ Len(rest) + 1 = Len(ks) /\ 2 \in 2..Len(ks)
    BY <1>1, <1>6
  <2>2. rest[1] = ks[2] /\ rest[Len(rest)] = ks[Len(ks)]
    BY <1>1, <2>1
  <2>3. e.parts[rest[1]].at = m.at /\ e.parts[rest[1]].before = m.cells
    <3>1. 2 - 1 = 1
      OBVIOUS
    <3> QED
      BY <2>1, <2>2, <3>1 DEF Run
  <2>4. e.parts[rest[Len(rest)]].end = t.at /\ e.parts[rest[Len(rest)]].upto = t.cells
    BY <2>2 DEF Run
  <2>5. Run(e, rest, m, t)
    BY <1>3, <1>4, <1>6, <2>3, <2>4 DEF Run
  <2> QED
    BY <1>1, <1>2, <2>5 DEF rest
<1> QED
  BY <1>5, <1>6

\* The first of several parts.
LEMMA SeveralSplit ==
  ASSUME NEW e, NEW kind, NEW n \in Nat \ {0}, NEW s, NEW t, Several(e, kind, n, s, t)
  PROVE  \E k \in 1..Len(e.parts) :
           /\ IsA(e, k, kind) /\ From(e, k, s)
           /\ \A m : To(e, k, m) => Several(e, kind, n - 1, m, t)
<1>1. PICK ks \in Seq(Nat) : Len(ks) = n /\ All(e, ks, kind) /\ Run(e, ks, s, t)
  BY DEF Several
<1>2. ks # <<>> /\ 1 \in 1..Len(ks)
  BY <1>1
<1> DEFINE m0 == Spot(e.parts[ks[1]].end, e.parts[ks[1]].upto)
<1>3. m0.at = e.parts[ks[1]].end /\ m0.cells = e.parts[ks[1]].upto
  BY DEF Spot
<1> HIDE DEF m0
<1>4. ks[1] \in 1..Len(e.parts) /\ From(e, ks[1], s)
  BY <1>1, <1>2, <1>3, RunSplit
<1>5. IsA(e, ks[1], kind)
  BY <1>1, <1>2, <1>4 DEF IsA, All
<1>6. ASSUME NEW m, To(e, ks[1], m) PROVE Several(e, kind, n - 1, m, t)
  <2>1. m.at = e.parts[ks[1]].end /\ m.cells = e.parts[ks[1]].upto
    BY <1>6 DEF To
  <2>2. /\ Run(e, Tail(ks), m, t) /\ Tail(ks) \in Seq(Nat) /\ Len(Tail(ks)) = Len(ks) - 1
        /\ \A k \in 1..Len(Tail(ks)) : Tail(ks)[k] = ks[k + 1] /\ k + 1 \in 1..Len(ks)
    BY <1>1, <1>2, <2>1, RunSplit
  <2>3. All(e, Tail(ks), kind)
    BY <1>1, <2>2 DEF All
  <2> QED
    BY <1>1, <2>2, <2>3 DEF Several
<1> QED
  BY <1>4, <1>5, <1>6

LEMMA SeveralNone ==
  ASSUME NEW e, NEW kind, NEW s, NEW t, Several(e, kind, 0, s, t)
  PROVE  t.at = s.at /\ t.cells = s.cells
<1>1. PICK ks \in Seq(Nat) : Len(ks) = 0 /\ Run(e, ks, s, t)
  BY DEF Several
<1>2. ks = <<>>
  BY <1>1
<1> QED
  BY <1>1, <1>2, RunNone

-----------------------------------------------------------------------------
(* Chains. *)
LEMMA ChainNone == ASSUME NEW e, NEW s \in Place PROVE Chain(e, <<>>, s, s)
<1> DEFINE b == [k \in 1..1 |-> s]
<1>1. Len(<<>>) = 0 /\ b \in [1..0 + 1 -> Place] /\ b[1] = s
  OBVIOUS
<1>2. Linked(e, <<>>, b)
  BY DEF Linked
<1> HIDE DEF b
<1> QED
  BY <1>1, <1>2 DEF Chain

LEMMA ChainEnd == ASSUME NEW e, NEW s, NEW t, Chain(e, <<>>, s, t) PROVE s = t
<1>1. Len(<<>>) = 0 /\ 0 + 1 = 1
  OBVIOUS
<1> QED
  BY <1>1 DEF Chain

\* One task more in front.
LEMMA ChainPut ==
  ASSUME NEW e, NEW f, NEW stack, NEW S, f \in S, stack \in Seq(S), NEW s \in Place, NEW m, NEW t,
         Fits(e, f, s, m), Chain(e, stack, m, t)
  PROVE  Chain(e, <<f>> \o stack, s, t)
<1> DEFINE whole == <<f>> \o stack
           n == Len(stack)
<1>1. PICK b \in [1..n + 1 -> Place] : b[1] = m /\ b[n + 1] = t /\ Linked(e, stack, b)
  BY DEF Chain
<1> DEFINE c == [k \in 1..n + 2 |-> IF k = 1 THEN s ELSE b[k - 1]]
<1>2. n \in Nat
  OBVIOUS
<1>3. /\ whole \in Seq(S) /\ Len(whole) = n + 1 /\ whole[1] = f
      /\ \A k \in 2..n + 1 : whole[k] = stack[k - 1]
  OBVIOUS
<1> HIDE DEF whole, n
<1>4. c \in [1..n + 2 -> Place] /\ c[1] = s /\ \A k \in 2..n + 2 : c[k] = b[k - 1]
  <2>1. \A k \in 1..n + 2 : k # 1 => k - 1 \in 1..n + 1
    BY <1>2
  <2> QED
    BY <1>1, <1>2, <2>1
<1> HIDE DEF c
<1>5. c[n + 2] = t /\ c[2] = m
  BY <1>1, <1>2, <1>4
<1>6. Linked(e, whole, c)
  <2> SUFFICES ASSUME NEW k \in 1..n + 1 PROVE Fits(e, whole[k], c[k], c[k + 1])
    BY <1>3 DEF Linked
  <2>1. CASE k = 1
    BY <1>3, <1>4, <1>5, <2>1
  <2>2. CASE k # 1
    <3>1. k - 1 \in 1..n /\ k \in 2..n + 1 /\ k \in 2..n + 2 /\ k + 1 \in 2..n + 2 /\ (k + 1) - 1 = (k - 1) + 1
      BY <1>2, <2>2
    <3>2. whole[k] = stack[k - 1] /\ c[k] = b[k - 1] /\ c[k + 1] = b[(k - 1) + 1]
      BY <1>3, <1>4, <3>1
    <3>3. Fits(e, stack[k - 1], b[k - 1], b[(k - 1) + 1])
      BY <1>1, <3>1 DEF Linked, n
    <3> QED
      BY <3>2, <3>3
  <2> QED
    BY <2>1, <2>2
<1>7. Len(whole) + 1 = n + 2
  BY <1>2, <1>3
<1> QED
  BY <1>4, <1>5, <1>6, <1>7 DEF Chain, whole

\* The first task of a chain.
LEMMA ChainTake ==
  ASSUME NEW e, NEW stack, NEW S, stack \in Seq(S), stack # <<>>, NEW s, NEW t, Chain(e, stack, s, t)
  PROVE  s \in Place /\ t \in Place
         /\ \E m \in Place : Fits(e, Head(stack), s, m) /\ Chain(e, Tail(stack), m, t)
<1> DEFINE rest == Tail(stack)
           n == Len(rest)
<1>1. /\ n \in Nat /\ Len(stack) = n + 1 /\ Head(stack) = stack[1] /\ rest \in Seq(S)
      /\ \A k \in 1..n : rest[k] = stack[k + 1]
  OBVIOUS
<1> HIDE DEF rest
<1>2. PICK b \in [1..n + 2 -> Place] : b[1] = s /\ b[n + 2] = t /\ Linked(e, stack, b)
  <2>1. (n + 1) + 1 = n + 2
    BY <1>1
  <2> QED
    BY <1>1, <2>1 DEF Chain
<1> DEFINE c == [k \in 1..n + 1 |-> b[k + 1]]
<1>3. c \in [1..n + 1 -> Place] /\ \A k \in 1..n + 1 : c[k] = b[k + 1]
  <2>1. \A k \in 1..n + 1 : k + 1 \in 1..n + 2
    BY <1>1
  <2> QED
    BY <1>2, <2>1
<1> HIDE DEF c
<1>4. s \in Place /\ t \in Place /\ b[2] \in Place
  BY <1>1, <1>2
<1>5. Fits(e, Head(stack), s, b[2])
  <2>1. 1 \in 1..Len(stack) /\ 1 + 1 = 2
    BY <1>1
  <2> QED
    BY <1>1, <1>2, <2>1 DEF Linked
<1>6. c[1] = b[2] /\ c[n + 1] = t
  <2>1. 1 \in 1..n + 1 /\ n + 1 \in 1..n + 1 /\ 1 + 1 = 2 /\ (n + 1) + 1 = n + 2
    BY <1>1
  <2> QED
    BY <1>2, <1>3, <2>1
<1>7. Linked(e, rest, c)
  <2> SUFFICES ASSUME NEW k \in 1..n PROVE Fits(e, rest[k], c[k], c[k + 1])
    BY DEF Linked
  <2>1. k + 1 \in 1..Len(stack) /\ k \in 1..n + 1 /\ k + 1 \in 1..n + 1
    BY <1>1
  <2>2. Fits(e, stack[k + 1], b[k + 1], b[(k + 1) + 1])
    BY <1>2, <2>1 DEF Linked
  <2> QED
    BY <1>1, <1>3, <2>1, <2>2
<1>8. Chain(e, rest, b[2], t)
  BY <1>3, <1>6, <1>7 DEF Chain
<1> QED
  BY <1>4, <1>5, <1>8 DEF rest

-----------------------------------------------------------------------------
(* Parts. *)
LEMMA EncodedType ==
  ASSUME NEW e \in Encodings
  PROVE  e.bytes \in Seq(Tag) /\ e.meant \in Seq(Meaning) /\ e.parts \in Seq(Part)
<1>1. WellEncoded(e)
  BY EncodingAssumption
<1> QED
  BY <1>1 DEF WellEncoded, Encoding

LEMMA ByteType ==
  ASSUME NEW e \in Encodings, NEW i \in 1..Len(e.bytes)
  PROVE  e.bytes[i] \in Tag
<1> DEFINE s == e.bytes
<1>1. s \in Seq(Tag) /\ i \in 1..Len(s)
  BY EncodedType
<1> HIDE DEF s
<1>2. s[i] \in Tag
  BY <1>1, ElementOfSeq
<1> QED
  BY <1>2 DEF s

LEMMA PartType ==
  ASSUME NEW e \in Encodings, NEW k \in 1..Len(e.parts)
  PROVE  /\ e.parts[k] \in Part /\ IsPart(e, e.parts[k]) /\ Located(e, e.parts[k])
         /\ e.parts[k].at \in Nat /\ e.parts[k].end \in Nat
         /\ e.parts[k].before \in Nat /\ e.parts[k].upto \in Nat
         /\ e.parts[k].kids \in Seq(Nat)
         /\ e.parts[k].at >= 1 /\ e.parts[k].at < e.parts[k].end
         /\ e.parts[k].end <= Len(e.bytes) + 1 /\ e.parts[k].before <= e.parts[k].upto
         /\ e.parts[k].upto <= Len(e.meant)
<1>1. WellEncoded(e)
  BY EncodingAssumption
<1>2. e.parts[k] \in Part /\ IsPart(e, e.parts[k]) /\ Located(e, e.parts[k])
  BY <1>1, EncodedType DEF WellEncoded
<1> QED
  BY <1>2 DEF Part, Located

\* How far the reader gets at least before the next cell is due.
Reach(e, q, cells) ==
  q \in Nat /\ q <= Len(e.bytes) + 1 /\ \A c \in cells + 1..Len(e.meant) : q - 1 <= e.meant[c].end

LEMMA ReachStart ==
  ASSUME NEW e \in Encodings, NEW k \in 1..Len(e.parts)
  PROVE  Reach(e, e.parts[k].at + 1, e.parts[k].before)
<1>1. \A c \in e.parts[k].before + 1..Len(e.meant) : e.parts[k].at <= e.meant[c].end
  BY PartType DEF Located
<1>2. e.parts[k].at \in Nat /\ (e.parts[k].at + 1) - 1 = e.parts[k].at
      /\ e.parts[k].at + 1 <= Len(e.bytes) + 1
  <2>1. e.parts[k].at \in Nat /\ e.parts[k].end \in Nat /\ e.parts[k].at < e.parts[k].end
        /\ e.parts[k].end <= Len(e.bytes) + 1 /\ Len(e.bytes) \in Nat
    BY PartType, EncodedType
  <2> QED
    BY <2>1
<1> QED
  BY <1>1, <1>2 DEF Reach

\* A part with a cell of its own is read as a whole before the cell is due.
LEMMA ReachEnd ==
  ASSUME NEW e \in Encodings, NEW k \in 1..Len(e.parts),
         \/ NoCell(e.parts[k])
         \/ \E fmt, val, at : OneCell(e, e.parts[k], fmt, val, at)
  PROVE  Reach(e, e.parts[k].end, e.parts[k].before)
<1> DEFINE p == e.parts[k]
<1>1. /\ p.end \in Nat /\ p.before \in Nat /\ p.upto \in Nat /\ p.end <= Len(e.bytes) + 1
      /\ \A c \in p.upto + 1..Len(e.meant) : p.end - 1 <= e.meant[c].end
  BY PartType DEF Located
<1>2. CASE NoCell(p)
  BY <1>1, <1>2 DEF Reach, NoCell
<1>3. CASE \E fmt, val, at : OneCell(e, p, fmt, val, at)
  <2>1. p.upto = p.before + 1 /\ e.meant[p.upto].end = p.end - 1
    BY <1>3 DEF OneCell, IsCell
  <2> HIDE DEF p
  <2>2. ASSUME NEW c \in p.before + 1..Len(e.meant) PROVE p.end - 1 <= e.meant[c].end
    <3>1. CASE c = p.upto
      BY <1>1, <2>1, <3>1
    <3>2. CASE c # p.upto
      <4>1. c \in p.upto + 1..Len(e.meant)
        BY <1>1, <2>1, <3>2
      <4> QED
        BY <1>1, <4>1
    <3> QED
      BY <3>1, <3>2
  <2> QED
    BY <1>1, <2>2 DEF Reach, p
<1> QED
  BY <1>2, <1>3

LEMMA FilledFirst ==
  ASSUME NEW e \in Encodings, NEW k \in 1..Len(e.parts), NEW n \in Nat, Filled(e, e.parts[k], n),
         e.parts[k].kids # <<>>
  PROVE  /\ e.parts[k].kids[1] \in 1..Len(e.parts) /\ 1 \in 1..Len(e.parts[k].kids)
         /\ Kid(e, e.parts[k], 1).at = e.parts[k].at + n
         /\ Kid(e, e.parts[k], 1).before = e.parts[k].before
<1>1. e.parts[k].kids \in Seq(Nat)
  BY PartType
<1>2. 1 \in 1..Len(e.parts[k].kids)
  BY <1>1
<1> QED
  BY <1>2 DEF Filled, Run, Spot, Kid

LEMMA ReachFilled ==
  ASSUME NEW e \in Encodings, NEW k \in 1..Len(e.parts), NEW n \in Nat, Filled(e, e.parts[k], n)
  PROVE  Reach(e, e.parts[k].at + n, e.parts[k].before)
<1> DEFINE p == e.parts[k]
<1>1. /\ p.at \in Nat /\ p.end \in Nat /\ p.end <= Len(e.bytes) + 1
      /\ \A c \in p.upto + 1..Len(e.meant) : p.end - 1 <= e.meant[c].end
  BY PartType DEF Located
<1>2. CASE p.kids = <<>>
  <2>1. p.end = p.at + n /\ p.upto = p.before
    BY <1>2 DEF Filled, Run, Spot
  <2> QED
    BY <1>1, <2>1 DEF Reach
<1>3. CASE p.kids # <<>>
  <2> DEFINE j == p.kids[1]
  <2>1. j \in 1..Len(e.parts) /\ e.parts[j].at = p.at + n /\ e.parts[j].before = p.before
    BY <1>3, FilledFirst DEF Kid
  <2>2. Reach(e, e.parts[j].at + 1, e.parts[j].before)
    BY <2>1, ReachStart
  <2>3. e.meant \in Seq(Meaning) /\ e.bytes \in Seq(Tag) /\ p.before \in Nat
    BY EncodedType, PartType
  <2>4. \A c \in p.before + 1..Len(e.meant) : e.meant[c].end \in Nat
    <3> SUFFICES ASSUME NEW c \in p.before + 1..Len(e.meant) PROVE e.meant[c].end \in Nat
      OBVIOUS
    <3>1. c \in 1..Len(e.meant)
      BY <2>3
    <3>2. e.meant[c] \in Meaning
      BY <2>3, <3>1
    <3> QED
      BY <3>2 DEF Meaning
  <2> HIDE DEF p, j
  <2> DEFINE q == p.at + n
  <2>5. q \in Nat /\ Reach(e, q + 1, p.before)
    BY <1>1, <2>1, <2>2
  <2> HIDE DEF q
  <2>6. q <= Len(e.bytes) + 1
    BY <2>3, <2>5 DEF Reach
  <2>7. \A c \in p.before + 1..Len(e.meant) : q - 1 <= e.meant[c].end
    BY <2>3, <2>4, <2>5, SMTT(30) DEF Reach
  <2> QED
    BY <2>5, <2>6, <2>7 DEF Reach, p, q
<1> QED
  BY <1>2, <1>3

-----------------------------------------------------------------------------
(* The reader in an encoded answer. *)
Ready(e) ==
  /\ DisplayInv /\ showing /\ err = FALSE
  /\ e \in Encodings /\ Carries(Head(res), e) /\ ShownSoFar(e)

LEMMA ReadyTypes ==
  ASSUME NEW e, Ready(e)
  PROVE  /\ e \in Encodings /\ e.bytes \in Seq(Tag) /\ e.meant \in Seq(Meaning)
         /\ Content \in Seq(Tag) /\ Len(Content) \in Nat /\ Len(e.bytes) \in Nat
         /\ Len(Content) <= Len(e.bytes) /\ pos \in 1..Len(Content) + 1 /\ pos \in Nat
         /\ \A k \in 1..Len(Content) : Content[k] = e.bytes[k]
         /\ out \in Seq(Printed) /\ Len(out) \in Nat /\ Len(out) <= Len(e.meant) /\ Len(e.meant) \in Nat
         /\ Here \in Place /\ Here.at = pos /\ Here.cells = Len(out) /\ Here.fresh = Unbroken
         /\ line \in Nat
<1>1. e \in Encodings /\ e.bytes \in Seq(Tag) /\ e.meant \in Seq(Meaning)
  BY EncodedType DEF Ready
<1>2. Content \in Seq(Tag) /\ pos \in 1..Len(Content) + 1 /\ pos \in Nat
  BY ContentType DEF Ready, DisplayInv, Placed
<1>3. Len(Content) <= Len(e.bytes) /\ \A k \in 1..Len(Content) : Content[k] = e.bytes[k]
  BY DEF Ready, Carries, Content
<1>4. out \in Seq(Printed) /\ Len(out) <= Len(e.meant) /\ line \in Nat
  BY DEF Ready, DisplayInv, ShownSoFar
<1>5. Here \in Place
  BY HereType DEF Ready
<1> QED
  BY <1>1, <1>2, <1>3, <1>4, <1>5 DEF Here

LEMMA AheadIs ==
  ASSUME NEW e, Ready(e), NEW k \in Nat
  PROVE  /\ pos + k <= Len(Content) => Ahead(k) = e.bytes[pos + k] /\ Ahead(k).v \in Nat
         /\ ~(pos + k <= Len(Content)) => Ahead(k) = Nil
<1>1. ~err /\ pos \in Nat /\ pos >= 1 /\ Len(Content) \in Nat
      /\ \A j \in 1..Len(Content) : Content[j] = e.bytes[j]
  <2>1. err = FALSE
    BY DEF Ready
  <2>2. pos \in 1..Len(Content) + 1 /\ Len(Content) \in Nat /\ pos \in Nat
        /\ \A j \in 1..Len(Content) : Content[j] = e.bytes[j]
    BY ReadyTypes
  <2> QED
    BY <2>1, <2>2
<1>2. pos + k <= Len(Content) => pos + k \in 1..Len(Content)
  BY <1>1
<1>3. Ahead(k).v \in Nat
  BY AheadType DEF Ready
<1> HIDE DEF Content
<1> QED
  BY <1>1, <1>2, <1>3 DEF Ahead

LEMMA ReadableIs ==
  ASSUME NEW e, Ready(e), NEW n
  PROVE  Readable(n) <=> pos + n - 1 <= Len(Content)
BY DEF Readable, Ready

\* n numbers that have arrived.
LEMMA NumbersAre ==
  ASSUME NEW e, Ready(e), NEW k \in Nat, NEW n \in Nat, pos + k + n - 1 <= Len(Content)
  PROVE  Numbers(k, n) = ValuesAt(e, pos + k, n)
<1>1. pos \in Nat /\ Len(Content) \in Nat
  BY ReadyTypes
<1>2. ASSUME NEW j \in 1..n PROVE Ahead(k + j - 1).v = e.bytes[(pos + k) + j - 1].v
  <2>1. k + j - 1 \in Nat /\ pos + (k + j - 1) <= Len(Content) /\ pos + (k + j - 1) = (pos + k) + j - 1
    BY <1>1
  <2> QED
    BY <2>1, AheadIs
<1> QED
  BY <1>2 DEF Numbers, ValuesAt

-----------------------------------------------------------------------------
(* What a step of a task can come to. *)

\* The answer has been cut off before the next cell was complete.
LEMMA Failing ==
  ASSUME NEW e, Ready(e), UNCHANGED outer, err' = TRUE,
         out' = out \/ \E c : out' = Append(out, c),
         NEW q, Reach(e, q, Len(out)), q - 1 > Len(Content)
  PROVE  Follows(e)'
<1>1. res' = res /\ Head(res)' = Head(res)
  BY DEF outer
<1> DEFINE a == Head(res)
<1>2. Carries(a, e) /\ a.content = Content
  BY DEF Ready, Content
<1>3. q \in Nat /\ q <= Len(e.bytes) + 1 /\ Len(Content) \in Nat /\ Len(e.bytes) \in Nat
  BY ReadyTypes DEF Reach
<1>4. ~a.whole
  BY <1>2, <1>3 DEF Carries
<1>5. ASSUME NEW k \in 1..Len(e.meant), e.meant[k].end <= Len(Content)
      PROVE  k <= Len(out') /\ Told(out'[k]) = Told(e.meant[k])
  <2>1. out \in Seq(Printed) /\ Len(out) \in Nat /\ e.meant \in Seq(Meaning) /\ Len(e.meant) \in Nat
    BY ReadyTypes
  <2>2. e.meant[k] \in Meaning /\ e.meant[k].end \in Nat
    <3>1. e.meant[k] \in Meaning
      BY <2>1
    <3> QED
      BY <3>1 DEF Meaning
  <2>3. k <= Len(out)
    <3> SUFFICES ASSUME ~(k <= Len(out)) PROVE FALSE
      OBVIOUS
    <3>1. k \in Len(out) + 1..Len(e.meant)
      BY <2>1
    <3>2. q - 1 <= e.meant[k].end
      BY <3>1 DEF Reach
    <3> QED
      BY <1>3, <1>5, <2>2, <3>2
  <2>4. k <= Len(out') /\ out'[k] = out[k]
    <3>1. CASE out' = out
      BY <2>3, <3>1
    <3>2. CASE \E c : out' = Append(out, c)
      <4>1. PICK c : out' = Append(out, c)
        BY <3>2
      <4>2. Len(out') = Len(out) + 1 /\ \A j \in 1..Len(out) : out'[j] = out[j]
        BY <2>1, <4>1
      <4> QED
        BY <2>1, <2>3, <4>2
    <3> QED
      BY <3>1, <3>2
  <2>5. k \in 1..Len(out)
    BY <2>1, <2>3
  <2> QED
    BY <2>4, <2>5 DEF Ready, ShownSoFar
<1>6. Arrived(a, e)'
  BY <1>1, <1>2, <1>4, <1>5 DEF Arrived
<1> QED
  BY <1>1, <1>6 DEF Follows

LEMMA ShownStays ==
  ASSUME NEW e, ShownSoFar(e), UNCHANGED shown, UNCHANGED port_link_flag
  PROVE  ShownSoFar(e)' /\ Unbroken' = Unbroken
BY DEF ShownSoFar, shown, Unbroken

\* Nothing is shown, and what is left to do begins where the reader is now.
LEMMA Passing ==
  ASSUME NEW e, Ready(e), UNCHANGED outer, UNCHANGED shown, UNCHANGED port_link_flag,
         err' = FALSE, NEW t \in Place, Finished(e, t), Leads(e, todo', Here', t)
  PROVE  Follows(e)'
<1>1. ShownSoFar(e)'
  BY ShownStays DEF Ready
<1>2. Finished(e, t)'
  BY DEF Finished
<1>3. Aligned(e)'
  BY <1>1, <1>2 DEF Aligned, Leads
<1> QED
  BY <1>3 DEF Follows

LEMMA Printing ==
  ASSUME NEW e, Ready(e), UNCHANGED outer, err' = FALSE,
         NEW fmt, NEW val, NEW at, PrintCell(fmt, val, at),
         NEW end, IsCell(e, Len(out) + 1, fmt, val, at, end),
         Len(out) >= 1 => (NewRow(e, Len(out) + 1) <=> Unbroken),
         \/ fmt # "l" /\ UNCHANGED port_link_flag
         \/ fmt = "l" /\ val = <<port_link_flag'>>,
         NEW m \in Place, m.at = pos', m.cells = Len(out) + 1, ~m.fresh,
         NEW t \in Place, Finished(e, t), Chain(e, todo', m, t)
  PROVE  Follows(e)'
<1> DEFINE c == [fmt |-> fmt, val |-> val, at |-> at, line |-> line]
           n == Len(out)
<1>1. out' = Append(out, c) /\ line' = line
  BY DEF PrintCell
<1>2. c.fmt = fmt /\ c.val = val /\ c.at = at /\ c.line = line
  OBVIOUS
<1> HIDE DEF c
<1>3. out \in Seq(Printed) /\ n \in Nat /\ n <= Len(e.meant) /\ Len(e.meant) \in Nat /\ line \in Nat
  BY ReadyTypes
<1>4. Len(out') = n + 1 /\ out'[n + 1] = c /\ out' # <<>> /\ \A k \in 1..n : out'[k] = out[k]
  BY <1>1, <1>3
<1>5. /\ n + 1 \in 1..Len(e.meant)
      /\ e.meant[n + 1].fmt = fmt /\ e.meant[n + 1].val = val /\ e.meant[n + 1].at = at
  BY DEF IsCell
<1>6. Told(c) = Told(e.meant[n + 1])
  BY <1>2, <1>5 DEF Told
<1>7. /\ \A k \in 1..n : Told(out[k]) = Told(e.meant[k])
      /\ \A k \in 2..n : out[k - 1].line = out[k].line <=> ~NewRow(e, k)
      /\ \A j \in 1..n :
           out[j].fmt = "l" /\ (\A i \in j + 1..n : out[i].fmt # "l") => out[j].val = <<port_link_flag>>
  BY DEF Ready, ShownSoFar
<1>8. \A k \in 1..n + 1 : Told(out'[k]) = Told(e.meant[k])
  <2> SUFFICES ASSUME NEW k \in 1..n + 1 PROVE Told(out'[k]) = Told(e.meant[k])
    OBVIOUS
  <2>1. CASE k = n + 1
    BY <1>4, <1>6, <2>1
  <2>2. CASE k # n + 1
    <3>1. k \in 1..n
      BY <1>3, <2>2
    <3> QED
      BY <1>4, <1>7, <3>1
  <2> QED
    BY <2>1, <2>2
<1>9. n >= 1 => out[n].line <= line /\ out[n].line \in Nat /\ out # <<>>
  <2> SUFFICES ASSUME n >= 1 PROVE out[n].line <= line /\ out[n].line \in Nat /\ out # <<>>
    OBVIOUS
  <2>1. n \in 1..Len(out)
    BY <1>3
  <2>2. out[n] \in Printed /\ out # <<>>
    BY <1>3, <2>1
  <2> QED
    BY <2>1, <2>2 DEF Ready, DisplayInv, Printed
<1>10. \A k \in 2..n + 1 : out'[k - 1].line = out'[k].line <=> ~NewRow(e, k)
  <2> SUFFICES ASSUME NEW k \in 2..n + 1
               PROVE  out'[k - 1].line = out'[k].line <=> ~NewRow(e, k)
    OBVIOUS
  <2>1. CASE k = n + 1
    <3>1. n >= 1 /\ n \in 1..n /\ k - 1 = n
      BY <1>3, <2>1
    <3>2. out'[k - 1] = out[n] /\ out'[k].line = line
      BY <1>2, <1>4, <2>1, <3>1
    <3>3. NewRow(e, k) <=> Unbroken
      BY <2>1, <3>1
    <3>4. Unbroken <=> out[n].line < line
      BY <1>9, <3>1 DEF Unbroken
    <3> QED
      BY <1>3, <1>9, <3>1, <3>2, <3>3, <3>4
  <2>2. CASE k # n + 1
    <3>1. k \in 2..n /\ k \in 1..n /\ k - 1 \in 1..n
      BY <1>3, <2>2
    <3> QED
      BY <1>4, <1>7, <3>1
  <2> QED
    BY <2>1, <2>2
<1>11. \A j \in 1..n + 1 :
         out'[j].fmt = "l" /\ (\A i \in j + 1..n + 1 : out'[i].fmt # "l") => out'[j].val = <<port_link_flag'>>
  <2> SUFFICES ASSUME NEW j \in 1..n + 1, out'[j].fmt = "l", \A i \in j + 1..n + 1 : out'[i].fmt # "l"
               PROVE  out'[j].val = <<port_link_flag'>>
    OBVIOUS
  <2>1. CASE j = n + 1
    BY <1>2, <1>4, <2>1
  <2>2. CASE j # n + 1
    <3>1. j \in 1..n /\ n + 1 \in j + 1..n + 1
      BY <1>3, <2>2
    <3>2. fmt # "l"
      BY <1>2, <1>4, <3>1
    <3>3. \A i \in j + 1..n : i \in j + 1..n + 1 /\ i \in 1..n
      BY <1>3, <3>1
    <3>4. out[j].fmt = "l" /\ \A i \in j + 1..n : out[i].fmt # "l"
      BY <1>4, <3>1, <3>3
    <3>5. out[j].val = <<port_link_flag>>
      BY <1>7, <3>1, <3>4
    <3> QED
      BY <1>4, <3>1, <3>2, <3>5
  <2> QED
    BY <2>1, <2>2
<1>12. ShownSoFar(e)'
  <2>1. n + 1 <= Len(e.meant)
    BY <1>3, <1>5
  <2> QED
    BY <1>4, <1>8, <1>10, <1>11, <2>1 DEF ShownSoFar
<1>13. Here' = m
  <2>1. ~Unbroken'
    <3>1. out'[Len(out')].line = line
      BY <1>2, <1>4
    <3> QED
      BY <1>1, <1>3, <1>4, <3>1 DEF Unbroken
  <2> DEFINE h == [at |-> pos', cells |-> n + 1, fresh |-> FALSE]
  <2>2. Here' = h
    <3>1. Len(out') = n + 1 /\ Unbroken' = FALSE
      BY <1>4, <2>1 DEF Unbroken
    <3> QED
      BY <3>1 DEF Here
  <2>3. pos' \in Nat /\ n + 1 \in Nat
    BY <1>3 DEF Place
  <2>4. h \in Place /\ h.at = m.at /\ h.cells = m.cells /\ h.fresh = m.fresh
    BY <2>3 DEF Place
  <2> HIDE DEF h
  <2> QED
    BY <2>2, <2>4, SamePlace
<1>14. Aligned(e)'
  <2>1. Leads(e, todo', Here', t)
    BY <1>13 DEF Leads
  <2> QED
    BY <1>12, <2>1 DEF Aligned, Leads, Finished
<1> QED
  BY <1>14 DEF Follows

-----------------------------------------------------------------------------
(* The stack of a ready answer. *)
Bound(e, m, t) == m \in Place /\ t \in Place /\ Finished(e, t) /\ Chain(e, Tail(todo), m, t)

LEMMA TopFits ==
  ASSUME NEW e, Ready(e), Aligned(e), todo # <<>>, Top.do \notin {"names", "newline", "answer"}
  PROVE  \E m, t : Bound(e, m, t) /\ Fits(e, Top, Here, m)
<1>1. PICK t \in Place : Finished(e, t) /\ Leads(e, todo, Here, t)
  BY DEF Aligned
<1>2. todo \in Seq(Frame) /\ todo[1] = Head(todo)
  BY TopFrame DEF Ready, DisplayInv, Stacked
<1>3. ~NamesToRows(e, todo, Here, t)
  BY <1>2 DEF NamesToRows, Top
<1>4. todo # <<Task("answer", 1)>>
  <2>1. Task("answer", 1).do = "answer" /\ Head(<<Task("answer", 1)>>) = Task("answer", 1)
    BY DEF Task
  <2> QED
    BY <2>1 DEF Top
<1>5. Chain(e, todo, Here, t)
  BY <1>1, <1>3, <1>4 DEF Leads, Top
<1>6. \E m \in Place : Fits(e, Head(todo), Here, m) /\ Chain(e, Tail(todo), m, t)
  BY <1>2, <1>5, ChainTake
<1> QED
  BY <1>1, <1>6 DEF Bound, Top

LEMMA WiderSeq ==
  ASSUME NEW S, NEW T, S \subseteq T, NEW s \in Seq(S)
  PROVE  s \in Seq(T)
OBVIOUS

LEMMA ChainOne ==
  ASSUME NEW e, NEW rest \in Seq(Frame), NEW a, NEW s \in Place, NEW m, NEW t,
         Fits(e, a, s, m), Chain(e, rest, m, t)
  PROVE  Chain(e, <<a>> \o rest, s, t)
<1> DEFINE S == Frame \cup {a}
<1>1. rest \in Seq(S) /\ a \in S
  BY WiderSeq
<1> HIDE DEF S
<1> QED
  BY <1>1, ChainPut

LEMMA ConsRest ==
  ASSUME NEW S, NEW a \in S, NEW s \in Seq(S), NEW rest \in Seq(S)
  PROVE  (<<a>> \o s) \o rest = <<a>> \o (s \o rest) /\ <<a>> \o rest \in Seq(S) /\ s \o rest \in Seq(S)
<1>1. <<a>> \in Seq(S)
  OBVIOUS
<1> QED
  BY <1>1, ConcatAssociative, ConcatProperties

LEMMA FirstOfTwo == ASSUME NEW a, NEW b PROVE <<a, b>> = <<a>> \o <<b>>
<1> DEFINE S == {a, b}
           two == <<a, b>>
           both == <<a>> \o <<b>>
<1>1. two \in Seq(S) /\ Len(two) = 2 /\ two[1] = a /\ two[2] = b
  OBVIOUS
<1>2. both \in Seq(S) /\ Len(both) = 2 /\ both[1] = a /\ both[2] = b
  OBVIOUS
<1> HIDE DEF two, both, S
<1>3. \A i \in 1..Len(two) : two[i] = both[i]
  BY <1>1, <1>2
<1>4. two = both
  BY <1>1, <1>2, <1>3, SeqEqual
<1> QED
  BY <1>4 DEF two, both

LEMMA FirstOfThree == ASSUME NEW a, NEW b, NEW c PROVE <<a, b, c>> = <<a>> \o <<b, c>>
OBVIOUS

LEMMA FirstOfFour ==
  ASSUME NEW a, NEW b, NEW c, NEW d
  PROVE  <<a, b, c, d>> = <<a>> \o <<b, c, d>>
OBVIOUS

LEMMA FirstOfFive ==
  ASSUME NEW a, NEW b, NEW c, NEW d, NEW f
  PROVE  <<a, b, c, d, f>> = <<a>> \o <<b, c, d, f>>
OBVIOUS

LEMMA ChainTwo ==
  ASSUME NEW e, NEW rest \in Seq(Frame), NEW a, NEW b, NEW s \in Place, NEW u \in Place, NEW m, NEW t,
         Fits(e, a, s, u), Fits(e, b, u, m), Chain(e, rest, m, t)
  PROVE  Chain(e, <<a, b>> \o rest, s, t)
<1> DEFINE S == Frame \cup {a, b}
           r == <<b>> \o rest
<1>1. rest \in Seq(S) /\ a \in S /\ b \in S
  BY WiderSeq
<1> HIDE DEF S
<1>2. r \in Seq(S) /\ <<a, b>> \o rest = <<a>> \o r
  <2>1. <<b>> \in Seq(S) /\ <<a, b>> = <<a>> \o <<b>>
    BY <1>1, FirstOfTwo, FirstOfThree
  <2> QED
    BY <1>1, <2>1, ConsRest
<1>3. Chain(e, r, u, t)
  BY <1>1, ChainPut
<1> HIDE DEF r
<1> QED
  BY <1>1, <1>2, <1>3, ChainPut

LEMMA ChainThree ==
  ASSUME NEW e, NEW rest \in Seq(Frame), NEW a, NEW b, NEW c,
         NEW s \in Place, NEW u \in Place, NEW v \in Place, NEW m, NEW t,
         Fits(e, a, s, u), Fits(e, b, u, v), Fits(e, c, v, m), Chain(e, rest, m, t)
  PROVE  Chain(e, <<a, b, c>> \o rest, s, t)
<1> DEFINE S == Frame \cup {a, b, c}
           r == <<b, c>> \o rest
           q == <<c>> \o rest
<1>1. rest \in Seq(S) /\ a \in S /\ b \in S /\ c \in S
  BY WiderSeq
<1> HIDE DEF S
<1>2. q \in Seq(S) /\ r \in Seq(S) /\ <<a, b, c>> \o rest = <<a>> \o r /\ r = <<b>> \o q
  <2>1. <<a, b, c>> = <<a>> \o <<b, c>> /\ <<b, c>> = <<b>> \o <<c>>
    BY FirstOfTwo, FirstOfThree
  <2>3. <<c>> \in Seq(S) /\ <<b, c>> \in Seq(S)
    BY <1>1
  <2>2. q \in Seq(S) /\ r \in Seq(S) /\ (<<a>> \o <<b, c>>) \o rest = <<a>> \o r
    BY <1>1, <2>3, ConsRest
  <2>4. (<<b>> \o <<c>>) \o rest = <<b>> \o q
    BY <1>1, <2>3, ConsRest
  <2> QED
    BY <2>1, <2>2, <2>4
<1>3. Chain(e, q, v, t)
  BY <1>1, ChainPut
<1> HIDE DEF q, r
<1>4. Chain(e, r, u, t)
  BY <1>1, <1>2, <1>3, ChainPut
<1> QED
  BY <1>1, <1>2, <1>4, ChainPut

LEMMA ChainFive ==
  ASSUME NEW e, NEW rest \in Seq(Frame), NEW a, NEW b, NEW c, NEW d, NEW f,
         NEW s \in Place, NEW u \in Place, NEW v \in Place, NEW w \in Place, NEW x \in Place,
         NEW m, NEW t,
         Fits(e, a, s, u), Fits(e, b, u, v), Fits(e, c, v, w), Fits(e, d, w, x), Fits(e, f, x, m),
         Chain(e, rest, m, t)
  PROVE  Chain(e, <<a, b, c, d, f>> \o rest, s, t)
<1> DEFINE S == Frame \cup {a, b, c, d, f}
           z == <<c, d, f>> \o rest
           y == <<b, c, d, f>> \o rest
           q == <<f>> \o rest
           r == <<d, f>> \o rest
<1>1. rest \in Seq(S) /\ a \in S /\ b \in S /\ c \in S /\ d \in S /\ f \in S
  BY WiderSeq
<1> HIDE DEF S
<1>2. <<f>> \in Seq(S) /\ <<d, f>> \in Seq(S) /\ <<c, d, f>> \in Seq(S) /\ <<b, c, d, f>> \in Seq(S)
  BY <1>1
<1>3. q \in Seq(S) /\ r \in Seq(S) /\ z \in Seq(S) /\ y \in Seq(S)
  BY <1>1, <1>2, ConsRest
<1>4. r = <<d>> \o q
  <2>1. <<d, f>> = <<d>> \o <<f>>
    BY FirstOfTwo
  <2>2. (<<d>> \o <<f>>) \o rest = <<d>> \o (<<f>> \o rest)
    BY <1>1, <1>2, ConsRest
  <2> QED
    BY <2>1, <2>2
<1>5. z = <<c>> \o r
  <2>1. <<c, d, f>> = <<c>> \o <<d, f>>
    BY FirstOfThree
  <2>2. (<<c>> \o <<d, f>>) \o rest = <<c>> \o (<<d, f>> \o rest)
    BY <1>1, <1>2, ConsRest
  <2> QED
    BY <2>1, <2>2
<1>6. y = <<b>> \o z
  <2>1. <<b, c, d, f>> = <<b>> \o <<c, d, f>>
    BY FirstOfFour
  <2>2. (<<b>> \o <<c, d, f>>) \o rest = <<b>> \o (<<c, d, f>> \o rest)
    BY <1>1, <1>2, ConsRest
  <2> QED
    BY <2>1, <2>2
<1>7. <<a, b, c, d, f>> \o rest = <<a>> \o y
  <2>1. <<a, b, c, d, f>> = <<a>> \o <<b, c, d, f>>
    BY FirstOfFive
  <2>2. (<<a>> \o <<b, c, d, f>>) \o rest = <<a>> \o (<<b, c, d, f>> \o rest)
    BY <1>1, <1>2, ConsRest
  <2> QED
    BY <2>1, <2>2
<1>8. Chain(e, q, x, t)
  BY <1>1, ChainPut
<1> HIDE DEF q, r, z, y
<1>9. Chain(e, r, w, t)
  BY <1>1, <1>3, <1>4, <1>8, ChainPut
<1>10. Chain(e, z, v, t)
  BY <1>1, <1>3, <1>5, <1>9, ChainPut
<1>11. Chain(e, y, u, t)
  BY <1>1, <1>3, <1>6, <1>10, ChainPut
<1> QED
  BY <1>1, <1>3, <1>7, <1>11, ChainPut

\* Where the reader is when it has taken n bytes and nothing was shown.
Onto(n) == [at |-> pos + n, cells |-> Len(out), fresh |-> Unbroken]

LEMMA OntoType ==
  ASSUME NEW e, Ready(e), NEW n \in Nat
  PROVE  /\ Onto(n) \in Place /\ Onto(n).at = pos + n /\ Onto(n).cells = Len(out)
         /\ Onto(n).fresh = Unbroken /\ Onto(0) = Here
<1>1. pos \in Nat /\ Len(out) \in Nat /\ Unbroken \in BOOLEAN /\ pos + 0 = pos /\ pos + n \in Nat
  <2>1. pos \in Nat /\ Len(out) \in Nat /\ Here \in Place /\ Here.fresh = Unbroken
    BY ReadyTypes
  <2> QED
    BY <2>1 DEF Place
<1> QED
  BY <1>1 DEF Onto, Place, Here

LEMMA HereNext ==
  ASSUME NEW e, Ready(e), UNCHANGED shown, NEW n \in Nat, pos' = pos + n
  PROVE  Here' = Onto(n)
BY DEF Here, Onto, shown, Unbroken

LEMMA RestType ==
  ASSUME NEW e, Ready(e), todo # <<>>
  PROVE  Tail(todo) \in Seq(Frame) /\ Top \in Frame /\ Top = todo[1]
<1>1. Stacked(todo)
  BY DEF Ready, DisplayInv
<1>2. Head(todo) \in Frame /\ Head(todo) = todo[1] /\ Stacked(Tail(todo))
  BY <1>1, TopFrame
<1> QED
  BY <1>2 DEF Stacked, Top

LEMMA PassNone ==
  ASSUME NEW e, Ready(e), todo # <<>>, UNCHANGED outer, UNCHANGED shown, UNCHANGED port_link_flag,
         err' = FALSE, NEW n \in Nat, pos' = pos + n,
         NEW m, NEW t, Bound(e, m, t), Onto(n) = m, Then(<<>>)
  PROVE  Follows(e)'
<1>1. todo' = Tail(todo)
  BY RestType DEF Then
<1>2. Leads(e, todo', Here', t)
  BY <1>1, HereNext DEF Leads, Bound
<1> QED
  BY <1>2, Passing DEF Bound

LEMMA PassOne ==
  ASSUME NEW e, Ready(e), todo # <<>>, UNCHANGED outer, UNCHANGED shown, UNCHANGED port_link_flag,
         err' = FALSE, NEW n \in Nat, pos' = pos + n,
         NEW m, NEW t, Bound(e, m, t), NEW a, Fits(e, a, Onto(n), m), Then(<<a>>)
  PROVE  Follows(e)'
<1>1. Chain(e, todo', Onto(n), t)
  BY RestType, OntoType, ChainOne DEF Then, Bound
<1>2. Leads(e, todo', Here', t)
  BY <1>1, HereNext DEF Leads
<1> QED
  BY <1>2, Passing DEF Bound

LEMMA PassTwo ==
  ASSUME NEW e, Ready(e), todo # <<>>, UNCHANGED outer, UNCHANGED shown, UNCHANGED port_link_flag,
         err' = FALSE, NEW n \in Nat, pos' = pos + n,
         NEW m, NEW t, Bound(e, m, t), NEW a, NEW b, NEW u \in Place,
         Fits(e, a, Onto(n), u), Fits(e, b, u, m), Then(<<a, b>>)
  PROVE  Follows(e)'
<1>1. Chain(e, todo', Onto(n), t)
  BY RestType, OntoType, ChainTwo DEF Then, Bound
<1>2. Leads(e, todo', Here', t)
  BY <1>1, HereNext DEF Leads
<1> QED
  BY <1>2, Passing DEF Bound

LEMMA PassThree ==
  ASSUME NEW e, Ready(e), todo # <<>>, UNCHANGED outer, UNCHANGED shown, UNCHANGED port_link_flag,
         err' = FALSE, NEW n \in Nat, pos' = pos + n,
         NEW m, NEW t, Bound(e, m, t), NEW a, NEW b, NEW c, NEW u \in Place, NEW v \in Place,
         Fits(e, a, Onto(n), u), Fits(e, b, u, v), Fits(e, c, v, m), Then(<<a, b, c>>)
  PROVE  Follows(e)'
<1>1. Chain(e, todo', Onto(n), t)
  BY RestType, OntoType, ChainThree DEF Then, Bound
<1>2. Leads(e, todo', Here', t)
  BY <1>1, HereNext DEF Leads
<1> QED
  BY <1>2, Passing DEF Bound

LEMMA PassFive ==
  ASSUME NEW e, Ready(e), todo # <<>>, UNCHANGED outer, UNCHANGED shown, UNCHANGED port_link_flag,
         err' = FALSE, NEW n \in Nat, pos' = pos + n,
         NEW m, NEW t, Bound(e, m, t), NEW a, NEW b, NEW c, NEW d, NEW f,
         NEW u \in Place, NEW v \in Place, NEW w \in Place, NEW x \in Place,
         Fits(e, a, Onto(n), u), Fits(e, b, u, v), Fits(e, c, v, w), Fits(e, d, w, x), Fits(e, f, x, m),
         Then(<<a, b, c, d, f>>)
  PROVE  Follows(e)'
<1>1. Chain(e, todo', Onto(n), t)
  BY RestType, OntoType, ChainFive DEF Then, Bound
<1>2. Leads(e, todo', Here', t)
  BY <1>1, HereNext DEF Leads
<1> QED
  BY <1>2, Passing DEF Bound

-----------------------------------------------------------------------------
(* What the reader does with n bytes. *)
LEMMA ReadEnds ==
  ASSUME NEW e, Ready(e), NEW n \in Nat, Read(n)
  PROVE  /\ pos + n - 1 <= Len(Content) => err' = FALSE /\ pos' = pos + n
         /\ ~(pos + n - 1 <= Len(Content)) => err' = TRUE
BY ReadableIs DEF Read

-----------------------------------------------------------------------------
(* The tasks that are pushed. *)
LEMMA CellFits ==
  ASSUME NEW e, NEW fmt, NEW s, NEW t, FitsOne(e, "value", fmt, s, t)
  PROVE  Fits(e, Cell(fmt), s, t)
<1>1. Cell(fmt).do = "cell" /\ Cell(fmt).fmt = fmt
  BY DEF Cell, Task
<1> QED
  BY <1>1 DEF Fits

LEMMA NewLineFits ==
  ASSUME NEW e, NEW s, NEW t, t.at = s.at, t.cells = s.cells, t.fresh = TRUE
  PROVE  Fits(e, NewLine, s, t)
<1>1. NewLine.do = "newline"
  BY DEF NewLine, Task
<1> QED
  BY <1>1 DEF Fits

LEMMA TaskFields == ASSUME NEW do, NEW n PROVE Task(do, n).do = do /\ Task(do, n).n = n
BY DEF Task

LEMMA LoopFits ==
  ASSUME NEW e, NEW f, NEW s, NEW t,
         \/ f.do = "elements" /\ FitsLoop(e, "element", f.n, s, t)
         \/ f.do = "groups" /\ FitsLoop(e, "group", f.n, s, t)
         \/ f.do = "blocks" /\ FitsLoop(e, "block", f.n, s, t)
         \/ f.do = "lines" /\ FitsLoop(e, "line", f.n, s, t)
         \/ f.do = "values" /\ FitsValues(e, f.n, s, t)
         \/ f.do = "pairs" /\ FitsPairs(e, f.n, s, t)
  PROVE  Fits(e, f, s, t)
BY DEF Fits

LEMMA ListFits ==
  ASSUME NEW e, NEW style, NEW n, NEW s, NEW t,
         \E k \in 1..Len(e.parts) :
           /\ IsA(e, k, "list") /\ From(e, k, s) /\ To(e, k, t)
           /\ e.parts[k].style = style /\ HasRows(e, e.parts[k], n),
         style = "table" => t.fresh, style = "sparse" => LinesEnd(n, s, t)
  PROVE  Fits(e, List(style, n), s, t)
<1>1. List(style, n).do = "list" /\ List(style, n).style = style /\ List(style, n).n = n
  BY DEF List, Task
<1> QED
  BY <1>1 DEF Fits, FitsList

LEMMA UnpackFits ==
  ASSUME NEW e, NEW tag, NEW fmt, NEW at, NEW s, NEW t, FitsUnpack(e, fmt, tag, at, s, t)
  PROVE  Fits(e, Unpack(tag, fmt, at), s, t)
<1>1. /\ Unpack(tag, fmt, at).do = "unpack" /\ Unpack(tag, fmt, at).tag = tag
      /\ Unpack(tag, fmt, at).fmt = fmt /\ Unpack(tag, fmt, at).at = at
  BY DEF Unpack, Task
<1> QED
  BY <1>1 DEF Fits

LEMMA ByFormatFields ==
  ASSUME NEW tag, NEW fmt, NEW at
  PROVE  /\ ByFormat(fmt, tag, at).do = "special" /\ ByFormat(fmt, tag, at).tag = tag
         /\ ByFormat(fmt, tag, at).fmt = fmt /\ ByFormat(fmt, tag, at).at = at
BY DEF ByFormat, Unpack, Task

LEMMA ByFormatFits ==
  ASSUME NEW e, NEW f, f.do = "special", NEW s, NEW t, FitsSpecial(e, f, s, t)
  PROVE  Fits(e, f, s, t)
BY DEF Fits

LEMMA FewerFields ==
  ASSUME Top \in Frame
  PROVE  /\ Fewer.do = Top.do /\ Fewer.n = Top.n - 1 /\ Fewer.style = Top.style
         /\ Fewer.heads = Top.heads /\ Fewer.fmt = Top.fmt /\ Fewer.tag = Top.tag
         /\ Fewer.at = Top.at /\ Fewer.last = Top.last /\ Top.n \in Int
BY DEF Fewer, Frame

-----------------------------------------------------------------------------
(* The layouts. *)
After(e, k, fresh) == [at |-> e.parts[k].end, cells |-> e.parts[k].upto, fresh |-> fresh]

LEMMA AfterType ==
  ASSUME NEW e \in Encodings, NEW k \in 1..Len(e.parts), NEW fresh \in BOOLEAN
  PROVE  /\ After(e, k, fresh) \in Place /\ To(e, k, After(e, k, fresh))
         /\ After(e, k, fresh).at = e.parts[k].end /\ After(e, k, fresh).cells = e.parts[k].upto
         /\ After(e, k, fresh).fresh = fresh
BY PartType DEF After, Place, To

\* A part in one row that begins where the reader is.
LEMMA RowHere ==
  ASSUME NEW e, Ready(e), NEW k \in 1..Len(e.parts), OneRow(e, e.parts[k]), NEW n \in Nat,
         e.parts[k].before = Len(out), Begun(Onto(n)), NEW fresh \in BOOLEAN,
         fresh <=> Unbroken /\ e.parts[k].upto = Len(out)
  PROVE  Stretch(e, Onto(n), After(e, k, fresh))
<1>1. e \in Encodings
  BY DEF Ready
<1>2. Onto(n) \in Place /\ Onto(n).cells = Len(out) /\ Onto(n).fresh = Unbroken
  BY OntoType
<1>3. /\ After(e, k, fresh) \in Place /\ After(e, k, fresh).cells = e.parts[k].upto
      /\ After(e, k, fresh).fresh = fresh
  BY <1>1, AfterType, SMTT(30)
<1>4. e.parts[k].before <= e.parts[k].upto
  BY <1>1, PartType, SMTT(30)
<1> QED
  BY <1>2, <1>3, <1>4, RowStretch

\* The only kid of a part.
LEMMA OnlyKid ==
  ASSUME NEW e \in Encodings, NEW k \in 1..Len(e.parts), NEW n \in Nat, Filled(e, e.parts[k], n),
         Len(e.parts[k].kids) = 1
  PROVE  \E j \in 1..Len(e.parts) :
           /\ j = e.parts[k].kids[1] /\ Kid(e, e.parts[k], 1) = e.parts[j]
           /\ e.parts[j].at = e.parts[k].at + n /\ e.parts[j].before = e.parts[k].before
           /\ e.parts[j].end = e.parts[k].end /\ e.parts[j].upto = e.parts[k].upto
<1> DEFINE j == e.parts[k].kids[1]
<1>1. e.parts[k].kids # <<>> /\ 1 \in 1..Len(e.parts[k].kids)
  <2> DEFINE ks == e.parts[k].kids
  <2>1. ks \in Seq(Nat) /\ Len(ks) = 1
    BY PartType
  <2>2. Len(ks) # 0
    BY <2>1
  <2> HIDE DEF ks
  <2>3. ks # <<>>
    BY <2>2, Len(<<>>) = 0, Zenon
  <2>4. 1 \in 1..Len(ks)
    <3> DEFINE l == Len(ks)
    <3>1. l = 1
      BY <2>1
    <3> HIDE DEF l
    <3>2. 1 \in 1..l
      BY <3>1
    <3> QED
      BY <3>2 DEF l
  <2> QED
    BY <2>3, <2>4 DEF ks
<1>2. j \in 1..Len(e.parts) /\ e.parts[j].at = e.parts[k].at + n /\ e.parts[j].before = e.parts[k].before
  BY <1>1, FilledFirst DEF Kid
<1>3. e.parts[j].end = e.parts[k].end /\ e.parts[j].upto = e.parts[k].upto
  BY <1>1 DEF Filled, Run, Spot
<1> QED
  BY <1>2, <1>3 DEF Kid

\* The least number with a property is found in the set of all that have it.
LEMMA Least ==
  ASSUME NEW T \in SUBSET Nat, T # {}
  PROVE  \E n \in T : \A m \in T : n <= m
<1> DEFINE R == OpToRel(<, Nat)
<1>1. IsWellFoundedOn(R, Nat)
  BY NatLessThanWellFounded
<1>2. \A x, y \in Nat : x < y => <<x, y>> \in R
  BY DEF OpToRel
<1> HIDE DEF R
<1>3. PICK n \in T : \A m \in T : <<m, n>> \notin R
  BY <1>1, WFMin
<1>4. ASSUME NEW m \in T PROVE n <= m
  <2>1. m \in Nat /\ n \in Nat /\ ~(m < n)
    BY <1>2, <1>3, Zenon
  <2> QED
    BY <2>1
<1> QED
  BY <1>4

\* The cells of a run come in their order.
LEMMA RunGrows ==
  ASSUME NEW e \in Encodings, NEW ks \in Seq(Nat), ks # <<>>, NEW s, NEW t, Run(e, ks, s, t)
  PROVE  e.parts[ks[1]].upto <= t.cells
<1> DEFINE upto(k) == e.parts[ks[k]].upto
           T == {k \in 1..Len(ks) : ~(upto(1) <= upto(k))}
<1>1. \A k \in 1..Len(ks) : ks[k] \in 1..Len(e.parts)
  BY DEF Run
<1>2. \A k \in 1..Len(ks) : upto(k) \in Nat /\ e.parts[ks[k]].before <= upto(k)
                             /\ e.parts[ks[k]].before \in Nat
  BY <1>1, PartType
<1>3. \A k \in 2..Len(ks) : e.parts[ks[k]].before = upto(k - 1)
  BY DEF Run
<1>4. Len(ks) \in Nat \ {0} /\ 1 \in 1..Len(ks) /\ Len(ks) \in 1..Len(ks)
  OBVIOUS
<1>5. upto(Len(ks)) = t.cells
  BY DEF Run
<1> HIDE DEF upto
<1>6. T = {}
  <2> SUFFICES ASSUME T # {} PROVE FALSE
    OBVIOUS
  <2>1. T \in SUBSET Nat
    BY <1>4
  <2>2. PICK k \in T : \A j \in T : k <= j
    <3> HIDE DEF T
    <3> QED
      BY <2>1, Least
  <2>3. k \in 1..Len(ks) /\ ~(upto(1) <= upto(k)) /\ k # 1
    BY <1>2, <1>4, <2>2
  <2>4. k \in 2..Len(ks) /\ k - 1 \in 1..Len(ks) /\ ~(k <= k - 1)
    BY <1>4, <2>3
  <2>5. k - 1 \notin T
    BY <2>2, <2>4
  <2>6. upto(1) <= upto(k - 1)
    BY <2>4, <2>5
  <2> HIDE DEF T
  <2>7. upto(k - 1) <= upto(k)
    BY <1>2, <1>3, <2>3, <2>4
  <2> QED
    BY <1>2, <1>4, <2>3, <2>4, <2>6, <2>7
<1>7. upto(1) <= upto(Len(ks))
  BY <1>4, <1>6
<1> QED
  BY <1>5, <1>7 DEF upto

\* The first part of a run of cells in one row.
LEMMA FirstOfRun ==
  ASSUME NEW e \in Encodings, NEW s \in Place, NEW m \in Place,
         NEW ks \in Seq(Nat), ks # <<>>, Run(e, ks, s, m), Stretch(e, s, m)
  PROVE  \E u \in Place :
           /\ ks[1] \in 1..Len(e.parts) /\ 1 \in 1..Len(ks) /\ From(e, ks[1], s) /\ To(e, ks[1], u)
           /\ Stretch(e, s, u) /\ Stretch(e, u, m) /\ Run(e, Tail(ks), u, m)
           /\ Tail(ks) \in Seq(Nat) /\ Len(Tail(ks)) = Len(ks) - 1
           /\ \A k \in 1..Len(Tail(ks)) : Tail(ks)[k] = ks[k + 1] /\ k + 1 \in 1..Len(ks)
<1> DEFINE k == ks[1]
           fresh == s.fresh /\ e.parts[k].upto = s.cells
           u == After(e, k, fresh)
<1>1. 1 \in 1..Len(ks)
  OBVIOUS
<1>2. k \in 1..Len(e.parts)
  BY <1>1 DEF Run
<1>3. fresh \in BOOLEAN
  BY DEF Place
<1> HIDE DEF fresh
<1>4. u \in Place /\ u.at = e.parts[k].end /\ u.cells = e.parts[k].upto /\ u.fresh = fresh
  BY <1>2, <1>3, AfterType
<1> HIDE DEF u
<1>5. /\ From(e, k, s) /\ To(e, k, u) /\ Run(e, Tail(ks), u, m) /\ Tail(ks) \in Seq(Nat)
      /\ Len(Tail(ks)) = Len(ks) - 1
      /\ \A j \in 1..Len(Tail(ks)) : Tail(ks)[j] = ks[j + 1] /\ j + 1 \in 1..Len(ks)
  BY <1>4, RunSplit
<1>6. s.cells <= u.cells /\ u.cells <= m.cells
  BY <1>2, <1>4, <1>5, PartType, RunGrows DEF From
<1>7. u.fresh <=> s.fresh /\ u.cells = s.cells
  BY <1>4 DEF fresh
<1>8. Stretch(e, s, u) /\ Stretch(e, u, m)
  BY <1>4, <1>6, <1>7, StretchSplit
<1> QED
  BY <1>1, <1>2, <1>4, <1>5, <1>8

LEMMA ElementsFollow == ASSUME NEW e, Ready(e), Aligned(e), Elements PROVE Follows(e)'
<1>1. showing /\ todo # <<>> /\ Top.do = "elements" /\ Top.n > 0 /\ Top \in Frame
  BY RestType DEF Elements, Doing, Top
<1>2. PICK m, t : Bound(e, m, t) /\ Fits(e, Top, Here, m)
  BY <1>1, TopFits
<1>3. FitsLoop(e, "element", Top.n, Here, m) /\ Top.n \in Nat \ {0}
  BY <1>1, <1>2, TopFields DEF Fits
<1>4. PICK k \in 1..Len(e.parts) :
        /\ IsA(e, k, "element") /\ From(e, k, Here)
        /\ \A u : To(e, k, u) => Several(e, "element", Top.n - 1, u, m)
  BY <1>3, SeveralSplit DEF FitsLoop
<1>5. e \in Encodings /\ IsElement(e, e.parts[k])
  BY <1>4, PartType DEF Ready, IsPart, IsA
<1>6. PICK j \in 1..Len(e.parts) :
        /\ j = e.parts[k].kids[1]
        /\ e.parts[j].at = e.parts[k].at + 0 /\ e.parts[j].before = e.parts[k].before
        /\ e.parts[j].end = e.parts[k].end /\ e.parts[j].upto = e.parts[k].upto
  BY <1>5, OnlyKid DEF IsElement
<1>7. IsA(e, j, "value") /\ e.parts[j].fmt = NoFormat
  BY <1>5, <1>6 DEF IsElement, Plain, IsA
<1>8. /\ Here \in Place /\ Here.at = pos /\ Here.cells = Len(out) /\ Here.fresh = Unbroken /\ Onto(0) = Here
      /\ pos \in Nat /\ Unbroken \in BOOLEAN
  BY ReadyTypes, OntoType DEF Place
<1> DEFINE fresh == Unbroken /\ e.parts[k].upto = Len(out)
           u == After(e, k, fresh)
           v == After(e, k, TRUE)
<1>9. u \in Place /\ v \in Place /\ To(e, k, u) /\ To(e, k, v) /\ v.fresh = TRUE /\ v.at = u.at /\ v.cells = u.cells
  BY <1>5, AfterType
<1>10. Stretch(e, Here, u)
  <2>1. e.parts[k].before = Len(out) /\ OneRow(e, e.parts[k]) /\ Begun(Onto(0))
    BY <1>3, <1>4, <1>5, <1>8 DEF From, IsElement, FitsLoop, LinesEnd
  <2> QED
    BY <1>8, <2>1, RowHere
<1> HIDE DEF u, v
<1>11. FitsOne(e, "value", NoFormat, Here, u)
  <2>1. From(e, j, Here) /\ To(e, j, u)
    <3>1. e.parts[k].at \in Nat
      BY <1>5, PartType
    <3> QED
      BY <1>4, <1>6, <1>9, <3>1 DEF From, To
  <2> QED
    BY <1>7, <1>10, <2>1 DEF FitsOne
<1>12. Fits(e, Cell(NoFormat), Here, u) /\ Fits(e, NewLine, u, v)
  BY <1>9, <1>11, CellFits, NewLineFits
<1>13. Fits(e, Fewer, v, m)
  <2>1. Several(e, "element", Top.n - 1, v, m)
    BY <1>4, <1>9
  <2>2. LinesEnd(Top.n - 1, v, m)
    BY <1>1, <1>3, <1>9 DEF LinesEnd, FitsLoop, Begun
  <2> QED
    BY <1>1, <2>1, <2>2, FewerFields, LoopFits DEF FitsLoop
<1>14. UNCHANGED outer /\ UNCHANGED shown /\ UNCHANGED port_link_flag /\ err' = FALSE /\ pos' = pos + 0
       /\ Then(<<Cell(NoFormat), NewLine, Fewer>>)
  BY <1>8 DEF Elements, reader, Ready
<1> QED
  BY <1>1, <1>2, <1>8, <1>9, <1>12, <1>13, <1>14, PassThree

LEMMA ValueFollow == ASSUME NEW e, Ready(e), Aligned(e), Value PROVE Follows(e)'
<1>1. showing /\ todo # <<>> /\ Top.do = "values" /\ Top.n > 0 /\ Top \in Frame
  BY RestType DEF Value, Doing, Top
<1>2. PICK m, t : Bound(e, m, t) /\ Fits(e, Top, Here, m)
  BY <1>1, TopFits
<1>3. FitsValues(e, Top.n, Here, m)
  BY <1>1, <1>2 DEF Fits
<1>4. PICK ks \in Seq(Nat) : Len(ks) = Top.n /\ Plain(e, ks) /\ Run(e, ks, Here, m)
  BY <1>3 DEF FitsValues
<1>5. e \in Encodings /\ Here \in Place /\ Onto(0) = Here /\ pos \in Nat /\ pos + 0 = pos /\ m \in Place
      /\ Here.cells = Len(out) /\ Here.fresh = Unbroken /\ Unbroken \in BOOLEAN
  BY <1>2, ReadyTypes, OntoType DEF Place, Bound
<1>6. ks # <<>> /\ 1 \in 1..Len(ks)
  BY <1>1, <1>4, TopFields
<1>7. PICK u \in Place :
        /\ ks[1] \in 1..Len(e.parts) /\ From(e, ks[1], Here) /\ To(e, ks[1], u)
        /\ Stretch(e, Here, u) /\ Stretch(e, u, m) /\ Run(e, Tail(ks), u, m)
        /\ Tail(ks) \in Seq(Nat) /\ Len(Tail(ks)) = Len(ks) - 1
        /\ \A k \in 1..Len(Tail(ks)) : Tail(ks)[k] = ks[k + 1] /\ k + 1 \in 1..Len(ks)
  BY <1>3, <1>4, <1>5, <1>6, FirstOfRun DEF FitsValues
<1>8. Fits(e, Cell(NoFormat), Here, u)
  <2>1. IsA(e, ks[1], "value") /\ e.parts[ks[1]].fmt = NoFormat
    BY <1>4, <1>6, <1>7 DEF IsA, Plain
  <2> QED
    BY <1>7, <2>1, CellFits DEF FitsOne
<1>9. Fits(e, Fewer, u, m)
  <2>1. Plain(e, Tail(ks))
    BY <1>4, <1>7 DEF Plain
  <2>2. FitsValues(e, Top.n - 1, u, m)
    BY <1>4, <1>7, <2>1 DEF FitsValues
  <2> QED
    BY <1>1, <2>2, FewerFields, LoopFits
<1>10. UNCHANGED outer /\ UNCHANGED shown /\ UNCHANGED port_link_flag /\ err' = FALSE /\ pos' = pos + 0
       /\ Then(<<Cell(NoFormat), Fewer>>)
  BY <1>5 DEF Value, reader, Ready
<1> QED
  BY <1>1, <1>2, <1>5, <1>8, <1>9, <1>10, PassTwo

LEMMA StretchOnto ==
  ASSUME NEW e, Ready(e), NEW n \in Nat, NEW m, Stretch(e, Here, m)
  PROVE  Stretch(e, Onto(n), m)
<1>1. /\ Here.cells = Len(out) /\ Here.fresh = Unbroken
      /\ Onto(n).cells = Len(out) /\ Onto(n).fresh = Unbroken
  BY ReadyTypes, OntoType
<1> QED
  BY <1>1 DEF Stretch

LEMMA FilledRun ==
  ASSUME NEW e, NEW k, NEW n, Filled(e, e.parts[k], n), NEW s, NEW t,
         s.at = e.parts[k].at + n, s.cells = e.parts[k].before, To(e, k, t)
  PROVE  Run(e, e.parts[k].kids, s, t)
BY DEF Filled, Run, To, Spot

\* Nothing changes but the stack.
Idle == UNCHANGED outer /\ UNCHANGED shown /\ UNCHANGED port_link_flag

LEMMA HereTypes ==
  ASSUME NEW e, Ready(e)
  PROVE  /\ e \in Encodings /\ Here \in Place /\ Onto(0) = Here /\ pos \in Nat /\ pos + 0 = pos
         /\ Here.at = pos /\ Here.cells = Len(out) /\ Here.fresh = Unbroken
         /\ Unbroken \in BOOLEAN /\ Len(out) \in Nat
<1>1. /\ e \in Encodings /\ Here \in Place /\ Onto(0) = Here /\ pos \in Nat
      /\ Here.at = pos /\ Here.cells = Len(out) /\ Here.fresh = Unbroken /\ Len(out) \in Nat
  BY ReadyTypes, OntoType
<1> QED
  BY <1>1 DEF Place

LEMMA TopReady ==
  ASSUME NEW e, Ready(e), NEW do, Doing(do)
  PROVE  /\ showing /\ todo # <<>> /\ Top.do = do /\ Top \in Frame
         /\ Top.n \in Int /\ Top.tag \in Tag /\ Top.tag.v \in Nat /\ Top.at \in Nat
         /\ Top.fmt \in HeadFormats /\ Top.last \in Seq(Nat)
BY RestType, TopFields DEF Doing, Top

LEMMA ReadTag ==
  ASSUME NEW e, Ready(e), Read(1)
  PROVE  \/ /\ pos <= Len(Content) /\ err' = FALSE /\ pos' = pos + 1
            /\ Ahead(0) = e.bytes[pos] /\ Ahead(0).v = e.bytes[pos].v /\ Ahead(0).v \in Nat
         \/ ~(pos <= Len(Content)) /\ err' = TRUE /\ Ahead(0) = Nil /\ (pos + 1) - 1 > Len(Content)
<1>1. pos \in Nat /\ Len(Content) \in Nat /\ pos + 1 - 1 = pos /\ pos + 0 = pos
  BY ReadyTypes
<1>2. /\ pos <= Len(Content) => Ahead(0) = e.bytes[pos] /\ Ahead(0).v \in Nat
      /\ ~(pos <= Len(Content)) => Ahead(0) = Nil
  BY <1>1, AheadIs
<1>3. /\ pos <= Len(Content) => err' = FALSE /\ pos' = pos + 1
      /\ ~(pos <= Len(Content)) => err' = TRUE
  BY <1>1, ReadEnds
<1> QED
  BY <1>1, <1>2, <1>3

LEMMA ReadCellFollow == ASSUME NEW e, Ready(e), Aligned(e), ReadCell PROVE Follows(e)'
<1>1. Doing("cell") /\ Read(1) /\ Idle /\ Then(<<Unpack(Ahead(0), Top.fmt, pos)>>)
  BY DEF ReadCell, Idle
<1>2. showing /\ todo # <<>> /\ Top.do = "cell"
  BY <1>1, TopReady
<1>3. PICK m, t : Bound(e, m, t) /\ Fits(e, Top, Here, m)
  BY <1>2, TopFits
<1>4. PICK k \in 1..Len(e.parts) :
        /\ IsA(e, k, "value") /\ e.parts[k].fmt = Top.fmt /\ From(e, k, Here) /\ To(e, k, m)
        /\ Stretch(e, Here, m)
  BY <1>2, <1>3 DEF Fits, FitsOne
<1>5. e \in Encodings /\ pos \in Nat /\ e.parts[k].at = pos /\ e.parts[k].before = Len(out)
  BY <1>4, HereTypes DEF From
<1>6. CASE pos <= Len(Content)
  <2>1. err' = FALSE /\ pos' = pos + 1 /\ Ahead(0) = e.bytes[pos]
    BY <1>1, <1>5, <1>6, ReadTag, ReadyTypes
  <2>2. /\ Stretch(e, Onto(1), m) /\ Onto(1).at = pos + 1 /\ Onto(1).cells = Len(out)
    BY <1>4, StretchOnto, OntoType
  <2>3. FitsUnpack(e, Top.fmt, Ahead(0), pos, Onto(1), m)
    BY <1>4, <1>5, <2>1, <2>2 DEF FitsUnpack, OpenAt
  <2>4. Fits(e, Unpack(Ahead(0), Top.fmt, pos), Onto(1), m)
    BY <2>3, UnpackFits
  <2> QED
    BY <1>1, <1>2, <1>3, <2>1, <2>4, PassOne DEF Idle
<1>7. CASE ~(pos <= Len(Content))
  <2>1. err' = TRUE
    BY <1>1, <1>5, <1>7, ReadTag
  <2>2. Reach(e, pos + 1, Len(out))
    BY <1>5, ReachStart
  <2>3. (pos + 1) - 1 > Len(Content)
    BY <1>5, <1>7, ReadyTypes
  <2> QED
    BY <1>1, <2>1, <2>2, <2>3, Failing DEF Idle, shown
<1> QED
  BY <1>6, <1>7

LEMMA AgainFollow == ASSUME NEW e, Ready(e), Aligned(e), Again PROVE Follows(e)'
<1>1. Doing("again") /\ Top.n > 0 /\ Idle /\ UNCHANGED reader
      /\ Then(<<Unpack(Top.tag, NoFormat, Top.at), Fewer>>)
  BY DEF Again, Idle
<1>2. showing /\ todo # <<>> /\ Top.do = "again" /\ Top \in Frame /\ Top.n \in Int
  BY <1>1, TopReady
<1>3. PICK m, t : Bound(e, m, t) /\ Fits(e, Top, Here, m)
  BY <1>2, TopFits
<1>4. Top.n = 1 /\ FitsUnpack(e, NoFormat, Top.tag, Top.at, Here, m)
  BY <1>1, <1>2, <1>3 DEF Fits, FitsAgain
<1>5. Fits(e, Unpack(Top.tag, NoFormat, Top.at), Onto(0), m)
  BY <1>4, UnpackFits, HereTypes
<1>6. Fits(e, Fewer, m, m)
  BY <1>2, <1>4, FewerFields DEF Fits, FitsAgain
<1>7. err' = FALSE /\ pos' = pos + 0 /\ m \in Place
  BY <1>1, <1>3, HereTypes DEF reader, Ready, Bound
<1> QED
  BY <1>1, <1>2, <1>3, <1>5, <1>6, <1>7, PassTwo DEF Idle

LEMMA EndLineFollow == ASSUME NEW e, Ready(e), Aligned(e), EndLine PROVE Follows(e)'
<1>1. /\ Doing("newline") /\ line' = line + 1 /\ Then(<<>>) /\ UNCHANGED outer
      /\ UNCHANGED reader /\ UNCHANGED port_link_flag /\ out' = out
  BY DEF EndLine
<1>2. showing /\ todo # <<>> /\ Top.do = "newline" /\ Top \in Frame
  BY <1>1, TopReady
<1>3. todo \in Seq(Frame) /\ Head(todo) = todo[1] /\ Tail(todo) \in Seq(Frame) /\ todo' = Tail(todo)
  <2>1. Stacked(todo) /\ Tail(todo) \in Seq(Frame)
    BY <1>2, RestType DEF Ready, DisplayInv
  <2> QED
    BY <1>1, <1>2, <2>1, TopFrame DEF Stacked, Then
<1>4. PICK t \in Place : Finished(e, t) /\ Leads(e, todo, Here, t)
  BY DEF Aligned
<1>5. Here \in Place /\ Here.at = pos /\ Here.cells = Len(out)
  BY HereTypes
<1>6. Unbroken'
  <2>1. line \in Nat /\ out \in Seq(Printed) /\ \A k \in 1..Len(out) : out[k].line <= line
    BY DEF Ready, DisplayInv
  <2>2. CASE out = <<>>
    BY <1>1, <2>1, <2>2 DEF Unbroken
  <2>3. CASE out # <<>>
    <3>1. Len(out) \in 1..Len(out) /\ out[Len(out)] \in Printed
      BY <2>1, <2>3
    <3>2. out[Len(out)].line \in Nat /\ out[Len(out)].line <= line
      BY <2>1, <3>1 DEF Printed
    <3> QED
      BY <1>1, <2>1, <2>3, <3>2 DEF Unbroken
  <2> QED
    BY <2>2, <2>3
<1> DEFINE h == [Here EXCEPT !.fresh = TRUE]
<1>7. h \in Place /\ h.at = pos /\ h.cells = Len(out) /\ h.fresh = TRUE
  BY <1>5 DEF Place
<1>8. Here' = h
  <2>1. Here' = [at |-> pos, cells |-> Len(out), fresh |-> TRUE]
    BY <1>1, <1>6 DEF Here, reader
  <2> DEFINE g == [at |-> pos, cells |-> Len(out), fresh |-> TRUE]
  <2>2. g \in Place /\ g.at = pos /\ g.cells = Len(out) /\ g.fresh = TRUE
    BY HereTypes DEF Place
  <2> HIDE DEF g, h
  <2>3. h = g
    BY <1>7, <2>2, SamePlace
  <2> QED
    BY <2>1, <2>3 DEF g
<1> HIDE DEF h
<1>9. Leads(e, todo', Here', t)
  <2>1. CASE Chain(e, todo, Here, t)
    <3>1. PICK m \in Place : Fits(e, Head(todo), Here, m) /\ Chain(e, Tail(todo), m, t)
      BY <1>2, <1>3, <2>1, ChainTake
    <3>2. m.at = pos /\ m.cells = Len(out) /\ m.fresh = TRUE
      BY <1>2, <1>5, <3>1 DEF Fits, Top, Place
    <3>3. m = h
      BY <1>7, <3>2, SamePlace
    <3> QED
      BY <1>3, <1>8, <3>1, <3>3 DEF Leads
  <2>2. CASE NamesToRows(e, todo, Here, t)
    BY <1>2, <1>3, <2>2 DEF NamesToRows, Top
  <2>3. CASE NamesToRows(e, Tail(todo), [Here EXCEPT !.fresh = TRUE], t)
    BY <1>3, <1>8, <2>3 DEF Leads, h
  <2>4. todo # <<Task("answer", 1)>>
    <3>1. Task("answer", 1).do = "answer" /\ Head(<<Task("answer", 1)>>) = Task("answer", 1)
      BY DEF Task
    <3> QED
      BY <1>2, <3>1 DEF Top
  <2> QED
    BY <1>4, <2>1, <2>2, <2>3, <2>4 DEF Leads
<1>10. ShownSoFar(e)'
  BY <1>1 DEF Ready, ShownSoFar
<1>11. Aligned(e)'
  BY <1>4, <1>9, <1>10 DEF Aligned, Finished, Leads
<1>12. err' = FALSE
  BY <1>1 DEF Ready, reader
<1> QED
  BY <1>11, <1>12 DEF Follows

LEMMA SecondOf ==
  ASSUME NEW S, NEW s \in Seq(S), Len(s) >= 2
  PROVE  /\ s[2] \in S /\ Head(Tail(s)) = s[2] /\ Tail(s) = <<s[2]>> \o Tail(Tail(s))
         /\ Tail(Tail(s)) \in Seq(S) /\ Tail(s) \in Seq(S)
<1> DEFINE r == Tail(s)
<1>1. /\ s # <<>> /\ r \in Seq(S) /\ Len(r) = Len(s) - 1 /\ Len(s) \in Nat
      /\ \A k \in 1..Len(r) : r[k] = s[k + 1]
  OBVIOUS
<1> HIDE DEF r
<1>2. 1 \in 1..Len(r) /\ 1 + 1 = 2
  BY <1>1
<1>3. r[1] = s[2] /\ r[1] \in S /\ r # <<>>
  BY <1>1, <1>2
<1>4. Head(r) = r[1] /\ Tail(r) \in Seq(S) /\ r = <<r[1]>> \o Tail(r)
  BY <1>1, <1>3
<1> QED
  BY <1>1, <1>3, <1>4 DEF r

LEMMA LoopEndsFollow == ASSUME NEW e, Ready(e), Aligned(e), LoopEnds PROVE Follows(e)'
<1>1. showing /\ todo # <<>> /\ Then(<<>>) /\ Idle /\ UNCHANGED reader
  BY DEF LoopEnds, Idle
<1>2. Top \in Frame /\ Top.n \in Int
  BY <1>1, RestType, TopFields
<1>3. err = FALSE /\ err' = FALSE /\ pos' = pos + 0
  BY <1>1, HereTypes DEF Ready, reader
<1>4. Top.do \in Guarded \cup Counted /\ Top.n <= 0
  BY <1>2, <1>3 DEF LoopEnds
<1>5. CASE Top.do # "names"
  <2>1. Top.do \notin {"names", "newline", "answer"}
    BY <1>4, <1>5 DEF Guarded, Counted
  <2>2. PICK m, t : Bound(e, m, t) /\ Fits(e, Top, Here, m)
    BY <1>1, <2>1, TopFits
  <2>3. m \in Place /\ Here \in Place
    BY <2>2, HereTypes DEF Bound
  <2>4. ASSUME NEW kind, FitsLoop(e, kind, Top.n, Here, m) PROVE m = Here
    <3>1. Several(e, kind, Top.n, Here, m) /\ LinesEnd(Top.n, Here, m)
      BY <2>4 DEF FitsLoop
    <3>2. Top.n = 0
      BY <1>2, <1>4, <3>1 DEF Several
    <3>3. m.at = Here.at /\ m.cells = Here.cells
      BY <3>1, <3>2, SeveralNone
    <3>4. m.fresh = Here.fresh
      BY <2>3, <3>1, <3>2 DEF LinesEnd, Place
    <3> QED
      BY <2>3, <3>3, <3>4, SamePlace
  <2>5. ASSUME NEW ks \in Seq(Nat), Len(ks) = Top.n, Run(e, ks, Here, m),
               Stretch(e, Here, m) \/ LinesEnd(Top.n, Here, m)
        PROVE  m = Here
    <3>1. ks = <<>> /\ Top.n = 0
      BY <1>2, <1>4, <2>5
    <3>2. m.at = Here.at /\ m.cells = Here.cells
      BY <2>5, <3>1, RunNone
    <3>3. m.fresh = Here.fresh
      BY <2>3, <2>5, <3>1, <3>2 DEF LinesEnd, Stretch, Place
    <3> QED
      BY <2>3, <3>2, <3>3, SamePlace
  <2>6. m = Here
    <3>1. CASE Top.do \in {"elements", "groups", "blocks", "lines"}
      BY <2>2, <2>4, <3>1 DEF Fits
    <3>2. CASE Top.do = "rows"
      BY <2>2, <2>5, <3>2 DEF Fits, FitsRows
    <3>3. CASE Top.do = "cells"
      BY <2>2, <2>5, <3>3 DEF Fits, FitsCells
    <3>4. CASE Top.do = "values"
      BY <2>2, <2>5, <3>4 DEF Fits, FitsValues
    <3>5. CASE Top.do = "pairs"
      BY <2>2, <2>5, <3>5 DEF Fits, FitsPairs, Several
    <3>6. CASE Top.do = "again"
      BY <1>4, <2>2, <3>6 DEF Fits, FitsAgain
    <3> QED
      BY <1>4, <1>5, <3>1, <3>2, <3>3, <3>4, <3>5, <3>6 DEF Guarded, Counted
  <2>12. m = Onto(0)
    BY <2>6, HereTypes
  <2> QED
    BY <1>1, <1>3, <2>2, <2>12, PassNone DEF Idle
<1>6. CASE Top.do = "names"
  <2>1. PICK t \in Place : Finished(e, t) /\ Leads(e, todo, Here, t)
    BY DEF Aligned
  <2>2. todo \in Seq(Frame) /\ Head(todo) = todo[1] /\ Tail(todo) \in Seq(Frame) /\ todo' = Tail(todo)
    <3>1. Stacked(todo) /\ Tail(todo) \in Seq(Frame)
      BY <1>1, RestType DEF Ready, DisplayInv
    <3> QED
      BY <1>1, <3>1, TopFrame DEF Stacked, Then
  <2>3. ~Chain(e, todo, Here, t)
    <3> SUFFICES ASSUME Chain(e, todo, Here, t) PROVE FALSE
      OBVIOUS
    <3>1. PICK m \in Place : Fits(e, Head(todo), Here, m)
      BY <1>1, <2>2, ChainTake
    <3> QED
      BY <1>6, <3>1 DEF Fits, Top
  <2>4. todo # <<Task("answer", 1)>>
    <3>1. Task("answer", 1).do = "answer" /\ Head(<<Task("answer", 1)>>) = Task("answer", 1)
      BY DEF Task
    <3> QED
      BY <1>6, <3>1 DEF Top
  <2>5. NamesToRows(e, todo, Here, t)
    BY <1>6, <2>1, <2>3, <2>4 DEF Leads, Top
  <2>6. PICK ks \in Seq(Nat), m \in Place, r \in Place :
          /\ Len(ks) = todo[1].n /\ Run(e, ks, Here, m) /\ m.fresh = Here.fresh
          /\ FitsRows(e, todo[2].style, todo[2].heads \o Formatted(e, ks), todo[2].n, m, r)
          /\ Chain(e, Tail(Tail(todo)), r, t)
    BY <2>5 DEF NamesToRows
  <2>7. ks = <<>>
    BY <1>2, <1>4, <2>2, <2>6 DEF Top
  <2>8. m = Here
    BY <2>6, <2>7, RunNone, SamePlace, HereTypes
  <2>9. Len(todo) >= 2 /\ todo[2].do = "rows" /\ Head(Tail(todo)) = todo[2] /\ todo[2] \in Frame
        /\ Tail(todo) = <<todo[2]>> \o Tail(Tail(todo)) /\ Tail(Tail(todo)) \in Seq(Frame)
    <3>1. Len(todo) >= 2 /\ todo[2].do = "rows"
      BY <2>5 DEF NamesToRows
    <3> QED
      BY <2>2, <3>1, SecondOf
  <2>10. todo[2].heads \o Formatted(e, ks) = todo[2].heads
    <3>1. Formatted(e, ks) = <<>>
      BY <2>7 DEF Formatted
    <3>2. todo[2].heads \in Seq(HeadFormats)
      BY <2>9 DEF Frame
    <3> QED
      BY <3>1, <3>2
  <2>11. Fits(e, Head(Tail(todo)), Here, r)
    BY <2>6, <2>8, <2>9, <2>10 DEF Fits
  <2>13. Chain(e, Tail(todo), Here, t)
    BY <2>6, <2>9, <2>11, HereTypes, ChainOne
  <2>14. Leads(e, todo', Here', t)
    BY <1>1, <1>3, <2>2, <2>13, HereNext, HereTypes DEF Leads, Idle
  <2> QED
    BY <1>1, <1>3, <2>1, <2>14, Passing DEF Idle
<1> QED
  BY <1>5, <1>6

LEMMA BegunOnto ==
  ASSUME NEW e, Ready(e), NEW n \in Nat, Begun(Here)
  PROVE  Begun(Onto(n))
<1>1. /\ Here.cells = Len(out) /\ Here.fresh = Unbroken
      /\ Onto(n).cells = Len(out) /\ Onto(n).fresh = Unbroken
  BY HereTypes, OntoType
<1> QED
  BY <1>1 DEF Begun

\* Nothing of the part that is due has arrived.
LEMMA StartFails ==
  ASSUME NEW e, Ready(e), Idle, err' = TRUE, ~(pos <= Len(Content)),
         NEW k \in 1..Len(e.parts), e.parts[k].at = pos, e.parts[k].before = Len(out)
  PROVE  Follows(e)'
<1>1. Reach(e, pos + 1, Len(out))
  BY ReachStart, HereTypes
<1>2. (pos + 1) - 1 > Len(Content)
  BY ReadyTypes
<1> QED
  BY <1>1, <1>2, Failing DEF Idle, shown

\* The part on top of a loop that ends its lines.
LEMMA LineOfLoop ==
  ASSUME NEW e, Ready(e), NEW kind, NEW n \in Nat \ {0}, NEW m, FitsLoop(e, kind, n, Here, m)
  PROVE  \E k \in 1..Len(e.parts) :
           /\ IsA(e, k, kind) /\ e.parts[k].at = pos /\ e.parts[k].before = Len(out)
           /\ IsPart(e, e.parts[k]) /\ Begun(Here)
           /\ FitsLoop(e, kind, n - 1, After(e, k, TRUE), m)
<1>1. PICK k \in 1..Len(e.parts) :
        /\ IsA(e, k, kind) /\ From(e, k, Here)
        /\ \A u : To(e, k, u) => Several(e, kind, n - 1, u, m)
  BY SeveralSplit DEF FitsLoop
<1>2. e \in Encodings /\ Here.at = pos /\ Here.cells = Len(out)
  BY HereTypes
<1>3. IsPart(e, e.parts[k])
  BY <1>2, PartType
<1>4. To(e, k, After(e, k, TRUE)) /\ After(e, k, TRUE).fresh = TRUE
  BY <1>2, AfterType
<1>5. LinesEnd(n - 1, After(e, k, TRUE), m) /\ Begun(Here)
  <2> DEFINE v == After(e, k, TRUE)
  <2>1. v.fresh = TRUE
    BY <1>4
  <2> HIDE DEF v
  <2>2. Begun(Here) /\ (m.fresh <=> TRUE)
    BY DEF FitsLoop, LinesEnd
  <2>3. LinesEnd(n - 1, v, m)
    BY <2>1, <2>2 DEF LinesEnd, Begun
  <2> QED
    BY <2>2, <2>3 DEF v
<1> QED
  BY <1>1, <1>2, <1>3, <1>4, <1>5 DEF From, FitsLoop

LEMMA CellsFields ==
  ASSUME NEW f \in Frame, NEW n
  PROVE  LET g == [f EXCEPT !.do = "cells", !.n = n]
         IN  g.do = "cells" /\ g.n = n /\ g.style = f.style /\ g.heads = f.heads
BY DEF Frame

LEMMA RowFollow == ASSUME NEW e, Ready(e), Aligned(e), Row PROVE Follows(e)'
<1> DEFINE cells == [Top EXCEPT !.do = "cells", !.n = Ahead(0).v]
<1>1. Doing("rows") /\ Top.n > 0 /\ Read(1) /\ Idle /\ Then(<<cells, NewLine, Fewer>>)
  BY DEF Row, Idle
<1>2. showing /\ todo # <<>> /\ Top.do = "rows" /\ Top \in Frame /\ Top.n \in Int
  BY <1>1, TopReady
<1>3. cells.do = "cells" /\ cells.n = Ahead(0).v /\ cells.style = Top.style /\ cells.heads = Top.heads
  BY <1>2, CellsFields
<1> HIDE DEF cells
<1>4. PICK m, t : Bound(e, m, t) /\ Fits(e, Top, Here, m)
  BY <1>2, TopFits
<1>5. /\ Top.style \in {"table", "sparse"} /\ LinesEnd(Top.n, Here, m)
      /\ \E ks \in Seq(Nat) :
           /\ Len(ks) = Top.n /\ All(e, ks, "row") /\ Run(e, ks, Here, m)
           /\ \A k \in 1..Len(ks) : e.parts[ks[k]].style = Top.style /\ e.parts[ks[k]].heads = Top.heads
  BY <1>2, <1>4 DEF Fits, FitsRows
<1>6. PICK ks \in Seq(Nat) :
        /\ Len(ks) = Top.n /\ All(e, ks, "row") /\ Run(e, ks, Here, m)
        /\ \A k \in 1..Len(ks) : e.parts[ks[k]].style = Top.style /\ e.parts[ks[k]].heads = Top.heads
  BY <1>5
<1>7. ks # <<>> /\ 1 \in 1..Len(ks)
  BY <1>1, <1>2, <1>6
<1>8. /\ e \in Encodings /\ Here.at = pos /\ Here.cells = Len(out) /\ pos \in Nat
      /\ Here.fresh = Unbroken /\ Unbroken \in BOOLEAN
  BY HereTypes
<1> DEFINE k == ks[1]
           fresh == Unbroken /\ e.parts[k].upto = Len(out)
           u == After(e, k, fresh)
           v == After(e, k, TRUE)
<1>9. k \in 1..Len(e.parts) /\ e.parts[k].kind = "row" /\ e.parts[k].style = Top.style
      /\ e.parts[k].heads = Top.heads
  BY <1>6, <1>7 DEF All, Run
<1>10. /\ u \in Place /\ To(e, k, u) /\ v \in Place /\ To(e, k, v) /\ v.fresh = TRUE
       /\ v.at = e.parts[k].end /\ v.cells = e.parts[k].upto /\ v.at = u.at /\ v.cells = u.cells
  BY <1>8, <1>9, AfterType
<1>11. /\ From(e, k, Here) /\ Run(e, Tail(ks), v, m) /\ Tail(ks) \in Seq(Nat)
       /\ Len(Tail(ks)) = Len(ks) - 1
       /\ \A j \in 1..Len(Tail(ks)) : Tail(ks)[j] = ks[j + 1] /\ j + 1 \in 1..Len(ks)
  BY <1>6, <1>7, <1>10, RunSplit
<1>12. e.parts[k].at = pos /\ e.parts[k].before = Len(out)
  BY <1>8, <1>11 DEF From
<1>13. IsRow(e, e.parts[k]) /\ e.parts[k].kids \in Seq(Nat)
  BY <1>8, <1>9, PartType DEF IsPart
<1>14. CASE pos <= Len(Content) /\ err' = FALSE /\ pos' = pos + 1 /\ Ahead(0).v = e.bytes[pos].v
  <2>1. Stretch(e, Onto(1), u)
    <3>1. Begun(Onto(1))
      BY <1>5, BegunOnto, SMTT(30) DEF LinesEnd
    <3> QED
      BY <1>8, <1>9, <1>12, <1>13, <3>1, RowHere DEF IsRow
  <2>2. Run(e, e.parts[k].kids, Onto(1), u)
    <3>1. Onto(1).at = e.parts[k].at + 1 /\ Onto(1).cells = e.parts[k].before
      BY <1>12, OntoType
    <3> QED
      BY <1>10, <1>13, <3>1, FilledRun, ZenonT(60) DEF IsRow
  <2> HIDE DEF u, v
  <2>3. Len(e.parts[k].kids) = cells.n
    BY <1>3, <1>12, <1>13, <1>14 DEF IsRow
  <2>4. \A j \in 1..Len(e.parts[k].kids) : CellOfColumn(e, e.parts[k].kids[j], Top.style, Top.heads, j)
    <3> SUFFICES ASSUME NEW j \in 1..Len(e.parts[k].kids)
                 PROVE  CellOfColumn(e, e.parts[k].kids[j], Top.style, Top.heads, j)
      BY Zenon
    <3>1. CASE Top.style = "table"
      <4>1. Len(e.parts[k].kids) <= Len(Top.heads) /\ Top.heads \in Seq(HeadFormats)
        BY <1>2, <1>9, <1>13, <3>1, ZenonT(60) DEF IsRow, Frame
      <4>2. j <= Len(Top.heads)
        BY <1>13, <4>1, SMTT(30)
      <4> QED
        BY <1>9, <1>13, <3>1, <4>2, ZenonT(60) DEF IsRow, CellOfColumn, Kid
    <3>2. CASE Top.style = "sparse"
      BY <1>9, <1>13, <3>2 DEF IsRow, CellOfColumn, Kid
    <3> QED
      BY <1>5, <3>1, <3>2
  <2>5. Fits(e, cells, Onto(1), u)
    <3>1. FitsCells(e, cells, Onto(1), u)
      BY <1>3, <1>13, <2>1, <2>2, <2>3, <2>4 DEF FitsCells
    <3> QED
      BY <1>3, <3>1 DEF Fits
  <2>6. Fits(e, NewLine, u, v)
    BY <1>10, NewLineFits
  <2>7. Fits(e, Fewer, v, m)
    <3>1. LinesEnd(Top.n - 1, v, m)
      BY <1>1, <1>5, <1>10 DEF LinesEnd, Begun
    <3>2. All(e, Tail(ks), "row") /\ \A j \in 1..Len(Tail(ks)) :
            e.parts[Tail(ks)[j]].style = Top.style /\ e.parts[Tail(ks)[j]].heads = Top.heads
      BY <1>6, <1>11 DEF All
    <3>3. FitsRows(e, Top.style, Top.heads, Top.n - 1, v, m)
      BY <1>5, <1>6, <1>11, <3>1, <3>2 DEF FitsRows
    <3> QED
      BY <1>2, <3>3, FewerFields DEF Fits
  <2> QED
    BY <1>1, <1>2, <1>4, <1>10, <1>14, <2>5, <2>6, <2>7, PassThree DEF Idle
<1>15. CASE ~(pos <= Len(Content)) /\ err' = TRUE
  BY <1>1, <1>9, <1>12, <1>15, StartFails
<1> QED
  BY <1>1, <1>14, <1>15, ReadTag

LEMMA AgainFields ==
  ASSUME NEW n, NEW tag, NEW at
  PROVE  LET f == [Task("again", n) EXCEPT !.tag = tag, !.at = at]
         IN  f.do = "again" /\ f.n = n /\ f.tag = tag /\ f.at = at
BY DEF Task

LEMMA LineOfBlockFollow == ASSUME NEW e, Ready(e), Aligned(e), LineOfBlock PROVE Follows(e)'
<1> DEFINE again == [Task("again", Ahead(0).v) EXCEPT !.tag = Ahead(0), !.at = pos]
<1>1. Doing("lines") /\ Top.n > 0 /\ Read(1) /\ Idle /\ Then(<<again, NewLine, Fewer>>)
  BY DEF LineOfBlock, Idle
<1>2. showing /\ todo # <<>> /\ Top.do = "lines" /\ Top \in Frame /\ Top.n \in Nat \ {0}
  BY <1>1, TopReady
<1>3. again.do = "again" /\ again.n = Ahead(0).v /\ again.tag = Ahead(0) /\ again.at = pos
  BY AgainFields
<1> HIDE DEF again
<1>4. PICK m, t : Bound(e, m, t) /\ Fits(e, Top, Here, m)
  BY <1>2, TopFits
<1>5. FitsLoop(e, "line", Top.n, Here, m)
  BY <1>2, <1>4 DEF Fits
<1>6. PICK k \in 1..Len(e.parts) :
        /\ IsA(e, k, "line") /\ e.parts[k].at = pos /\ e.parts[k].before = Len(out)
        /\ IsPart(e, e.parts[k]) /\ Begun(Here)
        /\ FitsLoop(e, "line", Top.n - 1, After(e, k, TRUE), m)
  BY <1>2, <1>5, LineOfLoop
<1>7. IsLine(e, e.parts[k])
  BY <1>6 DEF IsPart, IsA
<1>8. e \in Encodings /\ pos \in Nat /\ Unbroken \in BOOLEAN
  BY HereTypes
<1> DEFINE fresh == Unbroken /\ e.parts[k].upto = Len(out)
           u == After(e, k, fresh)
           v == After(e, k, TRUE)
<1>9. /\ u \in Place /\ To(e, k, u) /\ v \in Place /\ v.fresh = TRUE /\ v.at = u.at /\ v.cells = u.cells
      /\ u.at = e.parts[k].end /\ u.cells = e.parts[k].upto /\ u.fresh = fresh
  BY <1>8, AfterType
<1>10. Stretch(e, Onto(1), u)
  <2>1. Begun(Onto(1))
    BY <1>6, BegunOnto
  <2> QED
    BY <1>6, <1>7, <1>8, <2>1, RowHere DEF IsLine
<1>11. /\ Onto(1) \in Place /\ Onto(1).at = pos + 1 /\ Onto(1).cells = Len(out)
       /\ Onto(1).fresh = Unbroken
  BY OntoType
<1> HIDE DEF u, v
<1>12. CASE /\ pos <= Len(Content) /\ err' = FALSE /\ pos' = pos + 1
            /\ Ahead(0) = e.bytes[pos] /\ Ahead(0).v = e.bytes[pos].v
  <2>1. FitsAgain(e, again, Onto(1), u)
    <3>1. CASE e.bytes[e.parts[k].at].v = 0 /\ Sized(e.parts[k], 1) /\ NoCell(e.parts[k])
      <4>1. u.at = pos + 1 /\ u.cells = Len(out) /\ u.fresh = Unbroken
        BY <1>6, <1>8, <1>9, <3>1 DEF Sized, NoCell
      <4>2. Onto(1) = u
        BY <1>9, <1>11, <4>1, SamePlace
      <4> QED
        BY <1>3, <1>6, <1>12, <3>1, <4>2 DEF FitsAgain
    <3>2. CASE /\ e.bytes[e.parts[k].at].v = 1 /\ Len(e.parts[k].kids) = 1
               /\ Plain(e, e.parts[k].kids) /\ Filled(e, e.parts[k], 0)
      <4>1. PICK j \in 1..Len(e.parts) :
              /\ j = e.parts[k].kids[1]
              /\ e.parts[j].at = e.parts[k].at + 0 /\ e.parts[j].before = e.parts[k].before
              /\ e.parts[j].end = e.parts[k].end /\ e.parts[j].upto = e.parts[k].upto
        BY <1>8, <3>2, OnlyKid
      <4>2. IsA(e, j, "value") /\ e.parts[j].fmt = NoFormat
        BY <3>2, <4>1 DEF Plain, IsA
      <4>3. e.parts[j].at = pos /\ To(e, j, u) /\ e.parts[j].before = Onto(1).cells
        BY <1>6, <1>8, <1>9, <1>11, <4>1 DEF To
      <4>4. FitsUnpack(e, NoFormat, again.tag, again.at, Onto(1), u)
        BY <1>3, <1>10, <1>11, <1>12, <4>2, <4>3 DEF FitsUnpack, OpenAt
      <4> QED
        BY <1>3, <1>6, <1>12, <3>2, <4>4 DEF FitsAgain
    <3> QED
      BY <1>7, <3>1, <3>2 DEF IsLine
  <2>2. Fits(e, again, Onto(1), u)
    BY <1>3, <2>1 DEF Fits
  <2>3. Fits(e, NewLine, u, v)
    BY <1>9, NewLineFits
  <2>4. Fits(e, Fewer, v, m)
    BY <1>2, <1>6, FewerFields, LoopFits DEF v
  <2> QED
    BY <1>1, <1>2, <1>4, <1>9, <1>12, <2>2, <2>3, <2>4, PassThree DEF Idle
<1>13. CASE ~(pos <= Len(Content)) /\ err' = TRUE
  BY <1>1, <1>6, <1>13, StartFails
<1> QED
  BY <1>1, <1>12, <1>13, ReadTag

-----------------------------------------------------------------------------
(* Groups and blocks. *)
LEMMA ExpectTag ==
  ASSUME NEW e, Ready(e), NEW type, type # "nil", Expect(<<type>>), e.bytes[pos].t = type
  PROVE  \/ /\ pos <= Len(Content) /\ err' = FALSE /\ pos' = pos + 1
            /\ Expected(<<type>>, 1) = e.bytes[pos].v /\ Ahead(0) = e.bytes[pos]
         \/ ~(pos <= Len(Content)) /\ err' = TRUE
<1>1. pos \in Nat /\ Len(Content) \in Nat /\ pos + 0 = pos /\ 1 - 1 = 0
  BY ReadyTypes
<1>2. /\ pos <= Len(Content) => Ahead(0) = e.bytes[pos]
      /\ ~(pos <= Len(Content)) => Ahead(0) = Nil
  BY <1>1, AheadIs
<1>3. Len(<<type>>) = 1 /\ <<type>>[1] = type
  OBVIOUS
<1>4. Agree(<<type>>, 1) <=> Ahead(0).t = type
  <2>1. \A j \in 1..1 : j = 1
    OBVIOUS
  <2>2. 1 \in 1..1
    OBVIOUS
  <2> QED
    BY <1>1, <1>3, <2>1, <2>2 DEF Agree
<1>5. err' = ~Agree(<<type>>, 1) /\ pos' = IF err' THEN pos ELSE pos + 1
  BY <1>3 DEF Expect, Ready
<1>6. CASE pos <= Len(Content)
  BY <1>1, <1>2, <1>4, <1>5, <1>6 DEF Expected
<1>7. CASE ~(pos <= Len(Content))
  BY <1>2, <1>4, <1>5, <1>7, NilType
<1> QED
  BY <1>6, <1>7

\* The domain of a group or a block, which is one cell in a line of its own.
LEMMA DomainFits ==
  ASSUME NEW e, Ready(e), NEW k \in 1..Len(e.parts), Domain(e, e.parts[k]), Begun(Here),
         e.parts[k].at = pos, e.parts[k].before = Len(out)
  PROVE  \E j \in 1..Len(e.parts) : \E u \in Place :
           /\ j = e.parts[k].kids[1] /\ 1 \in 1..Len(e.parts[k].kids) /\ e.parts[k].kids # <<>>
           /\ u.at = e.parts[j].end /\ u.cells = e.parts[j].upto
           /\ Fits(e, Cell(NoFormat), Onto(1), u)
<1>1. e \in Encodings /\ Unbroken \in BOOLEAN
  BY HereTypes, SMTT(30)
<1> DEFINE j == e.parts[k].kids[1]
           fresh == Unbroken /\ e.parts[j].upto = Len(out)
           u == After(e, j, fresh)
<1>2. /\ j \in 1..Len(e.parts) /\ 1 \in 1..Len(e.parts[k].kids)
      /\ e.parts[j].at = pos + 1 /\ e.parts[j].before = Len(out)
  BY <1>1, FilledFirst, ZenonT(60) DEF Domain, Kid
<1>3. e.parts[j].kind = "value" /\ e.parts[j].fmt = NoFormat /\ OneRow(e, e.parts[j])
  BY DEF Domain, Kid
<1>4. u \in Place /\ To(e, j, u) /\ u.at = e.parts[j].end /\ u.cells = e.parts[j].upto
  BY <1>1, <1>2, AfterType
<1>5. Stretch(e, Onto(1), u)
  BY <1>1, <1>2, <1>3, BegunOnto, RowHere
<1>6. From(e, j, Onto(1))
  BY <1>2, OntoType DEF From
<1>7. FitsOne(e, "value", NoFormat, Onto(1), u)
  <2> HIDE DEF u, j
  <2> QED
    BY <1>2, <1>3, <1>4, <1>5, <1>6 DEF FitsOne, IsA
<1>8. Fits(e, Cell(NoFormat), Onto(1), u)
  BY <1>7, CellFits
<1>9. e.parts[k].kids # <<>>
  BY DEF Domain
<1> QED
  BY <1>2, <1>4, <1>8, <1>9

LEMMA GroupFollow == ASSUME NEW e, Ready(e), Aligned(e), Group PROVE Follows(e)'
<1> DEFINE num == Expected(<<"array">>, 1)
<1>1. /\ Doing("groups") /\ Top.n > 0 /\ Expect(<<"array">>) /\ Idle
      /\ Then(<<Cell(NoFormat), List("table", num - 2), Fewer>>)
  BY DEF Group, Idle
<1>2. showing /\ todo # <<>> /\ Top.do = "groups" /\ Top \in Frame /\ Top.n \in Nat \ {0}
  BY <1>1, TopReady
<1>3. PICK m, t : Bound(e, m, t) /\ Fits(e, Top, Here, m)
  BY <1>2, TopFits
<1>4. FitsLoop(e, "group", Top.n, Here, m)
  BY <1>2, <1>3 DEF Fits
<1>5. PICK k \in 1..Len(e.parts) :
        /\ IsA(e, k, "group") /\ e.parts[k].at = pos /\ e.parts[k].before = Len(out)
        /\ IsPart(e, e.parts[k]) /\ Begun(Here)
        /\ FitsLoop(e, "group", Top.n - 1, After(e, k, TRUE), m)
  BY <1>2, <1>4, LineOfLoop
<1>6. IsGroup(e, e.parts[k]) /\ Domain(e, e.parts[k])
  BY <1>5 DEF IsPart, IsA, IsGroup
<1>7. e \in Encodings /\ pos \in Nat /\ e.bytes[pos].t = "array"
  BY <1>5, <1>6, HereTypes DEF Domain
<1> HIDE DEF num
<1>8. CASE pos <= Len(Content) /\ err' = FALSE /\ pos' = pos + 1 /\ num = e.bytes[pos].v
  <2>1. PICK j \in 1..Len(e.parts), u \in Place :
          /\ j = e.parts[k].kids[1] /\ u.at = e.parts[j].end /\ u.cells = e.parts[j].upto
          /\ Fits(e, Cell(NoFormat), Onto(1), u)
    BY <1>5, <1>6, DomainFits, SMTT(30)
  <2> DEFINE i == e.parts[k].kids[2]
             v == After(e, k, TRUE)
  <2>2. Len(e.parts[k].kids) = 2 /\ 2 \in 1..Len(e.parts[k].kids) /\ 2 \in 2..Len(e.parts[k].kids)
        /\ e.parts[k].kids # <<>> /\ 2 - 1 = 1
    BY <1>6, SMTT(30) DEF IsGroup, Domain
  <2>3. /\ i \in 1..Len(e.parts) /\ e.parts[i].at = u.at /\ e.parts[i].before = u.cells
        /\ e.parts[i].end = e.parts[k].end /\ e.parts[i].upto = e.parts[k].upto
    BY <1>6, <2>1, <2>2 DEF Domain, Filled, Run, Spot
  <2>4. /\ e.parts[i].kind = "list" /\ e.parts[i].style = "table"
        /\ HasRows(e, e.parts[i], num - 2)
    BY <1>5, <1>6, <1>8 DEF IsGroup, Kid
  <2>5. v \in Place /\ v.at = e.parts[k].end /\ v.cells = e.parts[k].upto /\ v.fresh = TRUE
    BY <1>7, AfterType
  <2> HIDE DEF i, v
  <2>6. IsA(e, i, "list") /\ From(e, i, u) /\ To(e, i, v)
    BY <2>3, <2>4, <2>5 DEF IsA, From, To
  <2>7. Fits(e, List("table", num - 2), u, v)
    BY <2>3, <2>4, <2>5, <2>6, ListFits
  <2>8. Fits(e, Fewer, v, m)
    BY <1>2, <1>5, FewerFields, LoopFits DEF v
  <2> QED
    BY <1>1, <1>2, <1>3, <1>8, <2>1, <2>5, <2>7, <2>8, PassThree DEF Idle
<1>9. CASE ~(pos <= Len(Content)) /\ err' = TRUE
  BY <1>1, <1>5, <1>9, StartFails
<1> QED
  BY <1>1, <1>7, <1>8, <1>9, ExpectTag DEF num

LEMMA BlockFollow == ASSUME NEW e, Ready(e), Aligned(e), Block PROVE Follows(e)'
<1> DEFINE num == Expected(<<"array">>, 1)
           lines == Task("lines", num - 1)
<1>1. /\ Doing("blocks") /\ Top.n > 0 /\ Expect(<<"array">>) /\ Idle
      /\ Then(<<Cell(NoFormat), NewLine, lines, NewLine, Fewer>>)
  BY DEF Block, Idle
<1>2. showing /\ todo # <<>> /\ Top.do = "blocks" /\ Top \in Frame /\ Top.n \in Nat \ {0}
  BY <1>1, TopReady
<1>3. PICK m, t : Bound(e, m, t) /\ Fits(e, Top, Here, m)
  BY <1>2, TopFits
<1>4. FitsLoop(e, "block", Top.n, Here, m)
  BY <1>2, <1>3 DEF Fits
<1>5. PICK k \in 1..Len(e.parts) :
        /\ IsA(e, k, "block") /\ e.parts[k].at = pos /\ e.parts[k].before = Len(out)
        /\ IsPart(e, e.parts[k]) /\ Begun(Here)
        /\ FitsLoop(e, "block", Top.n - 1, After(e, k, TRUE), m)
  BY <1>2, <1>4, LineOfLoop
<1>6. IsBlock(e, e.parts[k]) /\ Domain(e, e.parts[k])
  BY <1>5 DEF IsPart, IsA, IsBlock
<1>7. e \in Encodings /\ pos \in Nat /\ e.bytes[pos].t = "array"
  BY <1>5, <1>6, HereTypes DEF Domain
<1>8. lines.do = "lines" /\ lines.n = num - 1
  BY TaskFields
<1> HIDE DEF num, lines
<1>9. CASE pos <= Len(Content) /\ err' = FALSE /\ pos' = pos + 1 /\ num = e.bytes[pos].v
  <2>1. PICK j \in 1..Len(e.parts), u \in Place :
          /\ j = e.parts[k].kids[1] /\ u.at = e.parts[j].end /\ u.cells = e.parts[j].upto
          /\ e.parts[k].kids # <<>> /\ Fits(e, Cell(NoFormat), Onto(1), u)
    BY <1>5, <1>6, DomainFits
  <2> DEFINE ks == e.parts[k].kids
             v == [u EXCEPT !.fresh = TRUE]
             w == After(e, k, TRUE)
  <2>2. v \in Place /\ v.at = u.at /\ v.cells = u.cells /\ v.fresh = TRUE
    BY DEF Place
  <2>3. w \in Place /\ To(e, k, w) /\ w.at = e.parts[k].end /\ w.cells = e.parts[k].upto /\ w.fresh = TRUE
    BY <1>7, AfterType
  <2>4. ks \in Seq(Nat) /\ Filled(e, e.parts[k], 1) /\ Len(ks) = num
    BY <1>5, <1>6, <1>7, <1>9, PartType DEF Domain, IsBlock
  <2> HIDE DEF v, w
  <2>5. Run(e, ks, Onto(1), w)
    BY <1>5, <2>3, <2>4, OntoType, FilledRun
  <2>6. /\ Run(e, Tail(ks), v, w) /\ Tail(ks) \in Seq(Nat) /\ Len(Tail(ks)) = Len(ks) - 1
        /\ \A l \in 1..Len(Tail(ks)) : Tail(ks)[l] = ks[l + 1] /\ l + 1 \in 1..Len(ks)
    BY <2>1, <2>2, <2>4, <2>5, RunSplit
  <2>7. All(e, Tail(ks), "line")
    <3> SUFFICES ASSUME NEW l \in 1..Len(Tail(ks)) PROVE e.parts[Tail(ks)[l]].kind = "line"
      BY DEF All
    <3>1. l + 1 \in 2..Len(ks) /\ Tail(ks)[l] = ks[l + 1]
      BY <2>6
    <3> QED
      BY <1>6, <3>1 DEF IsBlock, Kid
  <2>8. FitsLoop(e, "line", num - 1, v, w)
    BY <2>2, <2>3, <2>4, <2>6, <2>7 DEF FitsLoop, Several, LinesEnd, Begun
  <2>9. Fits(e, NewLine, u, v) /\ Fits(e, lines, v, w) /\ Fits(e, NewLine, w, w)
    BY <1>8, <2>2, <2>3, <2>8, NewLineFits, LoopFits
  <2>10. Fits(e, Fewer, w, m)
    BY <1>2, <1>5, FewerFields, LoopFits DEF w
  <2> QED
    BY <1>1, <1>2, <1>3, <1>9, <2>1, <2>2, <2>3, <2>9, <2>10, PassFive DEF Idle
<1>10. CASE ~(pos <= Len(Content)) /\ err' = TRUE
  BY <1>1, <1>5, <1>10, StartFails
<1> QED
  BY <1>1, <1>7, <1>9, <1>10, ExpectTag DEF num

LEMMA CellOfTableFollow == ASSUME NEW e, Ready(e), Aligned(e), CellOfTable PROVE Follows(e)'
<1> DEFINE heads == IF Fewer.heads = <<>> THEN Fewer.heads ELSE Tail(Fewer.heads)
           rest == [Fewer EXCEPT !.heads = heads]
<1>1. PICK fmt \in HeadAt(Top.heads, 1) : Then(<<Cell(fmt), rest>>)
  BY DEF CellOfTable
<1>2. Doing("cells") /\ Top.style = "table" /\ Top.n > 0 /\ Idle /\ UNCHANGED reader
  BY DEF CellOfTable, Idle
<1>3. showing /\ todo # <<>> /\ Top.do = "cells" /\ Top \in Frame /\ Top.n \in Int
      /\ Top.heads \in Seq(HeadFormats)
  BY <1>2, TopReady DEF Frame
<1>4. PICK m, t : Bound(e, m, t) /\ Fits(e, Top, Here, m)
  BY <1>3, TopFits
<1>5. Stretch(e, Here, m) /\ \E ks \in Seq(Nat) :
         /\ Len(ks) = Top.n /\ Run(e, ks, Here, m)
         /\ \A j \in 1..Len(ks) : CellOfColumn(e, ks[j], Top.style, Top.heads, j)
  BY <1>3, <1>4 DEF Fits, FitsCells
<1>6. PICK ks \in Seq(Nat) :
        /\ Len(ks) = Top.n /\ Run(e, ks, Here, m)
        /\ \A j \in 1..Len(ks) : CellOfColumn(e, ks[j], Top.style, Top.heads, j)
  BY <1>5
<1>7. ks # <<>> /\ 1 \in 1..Len(ks)
  BY <1>2, <1>3, <1>6
<1>8. e \in Encodings /\ Here \in Place /\ m \in Place /\ Onto(0) = Here
  BY <1>4, HereTypes DEF Bound
<1>9. PICK u \in Place :
        /\ ks[1] \in 1..Len(e.parts) /\ From(e, ks[1], Here) /\ To(e, ks[1], u)
        /\ Stretch(e, Here, u) /\ Stretch(e, u, m) /\ Run(e, Tail(ks), u, m)
        /\ Tail(ks) \in Seq(Nat) /\ Len(Tail(ks)) = Len(ks) - 1
        /\ \A k \in 1..Len(Tail(ks)) : Tail(ks)[k] = ks[k + 1] /\ k + 1 \in 1..Len(ks)
  BY <1>5, <1>6, <1>7, <1>8, FirstOfRun
<1>10. /\ e.parts[ks[1]].kind = "value" /\ 1 <= Len(Top.heads) /\ e.parts[ks[1]].fmt = Top.heads[1]
  <2>1. CellOfColumn(e, ks[1], Top.style, Top.heads, 1)
    BY <1>6, <1>7
  <2> QED
    BY <1>2, <2>1 DEF CellOfColumn
<1>11. fmt = Top.heads[1] /\ Top.heads # <<>>
  <2>1. 1 \in DOMAIN Top.heads /\ Top.heads # <<>>
    BY <1>3, <1>10
  <2> QED
    BY <1>1, <2>1 DEF HeadAt
<1>12. Fits(e, Cell(fmt), Onto(0), u)
  BY <1>8, <1>9, <1>10, <1>11, CellFits DEF FitsOne, IsA
<1>13. rest.do = "cells" /\ rest.n = Top.n - 1 /\ rest.style = "table" /\ rest.heads = Tail(Top.heads)
  <2>1. Fewer.heads = Top.heads /\ Fewer.do = "cells" /\ Fewer.n = Top.n - 1 /\ Fewer.style = "table"
    BY <1>2, <1>3, FewerFields
  <2>2. Fewer \in Frame
    BY <1>2, TopSound DEF Ready
  <2>3. heads = Tail(Top.heads)
    BY <1>11, <2>1
  <2> HIDE DEF heads
  <2> QED
    BY <2>1, <2>2, <2>3 DEF Frame
<1> HIDE DEF rest
<1>14. FitsCells(e, rest, u, m)
  <2>1. \A j \in 1..Len(Tail(ks)) : CellOfColumn(e, Tail(ks)[j], "table", Tail(Top.heads), j)
    <3> SUFFICES ASSUME NEW j \in 1..Len(Tail(ks))
                 PROVE  CellOfColumn(e, Tail(ks)[j], "table", Tail(Top.heads), j)
      OBVIOUS
    <3>1. Tail(ks)[j] = ks[j + 1] /\ j + 1 \in 1..Len(ks) /\ j \in Nat \ {0}
      BY <1>9
    <3>2. CellOfColumn(e, ks[j + 1], Top.style, Top.heads, j + 1)
      BY <1>6, <3>1
    <3>3. /\ e.parts[ks[j + 1]].kind = "value" /\ j + 1 <= Len(Top.heads)
          /\ e.parts[ks[j + 1]].fmt = Top.heads[j + 1]
      BY <1>2, <3>2 DEF CellOfColumn
    <3>4. j <= Len(Tail(Top.heads)) /\ Tail(Top.heads)[j] = Top.heads[j + 1]
      BY <1>3, <1>11, <3>1, <3>3
    <3> QED
      BY <3>1, <3>3, <3>4 DEF CellOfColumn
  <2> QED
    BY <1>6, <1>9, <1>13, <2>1 DEF FitsCells
<1>15. Fits(e, rest, u, m)
  BY <1>13, <1>14 DEF Fits
<1>16. err' = FALSE /\ pos' = pos + 0
  BY <1>2, HereTypes DEF reader, Ready
<1> QED
  BY <1>1, <1>2, <1>3, <1>4, <1>9, <1>12, <1>15, <1>16, PassTwo DEF Idle

\* The value of a key or a sparse cell: plain, or read by its format.
Keyed(fmt) == IF fmt = NoFormat THEN Cell(fmt) ELSE ByFormat(fmt, Nil, 0)

LEMMA KeyedFits ==
  ASSUME NEW e, NEW fmt, NEW s, NEW t, NEW j \in 1..Len(e.parts), From(e, j, s), To(e, j, t),
         Stretch(e, s, t),
         \/ fmt = NoFormat /\ e.parts[j].kind = "value" /\ e.parts[j].fmt = NoFormat
         \/ fmt \in SelfReading /\ e.parts[j].kind = "special" /\ e.parts[j].fmt = fmt
  PROVE  Fits(e, Keyed(fmt), s, t)
<1>1. CASE fmt = NoFormat /\ e.parts[j].kind = "value" /\ e.parts[j].fmt = NoFormat
  BY <1>1, CellFits DEF Keyed, FitsOne, IsA
<1>2. CASE fmt \in SelfReading /\ e.parts[j].kind = "special" /\ e.parts[j].fmt = fmt
  <2> DEFINE f == ByFormat(fmt, Nil, 0)
  <2>1. f.do = "special" /\ f.fmt = fmt
    BY ByFormatFields
  <2>2. Keyed(fmt) = f
    BY <1>2, NotAFormat, Zenon DEF Keyed, SelfReading
  <2> HIDE DEF f
  <2>3. FitsSpecial(e, f, s, t)
    BY <1>2, <2>1 DEF FitsSpecial, FitsOne, IsA
  <2> QED
    BY <2>1, <2>2, <2>3, ByFormatFits
<1> QED
  BY <1>1, <1>2

LEMMA CellOfSparseFollow == ASSUME NEW e, Ready(e), Aligned(e), CellOfSparse PROVE Follows(e)'
<1>1. Doing("cells") /\ Top.style = "sparse" /\ Top.n > 0 /\ Idle /\ Read(2)
      /\ \E fmt \in HeadAt(Top.heads, Ahead(1).v) : Then(<<Keyed(fmt), Fewer>>)
  BY DEF CellOfSparse, Idle, Keyed
<1>2. PICK fmt \in HeadAt(Top.heads, Ahead(1).v) : Then(<<Keyed(fmt), Fewer>>)
  BY <1>1
<1>3. showing /\ todo # <<>> /\ Top.do = "cells" /\ Top \in Frame /\ Top.n \in Int
      /\ Top.heads \in Seq(HeadFormats)
  BY <1>1, TopReady DEF Frame
<1>4. PICK m, t : Bound(e, m, t) /\ Fits(e, Top, Here, m)
  BY <1>3, TopFits
<1>5. Stretch(e, Here, m) /\ \E ks \in Seq(Nat) :
         /\ Len(ks) = Top.n /\ Run(e, ks, Here, m)
         /\ \A j \in 1..Len(ks) : CellOfColumn(e, ks[j], Top.style, Top.heads, j)
  BY <1>3, <1>4 DEF Fits, FitsCells
<1>6. PICK ks \in Seq(Nat) :
        /\ Len(ks) = Top.n /\ Run(e, ks, Here, m)
        /\ \A j \in 1..Len(ks) : CellOfColumn(e, ks[j], Top.style, Top.heads, j)
  BY <1>5
<1>7. ks # <<>> /\ 1 \in 1..Len(ks)
  BY <1>1, <1>3, <1>6
<1>8. e \in Encodings /\ Here \in Place /\ m \in Place /\ Here.at = pos /\ Here.cells = Len(out) /\ pos \in Nat
  BY <1>4, HereTypes DEF Bound
<1>9. PICK u \in Place :
        /\ ks[1] \in 1..Len(e.parts) /\ From(e, ks[1], Here) /\ To(e, ks[1], u)
        /\ Stretch(e, Here, u) /\ Stretch(e, u, m) /\ Run(e, Tail(ks), u, m)
        /\ Tail(ks) \in Seq(Nat) /\ Len(Tail(ks)) = Len(ks) - 1
        /\ \A k \in 1..Len(Tail(ks)) : Tail(ks)[k] = ks[k + 1] /\ k + 1 \in 1..Len(ks)
  BY <1>5, <1>6, <1>7, <1>8, FirstOfRun
<1> DEFINE k == ks[1]
<1>10. e.parts[k].kind = "sparse" /\ e.parts[k].heads = Top.heads
  <2>1. CellOfColumn(e, ks[1], Top.style, Top.heads, 1)
    BY <1>6, <1>7
  <2> QED
    BY <1>1, <2>1 DEF CellOfColumn
<1>11. IsSparse(e, e.parts[k]) /\ e.parts[k].at = pos /\ e.parts[k].before = Len(out)
  BY <1>8, <1>9, <1>10, PartType DEF IsPart, From
<1> DEFINE key == e.bytes[pos + 1].v
<1>12. /\ key \in 1..Len(Top.heads) /\ Len(e.parts[k].kids) = 1 /\ Filled(e, e.parts[k], 2)
       /\ \/ Top.heads[key] = NoFormat /\ Plain(e, e.parts[k].kids)
          \/ Top.heads[key] \in SelfReading /\ Kid(e, e.parts[k], 1).kind = "special"
               /\ Kid(e, e.parts[k], 1).fmt = Top.heads[key]
  BY <1>10, <1>11 DEF IsSparse
<1>15. k \in 1..Len(e.parts) /\ To(e, k, u) /\ 2 \in Nat
  BY <1>9
<1> HIDE DEF k
<1>13. CASE pos + 2 - 1 <= Len(Content)
  <2>1. err' = FALSE /\ pos' = pos + 2
    BY <1>1, <1>13, ReadEnds
  <2>2. Ahead(1).v = key
    <3>1. pos + 1 <= Len(Content)
      BY <1>8, <1>13, ReadyTypes
    <3> QED
      BY <3>1, AheadIs
  <2>3. fmt = Top.heads[key]
    <3>1. key \in DOMAIN Top.heads
      BY <1>3, <1>12
    <3> QED
      BY <1>2, <2>2, <3>1 DEF HeadAt
  <2>4. PICK j \in 1..Len(e.parts) :
          /\ j = e.parts[k].kids[1] /\ Kid(e, e.parts[k], 1) = e.parts[j]
          /\ e.parts[j].at = e.parts[k].at + 2 /\ e.parts[j].before = e.parts[k].before
          /\ e.parts[j].end = e.parts[k].end /\ e.parts[j].upto = e.parts[k].upto
    BY <1>8, <1>12, <1>15, OnlyKid
  <2>5. From(e, j, Onto(2)) /\ To(e, j, u)
    BY <1>11, <1>15, <2>4, OntoType, SMTT(30) DEF From, To
  <2>6. Stretch(e, Onto(2), u)
    BY <1>9, StretchOnto, SMTT(30)
  <2>7. \/ fmt = NoFormat /\ e.parts[j].kind = "value" /\ e.parts[j].fmt = NoFormat
        \/ fmt \in SelfReading /\ e.parts[j].kind = "special" /\ e.parts[j].fmt = fmt
    BY <1>12, <2>3, <2>4 DEF Plain
  <2>8. Fits(e, Keyed(fmt), Onto(2), u)
    BY <2>5, <2>6, <2>7, KeyedFits
  <2>9. Fits(e, Fewer, u, m)
    <3>1. Fewer.do = "cells" /\ Fewer.n = Top.n - 1 /\ Fewer.style = "sparse" /\ Fewer.heads = Top.heads
      BY <1>1, <1>3, FewerFields
    <3>2. \A j1 \in 1..Len(Tail(ks)) : CellOfColumn(e, Tail(ks)[j1], "sparse", Top.heads, j1)
      BY <1>1, <1>6, <1>9 DEF CellOfColumn
    <3>3. FitsCells(e, Fewer, u, m)
      BY <1>6, <1>9, <3>1, <3>2 DEF FitsCells
    <3> QED
      BY <3>1, <3>3 DEF Fits
  <2> QED
    BY <1>1, <1>2, <1>3, <1>4, <1>9, <2>1, <2>8, <2>9, PassTwo DEF Idle
<1>14. CASE ~(pos + 2 - 1 <= Len(Content))
  <2>1. err' = TRUE
    BY <1>1, <1>14, ReadEnds
  <2>2. Reach(e, pos + 2, Len(out))
    BY <1>8, <1>11, <1>12, <1>15, ReachFilled
  <2>3. (pos + 2) - 1 > Len(Content)
    BY <1>8, <1>14, ReadyTypes
  <2> QED
    BY <1>1, <2>1, <2>2, <2>3, Failing DEF Idle, shown
<1> QED
  BY <1>13, <1>14

-----------------------------------------------------------------------------
(* Values. *)

\* A cell is printed and leads to the place behind it.
LEMMA CellPrinted ==
  ASSUME NEW e, Ready(e), UNCHANGED outer, err' = FALSE,
         NEW fmt, NEW val, NEW at, PrintCell(fmt, val, at),
         NEW u \in Place, u.cells = Len(out) + 1, pos' = u.at, IsCell(e, u.cells, fmt, val, at, u.at),
         Stretch(e, Here, u),
         \/ fmt # "l" /\ UNCHANGED port_link_flag
         \/ fmt = "l" /\ val = <<port_link_flag'>>,
         NEW t \in Place, Finished(e, t), Chain(e, todo', u, t)
  PROVE  Follows(e)'
<1>1. Here.cells = Len(out) /\ Here.fresh = Unbroken /\ Len(out) \in Nat /\ u.fresh \in BOOLEAN
  BY HereTypes DEF Place
<1>2. ~u.fresh
  <2>1. u.fresh <=> Here.fresh /\ u.cells = Here.cells
    BY DEF Stretch
  <2> QED
    BY <1>1, <2>1
<1>3. ASSUME Len(out) >= 1 PROVE NewRow(e, Len(out) + 1) <=> Unbroken
  <2>1. Len(out) + 1 \in Here.cells + 1..u.cells /\ Len(out) + 1 > 1
    BY <1>1, <1>3
  <2>2. NewRow(e, Len(out) + 1) <=> Here.fresh /\ Len(out) + 1 = Here.cells + 1
    BY <2>1 DEF Stretch, Rowed
  <2> QED
    BY <1>1, <2>2
<1>4. IsCell(e, Len(out) + 1, fmt, val, at, u.at)
  OBVIOUS
<1> QED
  BY <1>2, <1>3, <1>4, Printing

\* The part on top is printed as one cell.
LEMMA PartPrinted ==
  ASSUME NEW e, Ready(e), UNCHANGED outer, err' = FALSE, todo # <<>>, Then(<<>>),
         NEW fmt, NEW val, NEW at, PrintCell(fmt, val, at),
         NEW m, NEW t, Bound(e, m, t), NEW k \in 1..Len(e.parts),
         OneCell(e, e.parts[k], fmt, val, at), e.parts[k].before = Len(out), To(e, k, m),
         pos' = e.parts[k].end, Stretch(e, Here, m),
         \/ fmt # "l" /\ UNCHANGED port_link_flag
         \/ fmt = "l" /\ val = <<port_link_flag'>>
  PROVE  Follows(e)'
<1>1. m \in Place /\ t \in Place /\ Finished(e, t) /\ Chain(e, Tail(todo), m, t)
  BY DEF Bound
<1>2. m.at = e.parts[k].end /\ m.cells = e.parts[k].upto
  BY DEF To
<1>3. e.parts[k].upto = Len(out) + 1 /\ IsCell(e, e.parts[k].upto, fmt, val, at, e.parts[k].end)
  BY DEF OneCell
<1>4. todo' = Tail(todo)
  BY RestType DEF Then
<1>5. m.cells = Len(out) + 1 /\ pos' = m.at /\ IsCell(e, m.cells, fmt, val, at, m.at)
  BY <1>2, <1>3
<1>6. Chain(e, todo', m, t)
  BY <1>1, <1>4
<1> QED
  BY <1>1, <1>5, <1>6, CellPrinted

\* A part without cells leads nowhere but on.
LEMMA SilentPart ==
  ASSUME NEW e, Ready(e), NEW m \in Place, NEW n \in Nat, Stretch(e, Here, m),
         m.at = pos + n, m.cells = Len(out)
  PROVE  Onto(n) = m
<1>1. Here.cells = Len(out) /\ Here.fresh = Unbroken /\ m.fresh \in BOOLEAN
  BY HereTypes DEF Place
<1>2. m.fresh = Unbroken
  BY <1>1, HereTypes DEF Stretch
<1> QED
  BY <1>2, OntoType, SamePlace

\* The value that is being unpacked.
LEMMA UnpackPart ==
  ASSUME NEW e, Ready(e), Aligned(e), HasTask
  PROVE  /\ showing /\ todo # <<>> /\ Top.do = "unpack" /\ Top \in Frame /\ Top.tag.v \in Nat
         /\ \E m, t : \E k \in 1..Len(e.parts) :
              /\ Bound(e, m, t) /\ IsValue(e, e.parts[k]) /\ e.parts[k].fmt = Top.fmt
              /\ To(e, k, m) /\ e.parts[k].at = Top.at /\ Top.at + 1 = pos
              /\ e.parts[k].before = Len(out) /\ Stretch(e, Here, m) /\ e.bytes[Top.at] = Top.tag
              /\ FitsUnpack(e, Top.fmt, Top.tag, Top.at, Here, m)
<1>1. showing /\ todo # <<>> /\ Top.do = "unpack" /\ Top \in Frame /\ Top.tag.v \in Nat
  BY TopReady DEF HasTask
<1>2. PICK m, t : Bound(e, m, t) /\ Fits(e, Top, Here, m)
  BY <1>1, TopFits
<1>3. FitsUnpack(e, Top.fmt, Top.tag, Top.at, Here, m)
  BY <1>1, <1>2 DEF Fits
<1>4. PICK k \in 1..Len(e.parts) :
        /\ IsA(e, k, "value") /\ e.parts[k].fmt = Top.fmt /\ To(e, k, m)
        /\ e.parts[k].at = Top.at /\ Top.at + 1 = Here.at /\ e.parts[k].before = Here.cells
        /\ Stretch(e, Here, m) /\ e.bytes[Top.at] = Top.tag
  BY <1>3 DEF FitsUnpack, OpenAt
<1>5. Here.at = pos /\ Here.cells = Len(out) /\ e \in Encodings
  BY HereTypes
<1>6. IsValue(e, e.parts[k])
  BY <1>4, <1>5, PartType DEF IsPart, IsA
<1> QED
  BY <1>1, <1>2, <1>3, <1>4, <1>5, <1>6

LEMMA NumberFollow == ASSUME NEW e, Ready(e), Aligned(e), Number PROVE Follows(e)'
<1>1. HasTask /\ Top.tag.t = "uint" /\ UNCHANGED outer /\ UNCHANGED reader /\ UNCHANGED port_link_flag
  BY DEF Number
<1>2. todo # <<>>
  BY <1>1, UnpackPart
<1>3. PICK m, t : \E k \in 1..Len(e.parts) :
        /\ Bound(e, m, t) /\ IsValue(e, e.parts[k]) /\ e.parts[k].fmt = Top.fmt
        /\ To(e, k, m) /\ e.parts[k].at = Top.at /\ Top.at + 1 = pos
        /\ e.parts[k].before = Len(out) /\ Stretch(e, Here, m) /\ e.bytes[Top.at] = Top.tag
        /\ FitsUnpack(e, Top.fmt, Top.tag, Top.at, Here, m)
  BY <1>1, UnpackPart
<1>4. PICK k \in 1..Len(e.parts) :
        /\ Bound(e, m, t) /\ IsValue(e, e.parts[k]) /\ e.parts[k].fmt = Top.fmt
        /\ To(e, k, m) /\ e.parts[k].at = Top.at /\ Top.at + 1 = pos
        /\ e.parts[k].before = Len(out) /\ Stretch(e, Here, m) /\ e.bytes[Top.at] = Top.tag
        /\ FitsUnpack(e, Top.fmt, Top.tag, Top.at, Here, m)
  BY <1>3
<1>5. err' = FALSE /\ pos' = pos /\ pos' = pos + 0 /\ m \in Place
  BY <1>1, <1>4, HereTypes DEF reader, Ready, Bound
<1>6. /\ e.parts[k].end = pos
      /\ \/ Top.fmt = NoFormat /\ OneCell(e, e.parts[k], NoFormat, <<Top.tag.v>>, Top.at)
         \/ Top.fmt \in GivenOnes
         \/ Top.fmt = "?" /\ NoCell(e.parts[k])
  BY <1>1, <1>4 DEF IsValue, Byte
<1>7. CASE Top.fmt = NoFormat
  <2>1. OneCell(e, e.parts[k], NoFormat, <<Top.tag.v>>, Top.at)
    BY <1>6, <1>7, NotAFormat, NamedFormats, Zenon DEF GivenOnes
  <2>2. PrintCell(NoFormat, <<Top.tag.v>>, Top.at) /\ Then(<<>>)
    BY <1>7 DEF Number
  <2>3. NoFormat # "l"
    BY Zenon DEF NoFormat
  <2> QED
    BY <1>1, <1>2, <1>4, <1>5, <1>6, <2>1, <2>2, <2>3, PartPrinted
<1>8. CASE Top.fmt # NoFormat
  <2> DEFINE f == ByFormat(Top.fmt, Top.tag, Top.at)
  <2>1. Then(<<f>>) /\ UNCHANGED shown
    BY <1>8 DEF Number
  <2>2. f.do = "special" /\ f.tag = Top.tag /\ f.fmt = Top.fmt /\ f.at = Top.at
    BY ByFormatFields
  <2> HIDE DEF f
  <2>3. FitsSpecial(e, f, Onto(0), m)
    <3>1. CASE Top.fmt \in GivenOnes
      BY <1>1, <1>4, <2>2, <3>1, HereTypes DEF FitsSpecial
    <3>2. CASE Top.fmt = "?" /\ NoCell(e.parts[k])
      <4>1. m.at = pos + 0 /\ m.cells = Len(out)
        BY <1>4, <1>6, <3>2, HereTypes DEF To, NoCell
      <4>2. Onto(0) = m
        BY <1>4, <1>5, <4>1, SilentPart
      <4> QED
        BY <2>2, <3>2, <4>2 DEF FitsSpecial
    <3> QED
      BY <1>6, <1>8, <3>1, <3>2
  <2>4. Fits(e, f, Onto(0), m)
    BY <2>2, <2>3, ByFormatFits
  <2> QED
    BY <1>1, <1>2, <1>4, <1>5, <2>1, <2>4, PassOne
<1> QED
  BY <1>7, <1>8

LEMMA StringFollow == ASSUME NEW e, Ready(e), Aligned(e), String PROVE Follows(e)'
<1>1. HasTask /\ Top.tag.t = "str" /\ Read(Top.tag.v) /\ UNCHANGED outer /\ UNCHANGED port_link_flag
  BY DEF String
<1>2. todo # <<>> /\ Top.tag.v \in Nat /\ Top \in Frame
  BY <1>1, UnpackPart
<1>3. PICK m, t : \E k \in 1..Len(e.parts) :
        /\ Bound(e, m, t) /\ IsValue(e, e.parts[k]) /\ e.parts[k].fmt = Top.fmt
        /\ To(e, k, m) /\ e.parts[k].at = Top.at /\ Top.at + 1 = pos
        /\ e.parts[k].before = Len(out) /\ Stretch(e, Here, m) /\ e.bytes[Top.at] = Top.tag
  BY <1>1, UnpackPart
<1>4. PICK k \in 1..Len(e.parts) :
        /\ Bound(e, m, t) /\ IsValue(e, e.parts[k]) /\ e.parts[k].fmt = Top.fmt
        /\ To(e, k, m) /\ e.parts[k].at = Top.at /\ Top.at + 1 = pos
        /\ e.parts[k].before = Len(out) /\ Stretch(e, Here, m) /\ e.bytes[Top.at] = Top.tag
  BY <1>3
<1> DEFINE v == Top.tag.v
<1>5. /\ Top.fmt = NoFormat /\ e.parts[k].end = pos + v
      /\ OneCell(e, e.parts[k], NoFormat, ValuesAt(e, pos, v), Top.at)
  BY <1>1, <1>4 DEF IsValue, Byte
<1>6. PrintCell(NoFormat, Text(0, v), Top.at) /\ Then(<<>>) /\ NoFormat # "l"
  <2>1. NoFormat # "l"
    BY Zenon DEF NoFormat
  <2> QED
    BY <1>5, <2>1 DEF String
<1>7. pos \in Nat /\ Len(Content) \in Nat /\ v \in Nat /\ e \in Encodings
  BY <1>2, ReadyTypes
<1> HIDE DEF v
<1>8. CASE pos + v - 1 <= Len(Content)
  <2>1. err' = FALSE /\ pos' = pos + v
    BY <1>1, <1>7, <1>8, ReadEnds DEF v
  <2>2. Readable(0 + v)
    BY <1>7, <1>8, ReadableIs
  <2>3. Numbers(0, v) = ValuesAt(e, pos, v)
    <3>1. pos + 0 + v - 1 <= Len(Content) /\ pos + 0 = pos
      BY <1>7, <1>8
    <3> QED
      BY <1>7, <3>1, NumbersAre
  <2>4. Text(0, v) = ValuesAt(e, pos, v)
    BY <2>2, <2>3 DEF Text
  <2> QED
    BY <1>1, <1>2, <1>4, <1>5, <1>6, <2>1, <2>4, PartPrinted
<1>9. CASE ~(pos + v - 1 <= Len(Content))
  <2>1. err' = TRUE
    BY <1>1, <1>7, <1>9, ReadEnds DEF v
  <2>2. Reach(e, e.parts[k].end, Len(out))
    BY <1>4, <1>5, <1>7, ReachEnd
  <2>3. e.parts[k].end - 1 > Len(Content)
    BY <1>5, <1>7, <1>9
  <2>4. out' = out \/ \E c : out' = Append(out, c)
    BY <1>6 DEF PrintCell
  <2> QED
    BY <1>1, <2>1, <2>2, <2>3, <2>4, Failing
<1> QED
  BY <1>8, <1>9

LEMMA ArrayFollow == ASSUME NEW e, Ready(e), Aligned(e), Array PROVE Follows(e)'
<1>1. HasTask /\ Top.tag.t = "array" /\ UNCHANGED outer /\ UNCHANGED reader /\ UNCHANGED port_link_flag
  BY DEF Array
<1>2. todo # <<>> /\ Top.tag.v \in Nat /\ Top \in Frame
  BY <1>1, UnpackPart
<1>3. PICK m, t : \E k \in 1..Len(e.parts) :
        /\ Bound(e, m, t) /\ IsValue(e, e.parts[k]) /\ e.parts[k].fmt = Top.fmt
        /\ To(e, k, m) /\ e.parts[k].at = Top.at /\ Top.at + 1 = pos
        /\ e.parts[k].before = Len(out) /\ Stretch(e, Here, m) /\ e.bytes[Top.at] = Top.tag
  BY <1>1, UnpackPart
<1>4. PICK k \in 1..Len(e.parts) :
        /\ Bound(e, m, t) /\ IsValue(e, e.parts[k]) /\ e.parts[k].fmt = Top.fmt
        /\ To(e, k, m) /\ e.parts[k].at = Top.at /\ Top.at + 1 = pos
        /\ e.parts[k].before = Len(out) /\ Stretch(e, Here, m) /\ e.bytes[Top.at] = Top.tag
  BY <1>3
<1>5. err' = FALSE /\ pos' = pos /\ pos' = pos + 0 /\ e \in Encodings
  BY <1>1, HereTypes DEF reader, Ready
<1>6. CASE Top.tag.v = 0
  <2>1. OneCell(e, e.parts[k], NoFormat, <<>>, Top.at) /\ e.parts[k].end = pos
    BY <1>1, <1>4, <1>6 DEF IsValue, Byte
  <2>2. PrintCell(NoFormat, <<>>, Top.at) /\ Then(<<>>)
    BY <1>6 DEF Array
  <2>3. NoFormat # "l"
    BY Zenon DEF NoFormat
  <2> QED
    BY <1>1, <1>2, <1>4, <1>5, <2>1, <2>2, <2>3, PartPrinted
<1>7. CASE Top.tag.v # 0
  <2>1. /\ Filled(e, e.parts[k], 1)
        /\ \/ /\ Top.fmt = NoFormat /\ Len(e.parts[k].kids) = Top.tag.v /\ Plain(e, e.parts[k].kids)
           \/ /\ Top.fmt \in SelfReading /\ Len(e.parts[k].kids) = 1
              /\ Kid(e, e.parts[k], 1).kind = "special" /\ Kid(e, e.parts[k], 1).fmt = Top.fmt
    <3>1. IsValue(e, e.parts[k]) /\ e.bytes[e.parts[k].at] = Top.tag /\ e.parts[k].fmt = Top.fmt
      BY <1>4
    <3>2. Top.tag # Byte("array", 0)
      BY <1>7 DEF Byte
    <3> QED
      BY <1>1, <3>1, <3>2 DEF IsValue
  <2>2. UNCHANGED shown
    BY <1>7 DEF Array
  <2>3. CASE Top.fmt = NoFormat
    <3> DEFINE f == Task("values", Top.tag.v)
    <3>1. Then(<<f>>)
      BY <1>7, <2>3 DEF Array
    <3>2. f.do = "values" /\ f.n = Top.tag.v
      BY TaskFields
    <3> HIDE DEF f
    <3>3. Len(e.parts[k].kids) = Top.tag.v /\ Plain(e, e.parts[k].kids)
      BY <2>1, <2>3, NotAFormat, Zenon DEF SelfReading
    <3>4. Run(e, e.parts[k].kids, Here, m) /\ e.parts[k].kids \in Seq(Nat)
      BY <1>4, <1>5, <2>1, FilledRun, PartType, HereTypes
    <3>5. Fits(e, f, Onto(0), m)
      BY <1>4, <3>2, <3>3, <3>4, LoopFits, HereTypes DEF FitsValues
    <3> QED
      BY <1>1, <1>2, <1>4, <1>5, <2>2, <3>1, <3>5, PassOne
  <2>4. CASE Top.fmt # NoFormat
    <3> DEFINE f == ByFormat(Top.fmt, Nil, Top.at)
    <3>1. Then(<<f>>)
      BY <1>7, <2>4 DEF Array
    <3>2. f.do = "special" /\ f.fmt = Top.fmt
      BY ByFormatFields
    <3> HIDE DEF f
    <3>3. /\ Top.fmt \in SelfReading /\ Len(e.parts[k].kids) = 1
          /\ Kid(e, e.parts[k], 1).kind = "special" /\ Kid(e, e.parts[k], 1).fmt = Top.fmt
      BY <2>1, <2>4
    <3>4. PICK j \in 1..Len(e.parts) :
            /\ Kid(e, e.parts[k], 1) = e.parts[j]
            /\ e.parts[j].at = e.parts[k].at + 1 /\ e.parts[j].before = e.parts[k].before
            /\ e.parts[j].end = e.parts[k].end /\ e.parts[j].upto = e.parts[k].upto
      BY <1>5, <2>1, <3>3, OnlyKid
    <3>5. From(e, j, Here) /\ To(e, j, m)
      BY <1>4, <3>4, HereTypes DEF From, To
    <3>6. FitsSpecial(e, f, Here, m)
      BY <1>4, <3>2, <3>3, <3>4, <3>5 DEF FitsSpecial, FitsOne, IsA
    <3>7. Fits(e, f, Onto(0), m)
      BY <3>2, <3>6, ByFormatFits, HereTypes
    <3> QED
      BY <1>1, <1>2, <1>4, <1>5, <2>2, <3>1, <3>7, PassOne
  <2> QED
    BY <2>3, <2>4
<1> QED
  BY <1>6, <1>7

LEMMA MapFollow == ASSUME NEW e, Ready(e), Aligned(e), Map PROVE Follows(e)'
<1> DEFINE f == Task("pairs", Top.tag.v)
<1>1. HasTask /\ Top.tag.t = "map" /\ Idle /\ UNCHANGED reader /\ Then(<<f>>)
  BY DEF Map, Idle
<1>2. todo # <<>> /\ Top.tag.v \in Nat /\ Top \in Frame
  BY <1>1, UnpackPart
<1>3. PICK m, t : \E k \in 1..Len(e.parts) :
        /\ Bound(e, m, t) /\ IsValue(e, e.parts[k])
        /\ To(e, k, m) /\ e.parts[k].at = Top.at /\ Top.at + 1 = pos
        /\ e.parts[k].before = Len(out) /\ Stretch(e, Here, m) /\ e.bytes[Top.at] = Top.tag
  BY <1>1, UnpackPart
<1>4. PICK k \in 1..Len(e.parts) :
        /\ Bound(e, m, t) /\ IsValue(e, e.parts[k])
        /\ To(e, k, m) /\ e.parts[k].at = Top.at /\ Top.at + 1 = pos
        /\ e.parts[k].before = Len(out) /\ Stretch(e, Here, m) /\ e.bytes[Top.at] = Top.tag
  BY <1>3
<1>5. err' = FALSE /\ pos' = pos + 0 /\ e \in Encodings
  BY <1>1, HereTypes DEF reader, Ready
<1>6. /\ Filled(e, e.parts[k], 1) /\ Len(e.parts[k].kids) = Top.tag.v /\ All(e, e.parts[k].kids, "pair")
  BY <1>1, <1>4 DEF IsValue, Byte
<1>7. f.do = "pairs" /\ f.n = Top.tag.v
  BY TaskFields
<1> HIDE DEF f
<1>8. Run(e, e.parts[k].kids, Here, m) /\ e.parts[k].kids \in Seq(Nat)
  BY <1>4, <1>5, <1>6, FilledRun, PartType, HereTypes
<1>9. Fits(e, f, Onto(0), m)
  BY <1>4, <1>6, <1>7, <1>8, LoopFits, HereTypes DEF FitsPairs, Several
<1> QED
  BY <1>1, <1>2, <1>4, <1>5, <1>9, PassOne DEF Idle

LEMMA OtherTypeFollow == ASSUME NEW e, Ready(e), Aligned(e), OtherType PROVE Follows(e)'
<1>1. HasTask /\ Top.tag.t \notin {"uint", "str", "array", "map"}
  BY DEF OtherType
<1>2. PICK m, t : \E k \in 1..Len(e.parts) :
        IsValue(e, e.parts[k]) /\ e.parts[k].at = Top.at /\ e.bytes[Top.at] = Top.tag
  BY <1>1, UnpackPart
<1> QED
  BY <1>1, <1>2 DEF IsValue, Byte

LEMMA TwoLong ==
  ASSUME NEW S, NEW s \in Seq(S), Len(s) = 2
  PROVE  s # <<>> /\ 1 \in 1..Len(s) /\ 2 \in 1..Len(s) /\ Tail(s) # <<>> /\ Len(Tail(s)) = 1
<1>1. s # <<>>
  OBVIOUS
<1>2. 1 \in 1..Len(s) /\ 2 \in 1..Len(s)
  OBVIOUS
<1>3. Tail(s) \in Seq(S) /\ Len(Tail(s)) = 1
  BY <1>1
<1>4. \A r \in Seq(S) : Len(r) = 1 => r # <<>>
  OBVIOUS
<1> QED
  BY <1>1, <1>2, <1>3, <1>4

LEMMA PairFollow == ASSUME NEW e, Ready(e), Aligned(e), Pair PROVE Follows(e)'
<1> DEFINE key == Ahead(0)
           fmt == FormatIn(Text(1, key.v))
<1>1. /\ Doing("pairs") /\ Top.n > 0 /\ Idle
      /\ key.t # "str" => Read(1) /\ Then(<<Unpack(key, NoFormat, pos), Cell(NoFormat), Fewer>>)
      /\ key.t = "str" => Read(1 + key.v) /\ Then(<<Keyed(fmt), Fewer>>)
  BY DEF Pair, Idle, Keyed
<1>2. showing /\ todo # <<>> /\ Top.do = "pairs" /\ Top \in Frame /\ Top.n \in Int
  BY <1>1, TopReady
<1>3. PICK m, t : Bound(e, m, t) /\ Fits(e, Top, Here, m)
  BY <1>2, TopFits
<1>4. Several(e, "pair", Top.n, Here, m) /\ Stretch(e, Here, m)
  BY <1>2, <1>3 DEF Fits, FitsPairs
<1>5. PICK ks \in Seq(Nat) : Len(ks) = Top.n /\ All(e, ks, "pair") /\ Run(e, ks, Here, m)
  BY <1>4 DEF Several
<1>6. ks # <<>> /\ 1 \in 1..Len(ks)
  BY <1>1, <1>2, <1>5
<1>7. e \in Encodings /\ Here \in Place /\ m \in Place /\ Here.at = pos /\ Here.cells = Len(out)
      /\ pos \in Nat /\ pos + 0 = pos /\ Onto(0) = Here /\ Len(Content) \in Nat
  BY <1>3, HereTypes, ReadyTypes DEF Bound
<1>8. PICK u \in Place :
        /\ ks[1] \in 1..Len(e.parts) /\ From(e, ks[1], Here) /\ To(e, ks[1], u)
        /\ Stretch(e, Here, u) /\ Stretch(e, u, m) /\ Run(e, Tail(ks), u, m)
        /\ Tail(ks) \in Seq(Nat) /\ Len(Tail(ks)) = Len(ks) - 1
        /\ \A k \in 1..Len(Tail(ks)) : Tail(ks)[k] = ks[k + 1] /\ k + 1 \in 1..Len(ks)
  BY <1>4, <1>5, <1>6, <1>7, FirstOfRun
<1> DEFINE k == ks[1]
<1>9. /\ k \in 1..Len(e.parts) /\ e.parts[k].kind = "pair" /\ e.parts[k].at = pos
      /\ e.parts[k].before = Len(out) /\ To(e, k, u)
  BY <1>5, <1>6, <1>7, <1>8 DEF All, From
<1>10. Fits(e, Fewer, u, m)
  <2>1. All(e, Tail(ks), "pair")
    BY <1>5, <1>8 DEF All
  <2>2. Several(e, "pair", Top.n - 1, u, m)
    BY <1>5, <1>8, <2>1 DEF Several
  <2> QED
    BY <1>2, <1>8, <2>2, FewerFields, LoopFits DEF FitsPairs
<1> HIDE DEF k
<1>11. IsPair(e, e.parts[k]) /\ e.parts[k].kids \in Seq(Nat)
  BY <1>7, <1>9, PartType DEF IsPart
<1>12. CASE pos <= Len(Content) /\ key.t = "str"
  <2>1. key = e.bytes[pos] /\ key.v \in Nat
    BY <1>7, <1>12, AheadIs
  <2> DEFINE v == key.v
             sent == FormatIn(ValuesAt(e, pos + 1, v))
  <2>2. /\ Len(e.parts[k].kids) = 1 /\ Filled(e, e.parts[k], 1 + v)
        /\ \/ sent = NoFormat /\ Plain(e, e.parts[k].kids)
           \/ sent \in SelfReading /\ Kid(e, e.parts[k], 1).kind = "special"
                /\ Kid(e, e.parts[k], 1).fmt = sent
    BY <1>9, <1>11, <1>12, <2>1 DEF IsPair
  <2>3. v \in Nat /\ 1 + v \in Nat /\ Read(1 + v)
    BY <1>1, <1>12, <2>1
  <2> HIDE DEF v
  <2>4. CASE pos + (1 + v) - 1 <= Len(Content)
    <3>1. err' = FALSE /\ pos' = pos + (1 + v)
      BY <2>3, <2>4, ReadEnds
    <3>2. fmt = sent
      <4>1. pos + 1 + v - 1 <= Len(Content)
        BY <1>7, <2>3, <2>4
      <4>2. Readable(1 + v) /\ Numbers(1, v) = ValuesAt(e, pos + 1, v)
        BY <1>7, <2>3, <2>4, <4>1, ReadableIs, NumbersAre
      <4>3. Text(1, v) = ValuesAt(e, pos + 1, v)
        BY <4>2 DEF Text
      <4> QED
        BY <4>3 DEF v
    <3> HIDE DEF fmt, sent
    <3>3. PICK j \in 1..Len(e.parts) :
            /\ j = e.parts[k].kids[1] /\ Kid(e, e.parts[k], 1) = e.parts[j]
            /\ e.parts[j].at = e.parts[k].at + (1 + v) /\ e.parts[j].before = e.parts[k].before
            /\ e.parts[j].end = e.parts[k].end /\ e.parts[j].upto = e.parts[k].upto
      BY <1>7, <1>9, <2>2, <2>3, OnlyKid
    <3>4. From(e, j, Onto(1 + v)) /\ To(e, j, u)
      BY <1>9, <2>3, <3>3, OntoType DEF From, To
    <3>5. Stretch(e, Onto(1 + v), u)
      BY <1>8, <2>3, StretchOnto
    <3>6. \/ fmt = NoFormat /\ e.parts[j].kind = "value" /\ e.parts[j].fmt = NoFormat
          \/ fmt \in SelfReading /\ e.parts[j].kind = "special" /\ e.parts[j].fmt = fmt
      BY <2>2, <3>2, <3>3 DEF Plain
    <3>7. Fits(e, Keyed(fmt), Onto(1 + v), u)
      BY <3>4, <3>5, <3>6, KeyedFits
    <3>8. Then(<<Keyed(fmt), Fewer>>)
      BY <1>1, <1>12 DEF fmt
    <3> QED
      BY <1>1, <1>2, <1>3, <1>8, <1>10, <2>3, <3>1, <3>7, <3>8, PassTwo DEF Idle
  <2>5. CASE ~(pos + (1 + v) - 1 <= Len(Content))
    <3>1. err' = TRUE
      BY <2>3, <2>5, ReadEnds
    <3>2. Reach(e, pos + (1 + v), Len(out))
      BY <1>7, <1>9, <2>2, <2>3, ReachFilled
    <3>3. (pos + (1 + v)) - 1 > Len(Content)
      BY <1>7, <2>3, <2>5
    <3> QED
      BY <1>1, <3>1, <3>2, <3>3, Failing DEF Idle, shown
  <2> QED
    BY <2>4, <2>5
<1>13. CASE pos <= Len(Content) /\ key.t # "str"
  <2>1. key = e.bytes[pos] /\ Read(1) /\ Then(<<Unpack(key, NoFormat, pos), Cell(NoFormat), Fewer>>)
    BY <1>1, <1>7, <1>13, AheadIs
  <2>2. err' = FALSE /\ pos' = pos + 1
    BY <1>13, <2>1, ReadTag
  <2> DEFINE kids == e.parts[k].kids
  <2>3. Len(kids) = 2 /\ Filled(e, e.parts[k], 0) /\ Plain(e, kids) /\ kids \in Seq(Nat)
    BY <1>9, <1>11, <1>13, <2>1 DEF IsPair
  <2>4. Run(e, kids, Here, u)
    BY <1>7, <1>9, <2>3, FilledRun
  <2> HIDE DEF kids
  <2>5. kids # <<>> /\ 2 \in 1..Len(kids) /\ Tail(kids) # <<>> /\ Len(Tail(kids)) = 1
    BY <2>3, TwoLong
  <2>6. PICK w \in Place :
          /\ kids[1] \in 1..Len(e.parts) /\ 1 \in 1..Len(kids) /\ From(e, kids[1], Here)
          /\ To(e, kids[1], w) /\ Stretch(e, Here, w) /\ Stretch(e, w, u) /\ Run(e, Tail(kids), w, u)
          /\ Tail(kids) \in Seq(Nat) /\ Len(Tail(kids)) = Len(kids) - 1
          /\ \A i \in 1..Len(Tail(kids)) : Tail(kids)[i] = kids[i + 1] /\ i + 1 \in 1..Len(kids)
    BY <1>7, <1>8, <2>3, <2>4, <2>5, FirstOfRun
  <2>7. FitsUnpack(e, NoFormat, key, pos, Onto(1), w)
    <3>1. Stretch(e, Onto(1), w) /\ Onto(1).at = pos + 1 /\ Onto(1).cells = Len(out)
      BY <2>6, StretchOnto, OntoType
    <3>2. e.parts[kids[1]].kind = "value" /\ e.parts[kids[1]].fmt = NoFormat
      BY <2>3, <2>6 DEF Plain
    <3>3. e.parts[kids[1]].at = pos /\ e.parts[kids[1]].before = Len(out)
      BY <1>7, <2>6 DEF From
    <3> QED
      BY <2>1, <2>6, <3>1, <3>2, <3>3 DEF FitsUnpack, OpenAt, IsA
  <2>8. FitsOne(e, "value", NoFormat, w, u)
    <3> DEFINE j == Tail(kids)[1]
    <3>1. Len(Tail(kids)) = 1 /\ 1 \in 1..Len(Tail(kids)) /\ 1 + 1 = 2 /\ Tail(kids) # <<>>
      BY <2>5
    <3>2. j = kids[2] /\ 2 \in 1..Len(kids)
      BY <2>5, <2>6, <3>1
    <3>3. j \in 1..Len(e.parts) /\ e.parts[j].kind = "value" /\ e.parts[j].fmt = NoFormat
      BY <2>3, <2>6, <3>1, <3>2 DEF Plain, Run
    <3>4. From(e, j, w) /\ To(e, j, u)
      BY <2>6, <3>1 DEF Run, From, To
    <3> HIDE DEF j
    <3> QED
      BY <2>6, <3>3, <3>4 DEF FitsOne, IsA
  <2>9. Fits(e, Unpack(key, NoFormat, pos), Onto(1), w) /\ Fits(e, Cell(NoFormat), w, u)
    BY <2>7, <2>8, UnpackFits, CellFits
  <2> QED
    BY <1>1, <1>2, <1>3, <1>8, <1>10, <2>1, <2>2, <2>6, <2>9, PassThree DEF Idle
<1>14. CASE ~(pos <= Len(Content))
  <2>1. key = Nil
    BY <1>7, <1>14, AheadIs
  <2>2. Read(1)
    BY <1>1, <2>1, NilType
  <2>3. err' = TRUE
    BY <1>14, <2>2, ReadTag
  <2> QED
    BY <1>1, <1>9, <1>14, <2>3, StartFails
<1> QED
  BY <1>12, <1>13, <1>14

LEMMA UnknownFormatFollow == ASSUME NEW e, Ready(e), Aligned(e), UnknownFormat PROVE Follows(e)'
<1>1. Doing("special") /\ Top.fmt = "?" /\ Then(<<>>) /\ Idle /\ UNCHANGED reader
  BY DEF UnknownFormat, Special, Idle
<1>2. todo # <<>> /\ Top.do = "special"
  BY <1>1, TopReady
<1>3. PICK m, t : Bound(e, m, t) /\ Fits(e, Top, Here, m)
  BY <1>2, TopFits
<1>4. FitsSpecial(e, Top, Here, m)
  BY <1>2, <1>3 DEF Fits
<1>5. "?" \notin GivenOnes /\ "?" \notin SelfReading
  BY NotAFormat, NamedFormats, Zenon DEF GivenOnes, SelfReading
<1>6. Onto(0) = m
  BY <1>1, <1>4, <1>5, HereTypes DEF FitsSpecial
<1>7. err' = FALSE /\ pos' = pos + 0
  BY <1>1, HereTypes DEF reader, Ready
<1> QED
  BY <1>1, <1>2, <1>3, <1>6, <1>7, PassNone DEF Idle

-----------------------------------------------------------------------------
(* The head of an answer. *)

\* The only part that begins at the first byte is the answer, or is in it: what
\* process_show_cmds pushes leads through all of it.
LEMMA ShowCmdsTop ==
  ASSUME NEW e, Ready(e), Aligned(e), Doing("answer")
  PROVE  todo = <<Task("answer", 1)>> /\ pos = 1 /\ Len(out) = 0 /\ ~Unbroken
<1>1. todo # <<>> /\ Top.do = "answer" /\ Top = Head(todo)
  BY TopReady DEF Top
<1>2. PICK t \in Place : Leads(e, todo, Here, t)
  BY DEF Aligned
<1>3. todo \in Seq(Frame) /\ Head(todo) = todo[1]
  <2>1. Stacked(todo)
    BY DEF Ready, DisplayInv
  <2> QED
    BY <1>1, <2>1, TopFrame DEF Stacked
<1>4. ~Chain(e, todo, Here, t)
  <2> SUFFICES ASSUME Chain(e, todo, Here, t) PROVE FALSE
    OBVIOUS
  <2>1. PICK m \in Place : Fits(e, Head(todo), Here, m)
    BY <1>1, <1>3, ChainTake
  <2> QED
    BY <1>1, <2>1 DEF Fits
<1>5. ~NamesToRows(e, todo, Here, t)
  BY <1>1, <1>3 DEF NamesToRows
<1>6. Head(todo).do # "newline"
  BY <1>1
<1>7. todo = <<Task("answer", 1)>> /\ Here.at = 1 /\ Here.cells = 0 /\ ~Here.fresh
  BY <1>2, <1>4, <1>5, <1>6 DEF Leads
<1> QED
  BY <1>7, HereTypes

\* The part that is the answer.
LEMMA AnswerPart ==
  ASSUME NEW e \in Encodings
  PROVE  \E k \in 1..Len(e.parts) : e.parts[k].kind = "answer" /\ IsAnswer(e, e.parts[k])
<1>1. PICK k \in 1..Len(e.parts) : e.parts[k].kind = "answer"
  BY EncodingAssumption DEF WellEncoded
<1>2. IsAnswer(e, e.parts[k])
  BY <1>1, PartType DEF IsPart
<1> QED
  BY <1>1, <1>2

\* The array and the number that an answer begins with.
LEMMA ExpectHead ==
  ASSUME NEW e, Ready(e), pos = 1, Expect(<<"array", "uint">>),
         e.bytes[1].t = "array", e.bytes[2].t = "uint"
  PROVE  \/ /\ err' = FALSE /\ pos' = pos + 2
            /\ Expected(<<"array", "uint">>, 1) = e.bytes[1].v
            /\ Expected(<<"array", "uint">>, 2) = e.bytes[2].v
         \/ err' = TRUE /\ pos + 2 - 1 > Len(Content)
<1> DEFINE types == <<"array", "uint">>
<1>1. Len(types) = 2 /\ types[1] = "array" /\ types[2] = "uint"
  OBVIOUS
<1>2. Len(Content) \in Nat
  BY ReadyTypes
<1>3. /\ 1 <= Len(Content) => Ahead(0) = e.bytes[1]
      /\ 2 <= Len(Content) => Ahead(1) = e.bytes[2]
      /\ ~(2 <= Len(Content)) => Ahead(1) = Nil
  <2>1. /\ pos + 0 <= Len(Content) => Ahead(0) = e.bytes[pos + 0]
        /\ pos + 1 <= Len(Content) => Ahead(1) = e.bytes[pos + 1]
        /\ ~(pos + 1 <= Len(Content)) => Ahead(1) = Nil
    BY AheadIs, 0 \in Nat, 1 \in Nat
  <2> QED
    BY <2>1
<1> HIDE DEF types
<1>4. err' = ~Agree(types, 2) /\ pos' = IF err' THEN pos ELSE pos + 2
  BY <1>1 DEF Expect, Ready, types
<1>5. Agree(types, 2) <=> Ahead(0).t = "array" /\ Ahead(1).t = "uint"
  <2>1. \A j \in 1..2 : j = 1 \/ j = 2
    OBVIOUS
  <2>2. 1 \in 1..2 /\ 2 \in 1..2 /\ 1 - 1 = 0 /\ 2 - 1 = 1
    OBVIOUS
  <2> QED
    BY <1>1, <2>1, <2>2 DEF Agree
<1>6. CASE 2 <= Len(Content)
  <2>1. Ahead(0) = e.bytes[1] /\ Ahead(1) = e.bytes[2]
    BY <1>2, <1>3, <1>6
  <2>2. Agree(types, 2)
    BY <1>5, <2>1
  <2>3. Agree(types, 1)
    <3>1. \A j \in 1..1 : j \in 1..2
      OBVIOUS
    <3> QED
      BY <2>2, <3>1 DEF Agree
  <2>4. 2 - 1 = 1 /\ 1 - 1 = 0
    OBVIOUS
  <2> QED
    <3>1. Expected(types, 1) = e.bytes[1].v /\ Expected(types, 2) = e.bytes[2].v
      BY <2>1, <2>2, <2>3, <2>4 DEF Expected
    <3>2. err' = FALSE /\ pos' = pos + 2
      BY <1>4, <2>2
    <3> QED
      BY <3>1, <3>2 DEF types
<1>7. CASE ~(2 <= Len(Content))
  <2>1. ~Agree(types, 2)
    BY <1>3, <1>5, <1>7, NilType
  <2>2. err' = TRUE
    BY <1>4, <2>1
  <2>3. 1 + 2 - 1 > Len(Content)
    BY <1>2, <1>7
  <2>4. pos + 2 - 1 > Len(Content)
    BY <2>3
  <2> QED
    BY <2>2, <2>4
<1> QED
  BY <1>6, <1>7

LEMMA ProcessShowCmdsFollow ==
  ASSUME NEW e, Ready(e), Aligned(e), ProcessShowCmds
  PROVE  Follows(e)'
<1> DEFINE n == Expected(<<"array", "uint">>, 1)
           type == Expected(<<"array", "uint">>, 2)
<1>1. Doing("answer") /\ Expect(<<"array", "uint">>) /\ Idle /\ Then(Layout(type, n))
  BY DEF ProcessShowCmds, Idle
<1>2. todo # <<>> /\ todo = <<Task("answer", 1)>> /\ pos = 1 /\ Len(out) = 0 /\ ~Unbroken
  BY <1>1, ShowCmdsTop, TopReady
<1>3. e \in Encodings /\ Here \in Place /\ Len(Content) \in Nat /\ pos \in Nat
  BY HereTypes, ReadyTypes
<1>4. PICK k \in 1..Len(e.parts) : e.parts[k].kind = "answer" /\ IsAnswer(e, e.parts[k])
  BY <1>3, AnswerPart
<1>5. /\ e.parts[k].at = 1 /\ e.parts[k].end = Len(e.bytes) + 1 /\ e.parts[k].before = 0
      /\ e.parts[k].upto = Len(e.meant) /\ e.bytes[1].t = "array" /\ e.bytes[2].t = "uint"
      /\ Filled(e, e.parts[k], 2)
  BY <1>4 DEF IsAnswer
<1> HIDE DEF n, type
<1>6. CASE err' = FALSE /\ pos' = pos + 2 /\ n = e.bytes[1].v /\ type = e.bytes[2].v
  <2> DEFINE ks == e.parts[k].kids
  <2>2. /\ Onto(2) \in Place /\ Onto(2).cells = 0 /\ Onto(2).fresh = FALSE /\ Onto(2).at = 3
        /\ Onto(2).at = e.parts[k].at + 2 /\ Onto(2).cells = e.parts[k].before
    <3>1. Onto(2) \in Place /\ Onto(2).at = pos + 2 /\ Onto(2).cells = Len(out) /\ Onto(2).fresh = Unbroken
      BY OntoType, 2 \in Nat
    <3>2. Onto(2).at = 1 + 2 /\ Unbroken = FALSE
      BY <1>2, <3>1
    <3> HIDE DEF Onto
    <3> QED
      BY <1>2, <1>5, <3>1, <3>2
  <2>1. ASSUME NEW fresh \in BOOLEAN
        PROVE  /\ Bound(e, After(e, k, fresh), After(e, k, fresh)) /\ To(e, k, After(e, k, fresh))
               /\ After(e, k, fresh).fresh = fresh
               /\ Run(e, ks, Onto(2), After(e, k, fresh)) /\ ks \in Seq(Nat)
    <3> DEFINE t == After(e, k, fresh)
    <3>1. /\ t \in Place /\ To(e, k, t) /\ t.at = Len(e.bytes) + 1 /\ t.cells = Len(e.meant)
          /\ t.fresh = fresh
      BY <1>3, <1>5, AfterType
    <3> HIDE DEF t
    <3>2. Tail(todo) = <<>>
      BY <1>2
    <3>3. Bound(e, t, t)
      BY <3>1, <3>2, ChainNone DEF Bound, Finished
    <3>4. Run(e, ks, Onto(2), t) /\ ks \in Seq(Nat)
      BY <1>3, <1>5, <2>2, <3>1, FilledRun, PartType
    <3> QED
      BY <3>1, <3>3, <3>4 DEF t
  <2>3. ASSUME NEW do, NEW kind, Layout(type, n) = <<Task(do, n - 1)>>, Len(ks) = n - 1,
               All(e, ks, kind),
               \/ do = "elements" /\ kind = "element"
               \/ do = "groups" /\ kind = "group"
               \/ do = "blocks" /\ kind = "block"
        PROVE  Follows(e)'
    <3> DEFINE f == Task(do, n - 1)
               fresh == n - 1 > 0
               t == After(e, k, fresh)
    <3>1. f.do = do /\ f.n = n - 1 /\ fresh \in BOOLEAN
      BY TaskFields
    <3>2. Then(<<f>>)
      BY <1>1, <2>3
    <3>3. Bound(e, t, t) /\ t.fresh = fresh /\ Run(e, ks, Onto(2), t) /\ ks \in Seq(Nat)
      BY <2>1, <3>1
    <3>4. LinesEnd(n - 1, Onto(2), t)
      BY <2>2, <3>3 DEF LinesEnd, Begun
    <3> HIDE DEF f, t, ks
    <3>5. FitsLoop(e, kind, n - 1, Onto(2), t)
      BY <2>3, <3>3, <3>4 DEF FitsLoop, Several
    <3>6. Fits(e, f, Onto(2), t)
      BY <2>3, <3>1, <3>5, LoopFits
    <3> QED
      BY <1>1, <1>2, <1>6, <3>2, <3>3, <3>6, PassOne DEF Idle
  <2>4. ASSUME NEW style, Layout(type, n) = <<List(style, n - 2)>>, Len(ks) = 1, n >= 2, n \in Nat,
               Kid(e, e.parts[k], 1).kind = "list", HasRows(e, Kid(e, e.parts[k], 1), n - 2),
               Kid(e, e.parts[k], 1).style = style
        PROVE  Follows(e)'
    <3> DEFINE fresh == style = "table" \/ n - 2 > 0
               t == After(e, k, fresh)
    <3>1. fresh \in BOOLEAN /\ Then(<<List(style, n - 2)>>)
      BY <1>1, <2>4
    <3>2. Bound(e, t, t) /\ t.fresh = fresh /\ To(e, k, t)
      BY <2>1, <3>1
    <3>3. PICK j \in 1..Len(e.parts) :
            /\ Kid(e, e.parts[k], 1) = e.parts[j]
            /\ e.parts[j].at = e.parts[k].at + 2 /\ e.parts[j].before = e.parts[k].before
            /\ e.parts[j].end = e.parts[k].end /\ e.parts[j].upto = e.parts[k].upto
      BY <1>3, <1>5, <2>4, OnlyKid, SMTT(30)
    <3>4. style = "sparse" => LinesEnd(n - 2, Onto(2), t)
      BY <2>2, <3>2 DEF LinesEnd, Begun
    <3>5. style = "table" => t.fresh
      BY <3>2
    <3> HIDE DEF t
    <3>6. IsA(e, j, "list") /\ From(e, j, Onto(2)) /\ To(e, j, t)
      BY <1>5, <2>2, <2>4, <3>2, <3>3 DEF IsA, From, To
    <3>7. Fits(e, List(style, n - 2), Onto(2), t)
      BY <2>4, <3>3, <3>4, <3>5, <3>6, ListFits
    <3> QED
      BY <1>1, <1>2, <1>6, <3>1, <3>2, <3>7, PassOne DEF Idle
  <2>5. \/ type \in {HeadType.one, HeadType.two} /\ Len(ks) = n - 1 /\ All(e, ks, "element")
        \/ type = HeadType.groups /\ Len(ks) = n - 1 /\ All(e, ks, "group")
        \/ type = HeadType.blocks /\ Len(ks) = n - 1 /\ All(e, ks, "block")
        \/ /\ type \in {HeadType.table, HeadType.sparse} /\ n >= 2
           /\ Len(ks) = 1 /\ Kid(e, e.parts[k], 1).kind = "list"
           /\ HasRows(e, Kid(e, e.parts[k], 1), n - 2)
           /\ Kid(e, e.parts[k], 1).style = IF type = HeadType.table THEN "table" ELSE "sparse"
    BY <1>4, <1>6 DEF IsAnswer
  <2>6. n \in Nat
    <3>1. e.bytes \in Seq(Tag) /\ Len(e.bytes) \in Nat /\ e.parts[k].at < e.parts[k].end
      BY <1>3, EncodedType, PartType
    <3>2. 1 \in 1..Len(e.bytes)
      BY <1>5, <3>1
    <3>3. e.bytes[1] \in Tag
      BY <3>1, <3>2
    <3> QED
      BY <1>6, <3>3 DEF Tag
  <2> HIDE DEF ks
  <2>7. CASE type \in {HeadType.one, HeadType.two} /\ Len(ks) = n - 1 /\ All(e, ks, "element")
    <3>1. Layout(type, n) = <<Task("elements", n - 1)>>
      BY <2>7 DEF Layout, HeadType
    <3> QED
      BY <2>3, <2>7, <3>1
  <2>8. CASE type = HeadType.groups /\ Len(ks) = n - 1 /\ All(e, ks, "group")
    <3>1. Layout(type, n) = <<Task("groups", n - 1)>>
      BY <2>8 DEF Layout, HeadType
    <3> QED
      BY <2>3, <2>8, <3>1
  <2>9. CASE type = HeadType.blocks /\ Len(ks) = n - 1 /\ All(e, ks, "block")
    <3>1. Layout(type, n) = <<Task("blocks", n - 1)>>
      BY <2>9 DEF Layout, HeadType
    <3> QED
      BY <2>3, <2>9, <3>1
  <2>10. CASE /\ type \in {HeadType.table, HeadType.sparse} /\ n >= 2
              /\ Len(ks) = 1 /\ Kid(e, e.parts[k], 1).kind = "list"
              /\ HasRows(e, Kid(e, e.parts[k], 1), n - 2)
              /\ Kid(e, e.parts[k], 1).style = IF type = HeadType.table THEN "table" ELSE "sparse"
    <3>1. HeadType.table = 3 /\ HeadType.sparse = 4
      BY DEF HeadType
    <3>2. CASE type = HeadType.table
      <4>1. Layout(type, n) = <<List("table", n - 2)>>
        BY <3>2 DEF Layout, HeadType
      <4> QED
        BY <2>4, <2>6, <2>10, <3>2, <4>1
    <3>3. CASE type = HeadType.sparse
      <4>1. Layout(type, n) = <<List("sparse", n - 2)>>
        BY <3>3 DEF Layout, HeadType
      <4> QED
        BY <2>4, <2>6, <2>10, <3>1, <3>3, <4>1
    <3> QED
      BY <2>10, <3>2, <3>3
  <2> QED
    BY <2>5, <2>7, <2>8, <2>9, <2>10
<1>7. CASE err' = TRUE /\ pos + 2 - 1 > Len(Content)
  <2>1. Reach(e, e.parts[k].at + 2, e.parts[k].before)
    BY <1>3, <1>5, ReachFilled
  <2>2. Reach(e, pos + 2, Len(out)) /\ (pos + 2) - 1 > Len(Content)
    BY <1>2, <1>5, <1>7, <2>1
  <2> QED
    BY <1>1, <1>7, <2>2, Failing DEF Idle, shown
<1> QED
  BY <1>1, <1>2, <1>5, <1>6, <1>7, ExpectHead DEF n, type

-----------------------------------------------------------------------------
(* Names and the rows below them. *)

\* A run is cut in two behind c of its parts.
Pieces(ks, c, left, right) ==
  /\ Len(left) = c /\ Len(right) = Len(ks) - c
  /\ \A j \in 1..c : left[j] = ks[j]
  /\ \A j \in 1..Len(ks) - c : right[j] = ks[c + j]
\* The place where it is cut.
Joint(e, ks, c, s, m) ==
  /\ c = 0 => m.at = s.at /\ m.cells = s.cells
  /\ c # 0 => m.at = e.parts[ks[c]].end /\ m.cells = e.parts[ks[c]].upto
LEMMA RunCut ==
  ASSUME NEW e, NEW ks \in Seq(Nat), NEW s, NEW t, Run(e, ks, s, t), NEW c \in 0..Len(ks),
         NEW left \in Seq(Nat), NEW right \in Seq(Nat), Pieces(ks, c, left, right),
         NEW m, Joint(e, ks, c, s, m)
  PROVE  Run(e, left, s, m) /\ Run(e, right, m, t)
<1> SUFFICES ASSUME Len(left) = c, Len(right) = Len(ks) - c,
                    \A j \in 1..c : left[j] = ks[j],
                    \A j \in 1..Len(ks) - c : right[j] = ks[c + j],
                    c = 0 => m.at = s.at /\ m.cells = s.cells,
                    c # 0 => m.at = e.parts[ks[c]].end /\ m.cells = e.parts[ks[c]].upto
             PROVE  Run(e, left, s, m) /\ Run(e, right, m, t)
  BY DEF Pieces, Joint
<1>1. Len(ks) \in Nat /\ c \in Nat /\ c <= Len(ks)
  OBVIOUS
<1>2. \A k \in 1..Len(ks) : ks[k] \in 1..Len(e.parts)
  BY DEF Run
<1>3. ks = <<>> => s.at = t.at /\ s.cells = t.cells
  BY DEF Run
<1>4. ks # <<>> => /\ e.parts[ks[1]].at = s.at /\ e.parts[ks[1]].before = s.cells
                   /\ e.parts[ks[Len(ks)]].end = t.at /\ e.parts[ks[Len(ks)]].upto = t.cells
  BY DEF Run
<1>5. ASSUME NEW k \in 2..Len(ks)
      PROVE  /\ e.parts[ks[k]].at = e.parts[ks[k - 1]].end
             /\ e.parts[ks[k]].before = e.parts[ks[k - 1]].upto
  BY DEF Run
<1>6. ASSUME NEW k \in 1..Len(left) PROVE left[k] = ks[k] /\ k \in 1..Len(ks)
  <2>1. k \in 1..c /\ k \in 1..Len(ks)
    BY <1>1
  <2> QED
    BY <2>1
<1>7. ASSUME NEW k \in 1..Len(right) PROVE right[k] = ks[c + k] /\ c + k \in 1..Len(ks)
  <2>1. k \in 1..Len(ks) - c /\ c + k \in 1..Len(ks)
    BY <1>1
  <2> QED
    BY <2>1
<1>8. Run(e, left, s, m)
  <2>1. \A k \in 1..Len(left) : left[k] \in 1..Len(e.parts)
    BY <1>2, <1>6
  <2>2. left = <<>> => s.at = m.at /\ s.cells = m.cells
    BY <1>1
  <2>3. ASSUME left # <<>>
        PROVE  /\ e.parts[left[1]].at = s.at /\ e.parts[left[1]].before = s.cells
               /\ e.parts[left[Len(left)]].end = m.at /\ e.parts[left[Len(left)]].upto = m.cells
    <3>1. c # 0 /\ 1 \in 1..Len(left) /\ Len(left) \in 1..Len(left) /\ ks # <<>>
      BY <1>1, <2>3
    <3>2. left[1] = ks[1] /\ left[Len(left)] = ks[c]
      BY <1>6, <3>1
    <3> QED
      BY <1>4, <3>1, <3>2
  <2>4. ASSUME NEW k \in 2..Len(left)
        PROVE  /\ e.parts[left[k]].at = e.parts[left[k - 1]].end
               /\ e.parts[left[k]].before = e.parts[left[k - 1]].upto
    <3>1. k \in 1..Len(left) /\ k - 1 \in 1..Len(left) /\ k \in 2..Len(ks)
      <4> DEFINE l == Len(ks)
                 n == Len(left)
      <4>1. l \in Nat /\ n \in Nat /\ n <= l /\ k \in 2..n
        BY <1>1
      <4> HIDE DEF l, n
      <4>2. k \in 1..n /\ k - 1 \in 1..n /\ k \in 2..l
        BY <4>1
      <4> QED
        BY <4>2 DEF l, n
    <3>2. left[k] = ks[k] /\ left[k - 1] = ks[k - 1]
      BY <1>6, <3>1
    <3> QED
      BY <1>5, <3>1, <3>2
  <2> QED
    BY <2>1, <2>2, <2>3, <2>4 DEF Run
<1>9. Run(e, right, m, t)
  <2>1. \A k \in 1..Len(right) : right[k] \in 1..Len(e.parts)
    BY <1>2, <1>7
  <2>2. ASSUME right = <<>> PROVE m.at = t.at /\ m.cells = t.cells
    <3>1. Len(right) = 0
      BY <2>2
    <3>2. c = Len(ks)
      BY <1>1, <3>1
    <3>3. CASE c = 0
      <4>1. Len(ks) = 0
        BY <3>2, <3>3
      <4>2. ks = <<>>
        BY <4>1
      <4> QED
        BY <1>3, <3>3, <4>2
    <3>4. CASE c # 0
      <4>1. ks # <<>>
        BY <3>2, <3>4
      <4> QED
        BY <1>4, <3>2, <3>4, <4>1
    <3> QED
      BY <3>3, <3>4
  <2>3. ASSUME right # <<>>
        PROVE  /\ e.parts[right[1]].at = m.at /\ e.parts[right[1]].before = m.cells
               /\ e.parts[right[Len(right)]].end = t.at /\ e.parts[right[Len(right)]].upto = t.cells
    <3>1. Len(right) \in Nat \ {0}
      BY <2>3
    <3>2. 1 \in 1..Len(right) /\ Len(right) \in 1..Len(right)
      BY <3>1
    <3>3. c + Len(right) = Len(ks) /\ c + 1 \in 1..Len(ks)
      BY <1>1, <3>1
    <3>4. right[1] = ks[c + 1] /\ right[Len(right)] = ks[Len(ks)]
      BY <1>7, <3>2, <3>3
    <3>5. ks # <<>>
      BY <1>1, <3>3
    <3>6. e.parts[right[1]].at = m.at /\ e.parts[right[1]].before = m.cells
      <4>1. CASE c = 0
        BY <1>4, <3>4, <3>5, <4>1
      <4>2. CASE c # 0
        <5>1. c + 1 \in 2..Len(ks) /\ (c + 1) - 1 = c
          BY <1>1, <3>3, <4>2, SMTT(30)
        <5>2. /\ e.parts[ks[c + 1]].at = e.parts[ks[c]].end
              /\ e.parts[ks[c + 1]].before = e.parts[ks[c]].upto
          BY <1>5, <5>1
        <5> QED
          BY <3>4, <4>2, <5>2
      <4> QED
        BY <4>1, <4>2
    <3> QED
      BY <1>4, <3>4, <3>5, <3>6
  <2>4. ASSUME NEW k \in 2..Len(right)
        PROVE  /\ e.parts[right[k]].at = e.parts[right[k - 1]].end
               /\ e.parts[right[k]].before = e.parts[right[k - 1]].upto
    <3>1. /\ k \in 1..Len(right) /\ k - 1 \in 1..Len(right) /\ k \in Nat /\ k >= 2
          /\ c + (k - 1) = (c + k) - 1
      <4>1. Len(right) \in Nat /\ c \in Nat
        OBVIOUS
      <4> DEFINE n == Len(right)
                 d == c
      <4>2. n \in Nat /\ d \in Nat /\ k \in 2..n
        BY <4>1
      <4> HIDE DEF n, d
      <4>3. k \in 1..n /\ k - 1 \in 1..n /\ k \in Nat /\ k >= 2 /\ d + (k - 1) = (d + k) - 1
        BY <4>2
      <4> QED
        BY <4>3 DEF n, d
    <3>2. right[k] = ks[c + k] /\ right[k - 1] = ks[(c + k) - 1] /\ c + k \in 1..Len(ks)
      BY <1>7, <3>1
    <3>3. c + k \in 2..Len(ks)
      BY <1>1, <3>1, <3>2
    <3> QED
      BY <1>5, <3>2, <3>3
  <2> QED
    BY <2>1, <2>2, <2>3, <2>4 DEF Run
<1> QED
  BY <1>8, <1>9

\* Parts without cells leave the number of cells as it was.
LEMMA RunQuiet ==
  ASSUME NEW e \in Encodings, NEW ks \in Seq(Nat), NEW s, NEW t, Run(e, ks, s, t),
         \A k \in 1..Len(ks) : NoCell(e.parts[ks[k]])
  PROVE  t.cells = s.cells
<1> DEFINE upto(k) == e.parts[ks[k]].upto
           T == {k \in 1..Len(ks) : ~(upto(k) = s.cells)}
<1>1. \A k \in 1..Len(ks) : upto(k) = e.parts[ks[k]].before
  BY DEF NoCell
<1>2. \A k \in 2..Len(ks) : e.parts[ks[k]].before = upto(k - 1)
  BY DEF Run
<1>3. Len(ks) \in Nat
  OBVIOUS
<1>4. CASE ks = <<>>
  BY <1>4 DEF Run
<1>5. CASE ks # <<>>
  <2>1. 1 \in 1..Len(ks) /\ Len(ks) \in 1..Len(ks)
    BY <1>3, <1>5
  <2>2. upto(Len(ks)) = t.cells /\ e.parts[ks[1]].before = s.cells
    BY <1>5 DEF Run
  <2> HIDE DEF upto
  <2>3. T = {}
    <3> SUFFICES ASSUME T # {} PROVE FALSE
      OBVIOUS
    <3>1. T \in SUBSET Nat
      BY <1>3
    <3>2. PICK k \in T : \A j \in T : k <= j
      <4> HIDE DEF T
      <4> QED
        BY <3>1, Least
    <3>3. k \in 1..Len(ks) /\ ~(upto(k) = s.cells) /\ k # 1
      BY <1>1, <2>1, <2>2, <3>2
    <3>4. k \in 2..Len(ks) /\ k - 1 \in 1..Len(ks) /\ ~(k <= k - 1)
      BY <1>3, <3>3
    <3>5. k - 1 \notin T
      BY <3>2, <3>4
    <3>6. upto(k - 1) = s.cells
      BY <3>4, <3>5, SMTT(30)
    <3> QED
      BY <1>1, <1>2, <3>3, <3>4, <3>6
  <2>4. upto(Len(ks)) = s.cells
    BY <2>1, <2>3, SMTT(30)
  <2> QED
    BY <2>2, <2>4
<1> QED
  BY <1>4, <1>5

LEMMA NamePart ==
  ASSUME NEW e \in Encodings, NEW k \in 1..Len(e.parts), e.parts[k].kind = "name"
  PROVE  IsName(e, e.parts[k]) /\ NoCell(e.parts[k]) /\ e.parts[k].fmt \in HeadFormats
<1>1. IsName(e, e.parts[k])
  BY PartType DEF IsPart
<1>2. e.parts[k] \in Part
  BY PartType
<1> QED
  BY <1>1, <1>2 DEF IsName, Part, HeadFormats

\* The formats of the names ks.
LEMMA FormattedType ==
  ASSUME NEW e \in Encodings, NEW ks \in Seq(Nat), All(e, ks, "name"), NEW s, NEW t, Run(e, ks, s, t)
  PROVE  /\ Formatted(e, ks) \in Seq(HeadFormats) /\ Len(Formatted(e, ks)) = Len(ks)
         /\ \A k \in 1..Len(ks) : Formatted(e, ks)[k] = e.parts[ks[k]].fmt
<1>1. \A k \in 1..Len(ks) : e.parts[ks[k]].fmt \in HeadFormats
  BY NamePart DEF All, Run
<1> QED
  BY <1>1 DEF Formatted

\* The format of the name that is read moves from the names to the heads.
LEMMA HeadMoves ==
  ASSUME NEW S, NEW heads \in Seq(S), NEW fmts \in Seq(S), NEW rest \in Seq(S), fmts # <<>>,
         Len(rest) = Len(fmts) - 1, \A j \in 1..Len(rest) : rest[j] = fmts[j + 1]
  PROVE  Append(heads, fmts[1]) \o rest = heads \o fmts
<1> DEFINE first == Append(heads, fmts[1])
<1>1. Len(heads) \in Nat /\ Len(fmts) \in Nat \ {0} /\ fmts[1] \in S
  OBVIOUS
<1>2. /\ first \in Seq(S) /\ Len(first) = Len(heads) + 1
      /\ \A j \in 1..Len(first) : first[j] = IF j <= Len(heads) THEN heads[j] ELSE fmts[1]
  BY <1>1
<1> HIDE DEF first
<1> DEFINE a == first \o rest
           b == heads \o fmts
<1>3. /\ a \in Seq(S) /\ Len(a) = Len(heads) + Len(fmts)
      /\ \A j \in 1..Len(a) : a[j] = IF j <= Len(first) THEN first[j] ELSE rest[j - Len(first)]
  BY <1>1, <1>2, ConcatProperties
<1>4. /\ b \in Seq(S) /\ Len(b) = Len(heads) + Len(fmts)
      /\ \A j \in 1..Len(b) : b[j] = IF j <= Len(heads) THEN heads[j] ELSE fmts[j - Len(heads)]
  BY <1>1, ConcatProperties
<1> HIDE DEF a, b
<1>5. ASSUME NEW j \in 1..Len(a) PROVE a[j] = b[j]
  <2>1. CASE j <= Len(heads)
    <3>1. j <= Len(first) /\ j \in 1..Len(first) /\ j \in 1..Len(b)
      BY <1>1, <1>2, <1>3, <1>4, <2>1
    <3> QED
      BY <1>2, <1>3, <1>4, <2>1, <3>1
  <2>2. CASE j = Len(heads) + 1
    <3>1. j - Len(heads) = 1 /\ ~(j <= Len(heads)) /\ j <= Len(first) /\ j \in 1..Len(first)
      BY <1>1, <1>2, <2>2
    <3> QED
      BY <1>2, <1>3, <1>4, <3>1
  <2>3. CASE j > Len(heads) + 1
    <3>1. /\ ~(j <= Len(heads)) /\ ~(j <= Len(first)) /\ j - Len(first) \in 1..Len(rest)
          /\ (j - Len(first)) + 1 = j - Len(heads)
      BY <1>1, <1>2, <1>3, <2>3
    <3> QED
      BY <1>3, <1>4, <3>1
  <2> QED
    BY <1>1, <1>3, <2>1, <2>2, <2>3
<1>6. a = b
  BY <1>3, <1>4, <1>5, SeqEqual
<1> QED
  BY <1>6 DEF a, b, first

\* While names are read, the rows are below.
LEMMA NamesTop ==
  ASSUME NEW e, Ready(e), Aligned(e), Doing("names")
  PROVE  /\ showing /\ todo # <<>> /\ todo \in Seq(Frame) /\ Top = todo[1] /\ Top \in Frame
         /\ \E t \in Place : Finished(e, t) /\ NamesToRows(e, todo, Here, t)
<1>1. showing /\ todo # <<>> /\ Top.do = "names" /\ Top \in Frame
  BY TopReady
<1>2. PICK t \in Place : Finished(e, t) /\ Leads(e, todo, Here, t)
  BY DEF Aligned
<1>3. todo \in Seq(Frame) /\ Head(todo) = todo[1]
  <2>1. Stacked(todo)
    BY DEF Ready, DisplayInv
  <2> QED
    BY <1>1, <2>1, TopFrame DEF Stacked
<1>4. ~Chain(e, todo, Here, t)
  <2> SUFFICES ASSUME Chain(e, todo, Here, t) PROVE FALSE
    OBVIOUS
  <2>1. PICK m \in Place : Fits(e, Head(todo), Here, m)
    BY <1>1, <1>3, ChainTake
  <2> QED
    BY <1>1, <2>1 DEF Fits, Top
<1>5. todo # <<Task("answer", 1)>>
  <2>1. Task("answer", 1).do = "answer" /\ Head(<<Task("answer", 1)>>) = Task("answer", 1)
    BY DEF Task
  <2> QED
    BY <1>1, <2>1 DEF Top
<1>6. NamesToRows(e, todo, Here, t)
  BY <1>1, <1>2, <1>4, <1>5 DEF Leads, Top
<1> QED
  BY <1>1, <1>2, <1>3, <1>6 DEF Top

\* What is below the two tasks on top.
LEMMA BelowTwo ==
  ASSUME NEW s \in Seq(Frame), Len(s) >= 2, NEW a \in Frame, NEW b \in Frame,
         NEW t, t = <<a, b>> \o SubSeq(s, 3, Len(s))
  PROVE  /\ t \in Seq(Frame) /\ Len(t) >= 2 /\ t[1] = a /\ t[2] = b
         /\ Tail(Tail(t)) = Tail(Tail(s))
<1>1. /\ t \in Seq(Frame) /\ Len(t) = Len(s) /\ t[1] = a /\ t[2] = b
      /\ \A k \in 1..Len(t) : k > 2 => t[k] = s[k]
  BY TwoReplaced
<1>2. ASSUME NEW q \in Seq(Frame), Len(q) >= 2
      PROVE  /\ Tail(Tail(q)) \in Seq(Frame) /\ Len(Tail(Tail(q))) = Len(q) - 2
             /\ \A k \in 1..Len(Tail(Tail(q))) : Tail(Tail(q))[k] = q[k + 2]
  <2> DEFINE r == Tail(q)
  <2>1. /\ q # <<>> /\ r \in Seq(Frame) /\ Len(r) = Len(q) - 1
        /\ \A k \in 1..Len(r) : r[k] = q[k + 1]
    BY <1>2
  <2> HIDE DEF r
  <2>2. r # <<>>
    BY <1>2, <2>1
  <2>3. /\ Tail(r) \in Seq(Frame) /\ Len(Tail(r)) = Len(r) - 1
        /\ \A k \in 1..Len(Tail(r)) : Tail(r)[k] = r[k + 1]
    BY <2>1, <2>2
  <2>4. Len(Tail(r)) = Len(q) - 2
    BY <1>2, <2>1, <2>3
  <2>5. ASSUME NEW k \in 1..Len(Tail(r)) PROVE Tail(r)[k] = q[k + 2]
    <3>1. k + 1 \in 1..Len(r) /\ (k + 1) + 1 = k + 2
      BY <2>1, <2>3
    <3> QED
      BY <2>1, <2>3, <3>1
  <2> QED
    BY <2>3, <2>4, <2>5 DEF r
<1>3. Len(s) \in Nat
  OBVIOUS
<1> DEFINE x == Tail(Tail(t))
           y == Tail(Tail(s))
<1>4. /\ x \in Seq(Frame) /\ Len(x) = Len(s) - 2 /\ \A k \in 1..Len(x) : x[k] = t[k + 2]
  BY <1>1, <1>2
<1>5. /\ y \in Seq(Frame) /\ Len(y) = Len(s) - 2 /\ \A k \in 1..Len(y) : y[k] = s[k + 2]
  BY <1>2
<1> HIDE DEF x, y
<1>6. ASSUME NEW k \in 1..Len(x) PROVE x[k] = y[k]
  <2>1. k + 2 \in 1..Len(t) /\ k + 2 > 2 /\ k \in 1..Len(y)
    BY <1>1, <1>3, <1>4, <1>5
  <2> QED
    BY <1>1, <1>4, <1>5, <2>1
<1>7. x = y
  BY <1>4, <1>5, <1>6, SeqEqual
<1> QED
  BY <1>1, <1>7 DEF x, y

LEMMA HeadedFields ==
  ASSUME NEW f \in Frame, NEW fmt \in HeadFormats
  PROVE  LET g == [f EXCEPT !.heads = Append(@, fmt)]
         IN  /\ g \in Frame /\ g.do = f.do /\ g.n = f.n /\ g.style = f.style
             /\ g.heads = Append(f.heads, fmt)
<1> DEFINE h == Append(f.heads, fmt)
           g == [f EXCEPT !.heads = h]
<1>1. h \in Seq(HeadFormats)
  <2>1. f.heads \in Seq(HeadFormats)
    BY DEF Frame
  <2> QED
    BY <2>1
<1> HIDE DEF h
<1>2. g \in Frame
  BY <1>1 DEF Frame
<1>3. g.do = f.do /\ g.n = f.n /\ g.style = f.style /\ g.heads = h
  BY <1>1 DEF Frame
<1> QED
  BY <1>2, <1>3, Zenon DEF h

LEMMA NameFollow == ASSUME NEW e, Ready(e), Aligned(e), Name PROVE Follows(e)'
<1> DEFINE length == Expected(<<"str">>, 1)
           fmt == FormatIn(Text(1, length))
           rows == [todo[2] EXCEPT !.heads = Append(@, fmt)]
<1>1. /\ Doing("names") /\ Top.n > 0 /\ Idle
      /\ err' = (Ahead(0).t # "str" \/ ~Readable(1 + length))
      /\ pos' = IF err' THEN pos ELSE pos + 1 + length
      /\ todo' = <<Fewer, rows>> \o SubSeq(todo, 3, Len(todo))
  BY Zenon DEF Name, Idle
<1>2. showing /\ todo # <<>> /\ Top.do = "names" /\ Top \in Frame /\ Top.n \in Int
  BY <1>1, TopReady
<1>3. PICK t \in Place : Finished(e, t) /\ NamesToRows(e, todo, Here, t)
  BY <1>1, NamesTop
<1>4. todo \in Seq(Frame) /\ Top = todo[1] /\ Len(todo) >= 2 /\ todo[2].do = "rows" /\ todo[2] \in Frame
  <2>1. todo \in Seq(Frame) /\ Top = todo[1]
    BY <1>1, NamesTop
  <2>2. Len(todo) >= 2 /\ todo[2].do = "rows"
    BY <1>3 DEF NamesToRows
  <2> QED
    BY <2>1, <2>2
<1>5. PICK ks \in Seq(Nat), m \in Place, r \in Place :
        /\ Len(ks) = Top.n /\ All(e, ks, "name") /\ Run(e, ks, Here, m) /\ m.fresh = Here.fresh
        /\ FitsRows(e, todo[2].style, todo[2].heads \o Formatted(e, ks), todo[2].n, m, r)
        /\ Chain(e, Tail(Tail(todo)), r, t)
  BY <1>3, <1>4 DEF NamesToRows
<1>6. /\ e \in Encodings /\ pos \in Nat /\ Len(Content) \in Nat
      /\ Here.at = pos /\ Here.cells = Len(out) /\ Here.fresh = Unbroken
  BY HereTypes, ReadyTypes
<1>7. ks # <<>> /\ 1 \in 1..Len(ks)
  BY <1>1, <1>2, <1>5
<1> DEFINE k == ks[1]
<1>8. k \in 1..Len(e.parts) /\ e.parts[k].kind = "name" /\ e.parts[k].at = pos /\ e.parts[k].before = Len(out)
  BY <1>5, <1>6, <1>7 DEF All, Run
<1> DEFINE v == e.bytes[pos].v
<1>9. /\ e.bytes[pos].t = "str" /\ e.parts[k].end = pos + (1 + v) /\ NoCell(e.parts[k])
      /\ e.parts[k].fmt = FormatIn(ValuesAt(e, pos + 1, v))
  BY <1>6, <1>8, NamePart DEF IsName, Sized
<1>10. CASE pos + v <= Len(Content) /\ pos <= Len(Content)
  <2>1. Ahead(0) = e.bytes[pos] /\ v \in Nat
    BY <1>6, <1>10, AheadIs
  <2>2. length = v
    <3>1. Agree(<<"str">>, 1)
      <4>1. \A j \in 1..1 : j = 1
        OBVIOUS
      <4> QED
        BY <1>9, <2>1, <4>1 DEF Agree
    <3> QED
      BY <2>1, <3>1 DEF Expected
  <2> HIDE DEF v, length
  <2>3. Readable(1 + length)
    BY <1>6, <1>10, <2>1, <2>2, ReadableIs
  <2>4. err' = FALSE /\ pos' = pos + 1 + v
    <3>1. Ahead(0).t = "str"
      BY <1>9, <2>1
    <3> QED
      BY <1>1, <2>2, <2>3, <3>1
  <2>5. fmt = e.parts[k].fmt
    <3>1. pos + 1 + v - 1 <= Len(Content)
      BY <1>6, <1>10, <2>1
    <3>2. Numbers(1, v) = ValuesAt(e, pos + 1, v)
      BY <2>1, <3>1, NumbersAre
    <3>3. Text(1, length) = ValuesAt(e, pos + 1, v)
      BY <2>2, <2>3, <3>2 DEF Text
    <3> QED
      BY <1>9, <3>3
  <2>6. fmt \in HeadFormats
    BY FormatType
  <2> HIDE DEF fmt, k
  <2> DEFINE u == Onto(1 + v)
  <2>7. 1 + v \in Nat /\ pos' = pos + (1 + v)
    BY <1>6, <2>1, <2>4
  <2>8. /\ u \in Place /\ u.at = pos + (1 + v) /\ u.cells = Len(out) /\ u.fresh = Unbroken /\ Here' = u
    BY <1>1, <2>7, OntoType, HereNext DEF Idle
  <2> HIDE DEF u
  <2>9. Run(e, Tail(ks), u, m) /\ Tail(ks) \in Seq(Nat) /\ Len(Tail(ks)) = Len(ks) - 1
        /\ \A j \in 1..Len(Tail(ks)) : Tail(ks)[j] = ks[j + 1] /\ j + 1 \in 1..Len(ks)
    <3>1. u.at = e.parts[ks[1]].end /\ u.cells = e.parts[ks[1]].upto
      BY <1>8, <1>9, <2>8 DEF NoCell, k
    <3> QED
      BY <1>5, <1>7, <3>1, RunSplit
  <2>10. All(e, Tail(ks), "name")
    BY <1>5, <2>9 DEF All
  <2>11. /\ rows \in Frame /\ rows.do = "rows" /\ rows.n = todo[2].n /\ rows.style = todo[2].style
         /\ rows.heads = Append(todo[2].heads, fmt) /\ todo[2].heads \in Seq(HeadFormats)
    <3>1. todo[2].heads \in Seq(HeadFormats)
      BY <1>4 DEF Frame
    <3> QED
      BY <1>4, <2>6, <3>1, HeadedFields
  <2> HIDE DEF rows
  <2>12. rows.heads \o Formatted(e, Tail(ks)) = todo[2].heads \o Formatted(e, ks)
    <3> DEFINE fmts == Formatted(e, ks)
               rest == Formatted(e, Tail(ks))
    <3>1. /\ fmts \in Seq(HeadFormats) /\ Len(fmts) = Len(ks)
          /\ \A j \in 1..Len(ks) : fmts[j] = e.parts[ks[j]].fmt
      BY <1>5, <1>6, FormattedType, SMTT(30)
    <3>2. /\ rest \in Seq(HeadFormats) /\ Len(rest) = Len(Tail(ks))
          /\ \A j \in 1..Len(Tail(ks)) : rest[j] = e.parts[Tail(ks)[j]].fmt
      BY <1>6, <2>9, <2>10, FormattedType
    <3> HIDE DEF fmts, rest
    <3>3. fmts # <<>> /\ fmts[1] = fmt
      BY <1>7, <2>5, <3>1 DEF k
    <3>4. Len(rest) = Len(fmts) - 1 /\ \A j \in 1..Len(rest) : rest[j] = fmts[j + 1]
      BY <2>9, <3>1, <3>2
    <3>5. Append(todo[2].heads, fmts[1]) \o rest = todo[2].heads \o fmts
      BY <2>11, <3>1, <3>2, <3>3, <3>4, HeadMoves
    <3> QED
      BY <2>11, <3>3, <3>5, SMTT(30) DEF fmts, rest
  <2>13. Fewer \in Frame /\ Fewer.do = "names" /\ Fewer.n = Top.n - 1
    BY <1>1, <1>2, TopSound, FewerFields DEF Ready
  <2>14. /\ Len(todo') >= 2 /\ todo'[1] = Fewer /\ todo'[2] = rows
         /\ Tail(Tail(todo')) = Tail(Tail(todo))
    <3>1. todo' = <<Fewer, rows>> \o SubSeq(todo, 3, Len(todo)) /\ rows \in Frame /\ Fewer \in Frame
      BY <1>1, <2>11, <2>13
    <3>2. todo \in Seq(Frame) /\ Len(todo) >= 2
      BY <1>4
    <3> HIDE DEF Fewer
    <3> QED
      BY <3>1, <3>2, BelowTwo
  <2>15. NamesToRows(e, todo', u, t)
    <3>1. FitsRows(e, rows.style, rows.heads \o Formatted(e, Tail(ks)), rows.n, m, r)
      BY <1>5, <2>11, <2>12
    <3>2. m.fresh = u.fresh /\ Len(Tail(ks)) = Fewer.n
      BY <1>5, <1>6, <2>8, <2>9, <2>13
    <3> QED
      BY <1>5, <2>9, <2>10, <2>11, <2>13, <2>14, <3>1, <3>2 DEF NamesToRows
  <2>16. Leads(e, todo', Here', t)
    BY <2>8, <2>15 DEF Leads
  <2> QED
    BY <1>1, <1>3, <2>4, <2>16, Passing DEF Idle
<1>11. CASE ~(pos + v <= Len(Content) /\ pos <= Len(Content))
  <2>1. v \in Nat
    <3>1. e.parts[k].at < e.parts[k].end /\ e.parts[k].end <= Len(e.bytes) + 1
          /\ e.bytes \in Seq(Tag) /\ e.parts[k].end \in Nat /\ e.parts[k].at >= 1
      BY <1>6, <1>8, PartType, EncodedType
    <3>2. pos \in 1..Len(e.bytes)
      BY <1>6, <1>8, <3>1, SMTT(30)
    <3>3. e.bytes[pos] \in Tag
      BY <1>6, <3>2, ByteType
    <3> QED
      BY <3>3 DEF Tag
  <2>2. err' = TRUE
    <3>1. CASE pos <= Len(Content)
      <4>1. Ahead(0) = e.bytes[pos]
        BY <1>6, <3>1, AheadIs
      <4>2. length = v
        <5>1. Agree(<<"str">>, 1)
          <6>1. \A j \in 1..1 : j = 1
            OBVIOUS
          <6> QED
            BY <1>9, <4>1, <6>1 DEF Agree
        <5> QED
          BY <4>1, <5>1 DEF Expected
      <4> HIDE DEF v, length
      <4>3. ~Readable(1 + length)
        BY <1>6, <1>11, <2>1, <3>1, <4>2, ReadableIs
      <4> QED
        BY <1>1, <4>3
    <3>2. CASE ~(pos <= Len(Content))
      <4>1. Ahead(0) = Nil
        BY <1>6, <3>2, AheadIs
      <4>2. Ahead(0).t # "str"
        BY <4>1, NilType
      <4> HIDE DEF length
      <4> QED
        BY <1>1, <4>2
    <3> QED
      BY <3>1, <3>2
  <2>3. Reach(e, e.parts[k].end, Len(out))
    BY <1>6, <1>8, <1>9, ReachEnd
  <2> HIDE DEF v, k
  <2>4. e.parts[k].end - 1 > Len(Content)
    BY <1>6, <1>9, <1>11, <2>1
  <2> QED
    BY <1>1, <2>2, <2>3, <2>4, Failing DEF Idle, shown
<1> QED
  BY <1>10, <1>11

LEMMA StackTwo ==
  ASSUME NEW a \in Frame, NEW b \in Frame, NEW rest \in Seq(Frame),
         NEW s, s = <<a, b>> \o rest
  PROVE  s \in Seq(Frame) /\ Len(s) >= 2 /\ s[1] = a /\ s[2] = b /\ Tail(Tail(s)) = rest
<1> DEFINE tl == <<b>> \o rest
<1>1. <<b>> \in Seq(Frame) /\ <<a>> \in Seq(Frame) /\ tl \in Seq(Frame)
  OBVIOUS
<1>2. <<a, b>> = <<a>> \o <<b>>
  BY FirstOfTwo
<1>3. s = <<a>> \o tl
  BY <1>1, <1>2, ConcatAssociative
<1>4. Len(tl) >= 1 /\ tl[1] = b /\ Tail(tl) = rest
  OBVIOUS
<1> HIDE DEF tl
<1>5. /\ <<a>> \o tl \in Seq(Frame) /\ Len(<<a>> \o tl) >= 2 /\ (<<a>> \o tl)[1] = a
      /\ (<<a>> \o tl)[2] = b /\ Tail(<<a>> \o tl) = tl
  BY <1>1, <1>4
<1> QED
  BY <1>3, <1>4, <1>5

LEMMA StyledFields ==
  ASSUME NEW do, NEW n, NEW style
  PROVE  LET f == [Task(do, n) EXCEPT !.style = style]
         IN  f.do = do /\ f.n = n /\ f.style = style /\ f.heads = <<>>
BY SMTT(30) DEF Task

LEMMA ListNamesFollow == ASSUME NEW e, Ready(e), Aligned(e), ListNames PROVE Follows(e)'
<1> DEFINE c == Expected(<<"array">>, 1)
           names == [Task("names", c) EXCEPT !.style = Top.style]
           rows == [Task("rows", Top.n) EXCEPT !.style = Top.style]
           both == <<names, rows>> \o Tail(todo)
<1>1. /\ Doing("list") /\ Expect(<<"array">>) /\ Idle
      /\ Then((IF Top.style = "sparse" THEN <<>> ELSE <<NewLine>>) \o <<names, rows>>)
  BY DEF ListNames, Idle
<1>2. showing /\ todo # <<>> /\ Top.do = "list" /\ Top \in Frame /\ Top.n \in Int
      /\ Top.style \in {"", "table", "sparse"} /\ Tail(todo) \in Seq(Frame)
  BY <1>1, TopReady, RestType DEF Frame
<1>3. PICK m, t : Bound(e, m, t) /\ Fits(e, Top, Here, m)
  BY <1>2, TopFits
<1>4. /\ \E k \in 1..Len(e.parts) :
           /\ IsA(e, k, "list") /\ From(e, k, Here) /\ To(e, k, m)
           /\ e.parts[k].style = Top.style /\ HasRows(e, e.parts[k], Top.n)
      /\ Top.style = "table" => m.fresh
      /\ Top.style = "sparse" => LinesEnd(Top.n, Here, m)
  BY <1>2, <1>3 DEF Fits, FitsList
<1>5. PICK k \in 1..Len(e.parts) :
        /\ IsA(e, k, "list") /\ From(e, k, Here) /\ To(e, k, m)
        /\ e.parts[k].style = Top.style /\ HasRows(e, e.parts[k], Top.n)
  BY <1>4
<1>6. /\ e \in Encodings /\ pos \in Nat /\ Len(Content) \in Nat /\ Here \in Place
      /\ Here.at = pos /\ Here.cells = Len(out) /\ Here.fresh = Unbroken
      /\ Unbroken \in BOOLEAN /\ Len(out) \in Nat
      /\ m \in Place /\ t \in Place /\ Finished(e, t) /\ Chain(e, Tail(todo), m, t)
  BY <1>3, HereTypes, ReadyTypes DEF Bound
<1> DEFINE p == e.parts[k]
<1>7. p.at = pos /\ p.before = Len(out)
  BY <1>5, <1>6 DEF From
<1>8. IsList(e, p) /\ p.kids \in Seq(Nat)
  BY <1>5, <1>6, PartType, SMTT(30) DEF IsPart, IsA
<1> DEFINE ks == p.kids
           v == e.bytes[pos].v
<1>9. /\ e.bytes[pos].t = "array" /\ Filled(e, p, 1) /\ v <= Len(ks) /\ Len(ks) = v + Top.n
      /\ Top.style \in {"table", "sparse"}
      /\ \A j \in 1..v : e.parts[ks[j]].kind = "name"
      /\ \A j \in v + 1..Len(ks) :
           /\ e.parts[ks[j]].kind = "row" /\ e.parts[ks[j]].style = Top.style
           /\ e.parts[ks[j]].heads = [i \in 1..v |-> e.parts[ks[i]].fmt]
  BY <1>5, <1>7, <1>8 DEF IsList, HasRows, Columns, Kid
<1>10. CASE pos <= Len(Content) /\ err' = FALSE /\ pos' = pos + 1 /\ c = v /\ Ahead(0) = e.bytes[pos]
  <2>1. v \in Nat
    <3>1. Ahead(0).v \in Nat
      BY <1>6, <1>10, AheadIs, pos + 0 = pos
    <3> QED
      BY <1>10, <3>1
  <2> HIDE DEF c, v
  <2>2. ks \in Seq(Nat) /\ v \in 0..Len(ks) /\ Len(ks) \in Nat /\ Top.n = Len(ks) - v
    <3>1. ks \in Seq(Nat) /\ v <= Len(ks) /\ Len(ks) = v + Top.n
      BY <1>8, <1>9
    <3> HIDE DEF ks
    <3>2. Len(ks) \in Nat
      BY <3>1
    <3>3. v \in Nat /\ Top.n \in Int
      BY <1>2, <2>1
    <3> DEFINE l == Len(ks)
               n == Top.n
    <3>4. l \in Nat /\ v \in Nat /\ n \in Int /\ v <= l /\ l = v + n
      BY <3>1, <3>2, <3>3
    <3> HIDE DEF l, n
    <3>5. v \in 0..l /\ n = l - v
      BY <3>4
    <3>6. v \in 0..Len(ks) /\ Top.n = Len(ks) - v
      BY <3>5, Zenon DEF l, n
    <3> QED
      BY <3>1, <3>2, <3>6, Zenon
  <2>3. Run(e, ks, Onto(1), m)
    <3>1. Filled(e, e.parts[k], 1) /\ To(e, k, m)
      BY <1>5, <1>9
    <3>2. Onto(1).at = e.parts[k].at + 1 /\ Onto(1).cells = e.parts[k].before
      BY <1>3, <1>7, OntoType DEF Bound
    <3> QED
      BY <3>1, <3>2, FilledRun
  <2> HIDE DEF p, ks
  <2> DEFINE left == SubSeq(ks, 1, v)
             right == SubSeq(ks, v + 1, Len(ks))
  <2>4. left \in Seq(Nat) /\ Len(left) = v /\ \A j \in 1..v : left[j] = ks[j]
    <3>1. \A i \in 1..v : ks[i] \in Nat
      BY <2>2
    <3>2. /\ left \in Seq(Nat) /\ Len(left) = IF 1 <= v THEN v - 1 + 1 ELSE 0
          /\ \A i \in 1..v - 1 + 1 : left[i] = ks[1 + i - 1]
      BY <2>1, <3>1, SubSeqProperties, 1 \in Int, v \in Int
    <3> HIDE DEF left
    <3>3. Len(left) = v
      BY <2>1, <3>2
    <3>4. ASSUME NEW j \in 1..v PROVE left[j] = ks[j]
      <4>1. j \in 1..v - 1 + 1 /\ 1 + j - 1 = j
        BY <2>1
      <4> QED
        BY <3>2, <4>1
    <3> QED
      BY <3>2, <3>3, <3>4
  <2>5. right \in Seq(Nat) /\ Len(right) = Len(ks) - v /\ \A j \in 1..Len(ks) - v : right[j] = ks[v + j]
    <3>1. \A i \in v + 1..Len(ks) : ks[i] \in Nat
      BY <2>1, <2>2
    <3>2. /\ right \in Seq(Nat) /\ Len(right) = IF v + 1 <= Len(ks) THEN Len(ks) - (v + 1) + 1 ELSE 0
          /\ \A i \in 1..Len(ks) - (v + 1) + 1 : right[i] = ks[(v + 1) + i - 1]
      <4>1. v + 1 \in Int /\ Len(ks) \in Int
        BY <2>1, <2>2
      <4> QED
        BY <3>1, <4>1, SubSeqProperties
    <3> HIDE DEF right
    <3>3. Len(right) = Len(ks) - v
      BY <2>1, <2>2, <3>2
    <3>4. ASSUME NEW j \in 1..Len(ks) - v PROVE right[j] = ks[v + j]
      <4>1. j \in 1..Len(ks) - (v + 1) + 1 /\ (v + 1) + j - 1 = v + j
        BY <2>1, <2>2
      <4> QED
        BY <3>2, <4>1
    <3> QED
      BY <3>2, <3>3, <3>4
  <2> HIDE DEF left, right
  \* The line that the names are on.
  <2> DEFINE fresh == Unbroken \/ Top.style = "table"
             s == [at |-> pos + 1, cells |-> Len(out), fresh |-> fresh]
             q == IF v = 0 THEN [at |-> pos + 1, cells |-> Len(out)]
                  ELSE [at |-> e.parts[ks[v]].end, cells |-> e.parts[ks[v]].upto]
             u == [at |-> q.at, cells |-> Len(out), fresh |-> fresh]
  <2>6. /\ Onto(1).at = pos + 1 /\ Onto(1).cells = Len(out) /\ Onto(1).fresh = Unbroken
        /\ Onto(1) \in Place
    BY OntoType
  <2>7. s \in Place /\ s.at = pos + 1 /\ s.cells = Len(out) /\ s.fresh = fresh
    BY <1>6 DEF Place
  <2>8. q.at \in Nat /\ q.cells \in Nat
    <3>1. CASE v = 0
      BY <1>6, <3>1
    <3>2. CASE v # 0
      <4>1. v \in 1..Len(ks)
        BY <2>1, <2>2, <3>2
      <4>2. ks[v] \in 1..Len(e.parts)
        BY <2>3, <4>1 DEF Run
      <4> QED
        BY <1>6, <3>2, <4>2, PartType
    <3> QED
      BY <3>1, <3>2
  <2>9. Run(e, left, Onto(1), q) /\ Run(e, right, q, m)
    <3>1. v = 0 => q.at = Onto(1).at /\ q.cells = Onto(1).cells
      BY <2>6
    <3>2. v # 0 => q.at = e.parts[ks[v]].end /\ q.cells = e.parts[ks[v]].upto
      OBVIOUS
    <3> HIDE DEF q
    <3>3. /\ ks \in Seq(Nat) /\ v \in 0..Len(ks) /\ left \in Seq(Nat) /\ right \in Seq(Nat)
          /\ Len(left) = v /\ Len(right) = Len(ks) - v
      BY <2>2, <2>4, <2>5
    <3>4. \A j \in 1..v : left[j] = ks[j]
      BY <2>4
    <3>5. \A j \in 1..Len(ks) - v : right[j] = ks[v + j]
      BY <2>5
    <3>6. Pieces(ks, v, left, right)
      BY <3>3, <3>4, <3>5 DEF Pieces
    <3>7. Joint(e, ks, v, Onto(1), q)
      BY <3>1, <3>2 DEF Joint
    <3> QED
      BY <2>3, <3>3, <3>6, <3>7, RunCut
  <2> HIDE DEF q
  <2>10. All(e, left, "name")
    BY <1>9, <2>4 DEF All
  <2>11. q.cells = Len(out)
    <3>1. \A j \in 1..Len(left) : NoCell(e.parts[left[j]])
      BY <1>6, <2>9, <2>10, NamePart DEF All, Run
    <3>2. q.cells = Onto(1).cells
      BY <1>6, <2>4, <2>9, <3>1, RunQuiet, SMTT(30)
    <3> QED
      BY <2>6, <3>2
  <2>12. u \in Place /\ u.at = q.at /\ u.cells = q.cells /\ u.fresh = fresh
    BY <1>6, <2>8, <2>11 DEF Place
  <2> HIDE DEF s, u
  <2>13. Run(e, left, s, u) /\ Run(e, right, u, m)
    BY <2>6, <2>7, <2>9, <2>11, <2>12 DEF Run
  <2>14. LinesEnd(Top.n, u, m)
    <3>1. CASE Top.style = "table"
      <4>1. m.fresh = TRUE /\ u.fresh = TRUE
        BY <1>4, <1>6, <2>12, <3>1 DEF Place
      <4> QED
        BY <4>1 DEF LinesEnd, Begun
    <3>2. CASE Top.style = "sparse"
      <4>1. LinesEnd(Top.n, Here, m) /\ (u.fresh <=> Unbroken)
        BY <1>4, <2>12, <3>2
      <4> QED
        BY <1>6, <2>11, <2>12, <4>1 DEF LinesEnd, Begun
    <3> QED
      BY <1>9, <3>1, <3>2
  <2>15. /\ names.do = "names" /\ names.n = v /\ rows.do = "rows" /\ rows.n = Top.n
         /\ rows.style = Top.style /\ rows.heads = <<>>
    BY <1>10, StyledFields
  <2>16. names \in Frame /\ rows \in Frame
    <3>1. c \in Int /\ Top.style \in {"", "table", "sparse"}
      <4>1. v \in Int
        BY <2>1
      <4>2. c \in Int
        BY <1>10, <4>1
      <4> QED
        BY <1>2, <4>2
    <3>2. "names" \in Work /\ "rows" \in Work
      BY DEF Work
    <3>3. Task("names", c) \in Frame /\ Task("rows", Top.n) \in Frame
      BY <1>2, <3>1, <3>2, FrameType
    <3> QED
      BY <3>1, <3>3 DEF Frame
  <2> HIDE DEF names, rows
  <2>17. FitsRows(e, rows.style, rows.heads \o Formatted(e, left), rows.n, u, m)
    <3>1. Formatted(e, left) \in Seq(HeadFormats)
      BY <1>6, <2>4, <2>9, <2>10, FormattedType
    <3>2. rows.heads \o Formatted(e, left) = Formatted(e, left)
      BY <2>15, <3>1
    <3>3. Formatted(e, left) = [i \in 1..v |-> e.parts[ks[i]].fmt]
      BY <2>4 DEF Formatted
    <3>4. ASSUME NEW j \in 1..Len(right)
          PROVE  /\ e.parts[right[j]].kind = "row" /\ e.parts[right[j]].style = Top.style
                 /\ e.parts[right[j]].heads = Formatted(e, left)
      <4>1. v + j \in v + 1..Len(ks) /\ j \in 1..Len(ks) - v
        BY <2>1, <2>2, <2>5
      <4>2. right[j] = ks[v + j]
        BY <2>5, <4>1
      <4> QED
        BY <1>9, <3>3, <4>1, <4>2
    <3>5. Len(right) = Top.n
      BY <2>2, <2>5
    <3>6. FitsRows(e, Top.style, Formatted(e, left), Top.n, u, m)
      BY <1>9, <2>5, <2>13, <2>14, <3>4, <3>5 DEF FitsRows, All
    <3> QED
      BY <2>15, <3>2, <3>6
  <2>18. both \in Seq(Frame) /\ Len(both) >= 2 /\ both[1] = names /\ both[2] = rows
         /\ Tail(Tail(both)) = Tail(todo)
    <3>1. both = <<names, rows>> \o Tail(todo)
      OBVIOUS
    <3> HIDE DEF both
    <3>2. names \in Frame /\ rows \in Frame /\ Tail(todo) \in Seq(Frame)
      BY <1>2, <2>16
    <3> DEFINE rest == Tail(todo)
    <3>3. both = <<names, rows>> \o rest /\ rest \in Seq(Frame)
      BY <3>1, <3>2
    <3> HIDE DEF rest
    <3>4. /\ both \in Seq(Frame) /\ Len(both) >= 2 /\ both[1] = names /\ both[2] = rows
          /\ Tail(Tail(both)) = rest
      BY <3>2, <3>3, StackTwo, SMTT(30)
    <3> QED
      BY <3>4 DEF rest
  <2> HIDE DEF both
  <2>19. NamesToRows(e, both, s, t)
    <3>1. left \in Seq(Nat) /\ u \in Place /\ m \in Place
      BY <1>6, <2>4, <2>12
    <3>2. Len(left) = both[1].n /\ u.fresh = s.fresh
      BY <2>4, <2>7, <2>12, <2>15, <2>18
    <3>3. FitsRows(e, both[2].style, both[2].heads \o Formatted(e, left), both[2].n, u, m)
      BY <2>17, <2>18
    <3>4. Chain(e, Tail(Tail(both)), m, t)
      BY <1>6, <2>18
    <3> QED
      BY <2>10, <2>13, <2>15, <2>18, <3>1, <3>2, <3>3, <3>4 DEF NamesToRows
  <2>20. Here' = Onto(1)
    BY <1>1, <1>10, HereNext DEF Idle
  <2>21. Leads(e, todo', Here', t)
    <3>1. CASE Top.style = "sparse"
      <4>1. s = Onto(1)
        <5>1. fresh = Unbroken
          BY <1>6, <3>1
        <5> QED
          BY <2>6, <2>7, <5>1, SamePlace
      <4>2. todo' = (<<>> \o <<names, rows>>) \o Tail(todo)
        BY <1>1, <3>1 DEF Then
      <4>3. <<>> \o <<names, rows>> = <<names, rows>>
        BY <2>16
      <4>4. todo' = both
        BY <4>2, <4>3 DEF both
      <4> QED
        BY <2>19, <2>20, <4>1, <4>4 DEF Leads
    <3>2. CASE Top.style = "table"
      <4>1. todo' = (<<NewLine>> \o <<names, rows>>) \o Tail(todo)
        BY <1>1, <3>2 DEF Then
      <4>2. NewLine \in Frame /\ NewLine.do = "newline"
        BY FrameType DEF NewLine, Work
      <4>3. <<names, rows>> \in Seq(Frame)
        BY <2>16
      <4>4. (<<NewLine>> \o <<names, rows>>) \o Tail(todo) = <<NewLine>> \o both
        <5> DEFINE pair == <<names, rows>>
                   rest == Tail(todo)
        <5>1. pair \in Seq(Frame) /\ rest \in Seq(Frame) /\ NewLine \in Frame
          BY <1>2, <4>2, <4>3
        <5>2. both = pair \o rest
          BY DEF both
        <5> HIDE DEF pair, rest
        <5>3. (<<NewLine>> \o pair) \o rest = <<NewLine>> \o (pair \o rest)
          BY <5>1, ConsRest
        <5> QED
          BY <5>2, <5>3 DEF pair, rest
      <4>5. todo' = <<NewLine>> \o both
        BY <4>1, <4>4
      <4>6. Head(todo') = NewLine /\ Tail(todo') = both /\ todo' # <<>>
        BY <2>18, <4>2, <4>5
      <4>7. [Onto(1) EXCEPT !.fresh = TRUE] = s
        <5> DEFINE w == [Onto(1) EXCEPT !.fresh = TRUE]
        <5>1. w \in Place /\ w.at = pos + 1 /\ w.cells = Len(out) /\ w.fresh = TRUE
          BY <2>6 DEF Place
        <5>2. s.fresh = TRUE
          BY <2>7, <3>2
        <5> HIDE DEF w
        <5>3. w = s
          BY <2>7, <5>1, <5>2, SamePlace
        <5> QED
          BY <5>3 DEF w
      <4> QED
        BY <2>19, <2>20, <4>2, <4>6, <4>7 DEF Leads
    <3> QED
      BY <1>9, <3>1, <3>2
  <2> QED
    BY <1>1, <1>6, <1>10, <2>21, Passing DEF Idle
<1>11. CASE ~(pos <= Len(Content)) /\ err' = TRUE
  BY <1>1, <1>5, <1>7, <1>11, StartFails
<1> QED
  BY <1>1, <1>9, <1>10, <1>11, ExpectTag

-----------------------------------------------------------------------------
(* Formats. *)

\* The part that a format reads for itself.
LEMMA FormatPart ==
  ASSUME NEW e, Ready(e), Aligned(e), Doing("special"), Top.fmt \in SelfReading
  PROVE  \E m, t : \E k \in 1..Len(e.parts) :
           /\ Bound(e, m, t) /\ IsSpecial(e, e.parts[k]) /\ e.parts[k].kind = "special"
           /\ e.parts[k].fmt = Top.fmt /\ e.parts[k].at = pos /\ e.parts[k].before = Len(out)
           /\ To(e, k, m) /\ Stretch(e, Here, m)
<1>1. showing /\ todo # <<>> /\ Top.do = "special"
  BY TopReady
<1>2. PICK m, t : Bound(e, m, t) /\ Fits(e, Top, Here, m)
  BY <1>1, TopFits
<1>3. FitsSpecial(e, Top, Here, m)
  BY <1>1, <1>2 DEF Fits
<1>4. Top.fmt \notin GivenOnes /\ Top.fmt # "?"
  <2>1. "?" \notin Formats
    BY NotAFormat
  <2> QED
    BY <2>1, Zenon DEF SelfReading
<1>5. FitsOne(e, "special", Top.fmt, Here, m)
  BY <1>3, <1>4 DEF FitsSpecial
<1>6. PICK k \in 1..Len(e.parts) :
        IsA(e, k, "special") /\ e.parts[k].fmt = Top.fmt /\ From(e, k, Here) /\ To(e, k, m)
  BY <1>5 DEF FitsOne
<1>7. Here.at = pos /\ Here.cells = Len(out) /\ e \in Encodings
  BY HereTypes
<1>8. IsSpecial(e, e.parts[k])
  BY <1>6, <1>7, PartType DEF IsPart, IsA
<1>9. Stretch(e, Here, m)
  BY <1>5 DEF FitsOne
<1> QED
  BY <1>2, <1>6, <1>7, <1>8, <1>9 DEF From, IsA

\* The value whose number a format was given.
LEMMA GivenPart ==
  ASSUME NEW e, Ready(e), Aligned(e), Doing("special"), Top.fmt \in GivenOnes
  PROVE  \E m, t : \E k \in 1..Len(e.parts) :
           /\ Bound(e, m, t) /\ GivenCell(e, e.parts[k], Top.tag.v)
           /\ e.parts[k].fmt = Top.fmt /\ e.parts[k].at = Top.at /\ e.parts[k].end = pos
           /\ e.parts[k].before = Len(out) /\ To(e, k, m) /\ Stretch(e, Here, m)
<1>1. showing /\ todo # <<>> /\ Top.do = "special" /\ Top.at \in Nat
  BY TopReady
<1>2. PICK m, t : Bound(e, m, t) /\ Fits(e, Top, Here, m)
  BY <1>1, TopFits
<1>3. FitsSpecial(e, Top, Here, m)
  BY <1>1, <1>2 DEF Fits
<1>4. Top.fmt \notin SelfReading /\ Top.fmt # "?" /\ Top.fmt # NoFormat
  <2>1. GivenOnes \subseteq Formats
    BY NamedFormats DEF GivenOnes
  <2> QED
    BY <2>1, NotAFormat, Zenon DEF SelfReading
<1>5. Top.tag.t = "uint" /\ FitsUnpack(e, Top.fmt, Top.tag, Top.at, Here, m)
  BY <1>3, <1>4 DEF FitsSpecial
<1>6. PICK k \in 1..Len(e.parts) :
        /\ IsA(e, k, "value") /\ e.parts[k].fmt = Top.fmt /\ To(e, k, m)
        /\ e.parts[k].at = Top.at /\ Top.at + 1 = Here.at /\ e.parts[k].before = Here.cells
        /\ Stretch(e, Here, m) /\ e.bytes[Top.at] = Top.tag
  BY <1>5 DEF FitsUnpack, OpenAt
<1>7. Here.at = pos /\ Here.cells = Len(out) /\ e \in Encodings
  BY HereTypes
<1>8. IsValue(e, e.parts[k])
  BY <1>6, <1>7, PartType DEF IsPart, IsA
<1>9. e.parts[k].end = pos /\ GivenCell(e, e.parts[k], Top.tag.v)
  <2>1. e.bytes[e.parts[k].at].t = "uint" /\ e.bytes[e.parts[k].at].v = Top.tag.v
    BY <1>5, <1>6
  <2>2. /\ e.parts[k].end = e.parts[k].at + 1
        /\ \/ e.parts[k].fmt = NoFormat
           \/ e.parts[k].fmt \in GivenOnes /\ GivenCell(e, e.parts[k], e.bytes[e.parts[k].at].v)
           \/ e.parts[k].fmt = "?"
    BY <1>8, <2>1 DEF IsValue, Byte
  <2> QED
    BY <1>4, <1>6, <1>7, <2>1, <2>2
<1> QED
  BY <1>2, <1>6, <1>7, <1>9

\* port_link_flag is that of the link above, in the same row.
LEMMA LinkAbove ==
  ASSUME NEW e, Ready(e), NEW c, c = Len(out) + 1, NEW val, IfUp(e, c, val)
  PROVE  e.meant[c].val = IF port_link_flag = 1 THEN val ELSE <<>>
<1>1. PICK j \in 1..c - 1 :
        LinkOf(e, j, c) /\ e.meant[c].val = IF e.meant[j].val = <<1>> THEN val ELSE <<>>
  BY DEF IfUp
<1>2. Len(out) \in Nat /\ j \in 1..Len(out) /\ c - 1 = Len(out)
  BY ReadyTypes
<1>3. \A k \in 1..Len(out) : out[k].fmt = e.meant[k].fmt /\ out[k].val = e.meant[k].val
  BY DEF Ready, ShownSoFar, Told
<1>4. out[j].fmt = "l" /\ \A i \in j + 1..Len(out) : out[i].fmt # "l"
  <2>1. e.meant[j].fmt = "l" /\ \A i \in j + 1..Len(out) : e.meant[i].fmt # "l"
    BY <1>1, <1>2 DEF LinkOf
  <2>2. \A i \in j + 1..Len(out) : i \in 1..Len(out)
    BY <1>2
  <2> QED
    BY <1>2, <1>3, <2>1, <2>2
<1>5. e.meant[j].val = <<port_link_flag>>
  BY <1>2, <1>3, <1>4 DEF Ready, ShownSoFar
<1>6. port_link_flag \in {0, 1}
  BY DEF Ready, DisplayInv
<1>7. <<port_link_flag>> = <<1>> <=> port_link_flag = 1
  BY <1>6
<1> QED
  BY <1>1, <1>5, <1>7

\* What is printed of a number that was given.
LEMMA GivenPrinted ==
  ASSUME NEW e, Ready(e), Aligned(e), Doing("special"), Top.fmt \in GivenOnes,
         UNCHANGED outer, UNCHANGED reader, NEW val, Shows(val, Top.at),
         \/ Top.fmt # "l" /\ UNCHANGED port_link_flag
         \/ Top.fmt = "l" /\ val = <<port_link_flag'>>,
         Top.fmt \in {"l", "o"} => val = YesOrNo(Top.tag.v),
         Top.fmt = "S" => val = IF port_link_flag = 1 THEN SpeedWord(Top.tag.v) ELSE <<>>,
         Top.fmt = "d" => val = IF port_link_flag = 1 THEN YesOrNo(Top.tag.v) ELSE <<>>
  PROVE  Follows(e)'
<1>1. showing /\ todo # <<>>
  BY TopReady
<1>2. PICK m, t : \E k \in 1..Len(e.parts) :
        /\ Bound(e, m, t) /\ GivenCell(e, e.parts[k], Top.tag.v)
        /\ e.parts[k].fmt = Top.fmt /\ e.parts[k].at = Top.at /\ e.parts[k].end = pos
        /\ e.parts[k].before = Len(out) /\ To(e, k, m) /\ Stretch(e, Here, m)
  BY GivenPart
<1>3. PICK k \in 1..Len(e.parts) :
        /\ Bound(e, m, t) /\ GivenCell(e, e.parts[k], Top.tag.v)
        /\ e.parts[k].fmt = Top.fmt /\ e.parts[k].at = Top.at /\ e.parts[k].end = pos
        /\ e.parts[k].before = Len(out) /\ To(e, k, m) /\ Stretch(e, Here, m)
  BY <1>2
<1> DEFINE p == e.parts[k]
           w == e.meant[p.upto].val
<1>4. OneCell(e, p, Top.fmt, w, Top.at) /\ p.upto = Len(out) + 1
  BY <1>3 DEF GivenCell, OneCell
<1>5. w = val
  <2>1. CASE Top.fmt \in {"l", "o"}
    BY <1>3, <2>1 DEF GivenCell
  <2>2. CASE Top.fmt = "S"
    <3>1. IfUp(e, p.upto, SpeedWord(Top.tag.v))
      BY <1>3, <2>2 DEF GivenCell
    <3> QED
      BY <1>4, <2>2, <3>1, LinkAbove
  <2>3. CASE Top.fmt = "d"
    <3>1. IfUp(e, p.upto, YesOrNo(Top.tag.v))
      BY <1>3, <2>3 DEF GivenCell
    <3> QED
      BY <1>4, <2>3, <3>1, LinkAbove
  <2> QED
    BY <2>1, <2>2, <2>3 DEF GivenOnes
<1>6. OneCell(e, p, Top.fmt, val, Top.at)
  BY <1>4, <1>5
<1>7. err' = FALSE /\ pos' = p.end
  BY <1>3 DEF reader, Ready
<1>8. PrintCell(Top.fmt, val, Top.at) /\ Then(<<>>)
  BY DEF Shows
<1> QED
  BY <1>1, <1>3, <1>6, <1>7, <1>8, PartPrinted

LEMMA GivenFollow ==
  ASSUME NEW e, Ready(e), Aligned(e), Link \/ Switch \/ Speed \/ Duplex
  PROVE  Follows(e)'
<1>1. CASE Link
  <2>1. Doing("special") /\ Top.fmt = "l" /\ Top.fmt \in GivenOnes
    BY <1>1 DEF Link, Special, GivenOnes
  <2>2. /\ UNCHANGED outer /\ UNCHANGED reader /\ Shows(<<port_link_flag'>>, Top.at)
        /\ <<port_link_flag'>> = YesOrNo(Top.tag.v)
    BY <1>1 DEF Link, YesOrNo
  <2> QED
    BY <2>1, <2>2, GivenPrinted
<1>2. CASE Switch
  <2>1. Doing("special") /\ Top.fmt = "o" /\ Top.fmt \in GivenOnes
    BY <1>2 DEF Switch, Special, GivenOnes
  <2>2. /\ UNCHANGED outer /\ UNCHANGED reader /\ UNCHANGED port_link_flag
        /\ Shows(YesOrNo(Top.tag.v), Top.at)
    BY <1>2 DEF Switch, YesOrNo
  <2> QED
    BY <2>1, <2>2, GivenPrinted
<1>3. CASE Speed
  <2>1. Doing("special") /\ Top.fmt = "S" /\ Top.fmt \in GivenOnes
    BY <1>3 DEF Speed, Special, GivenOnes
  <2>2. /\ UNCHANGED outer /\ UNCHANGED reader /\ UNCHANGED port_link_flag
        /\ Shows(IF port_link_flag = 1 THEN SpeedWord(Top.tag.v) ELSE <<>>, Top.at)
    BY <1>3 DEF Speed
  <2> QED
    BY <2>1, <2>2, GivenPrinted
<1>4. CASE Duplex
  <2>1. Doing("special") /\ Top.fmt = "d" /\ Top.fmt \in GivenOnes
    BY <1>4 DEF Duplex, Special, GivenOnes
  <2>2. /\ UNCHANGED outer /\ UNCHANGED reader /\ UNCHANGED port_link_flag
        /\ Shows(IF port_link_flag = 1 THEN YesOrNo(Top.tag.v) ELSE <<>>, Top.at)
    BY <1>4 DEF Duplex, YesOrNo
  <2> QED
    BY <2>1, <2>2, GivenPrinted
<1> QED
  BY <1>1, <1>2, <1>3, <1>4

\* The part on top, which a format reads for itself.
Format(e, k, m, t) ==
  /\ Bound(e, m, t) /\ IsSpecial(e, e.parts[k]) /\ e.parts[k].kind = "special"
  /\ e.parts[k].fmt = Top.fmt /\ e.parts[k].at = pos /\ e.parts[k].before = Len(out)
  /\ To(e, k, m) /\ Stretch(e, Here, m)

\* A value that is read and printed as one cell, or cut short.
LEMMA FormatPrinted ==
  ASSUME NEW e, Ready(e), todo # <<>>, UNCHANGED outer, UNCHANGED port_link_flag,
         NEW m, NEW t, NEW k \in 1..Len(e.parts), Format(e, k, m, t), Top.fmt # "l",
         NEW w, OneCell(e, e.parts[k], Top.fmt, w, pos), NEW val, Shows(val, pos),
         \/ /\ e.parts[k].end - 1 <= Len(Content)
            /\ err' = FALSE /\ pos' = e.parts[k].end /\ val = w
         \/ e.parts[k].end - 1 > Len(Content) /\ err' = TRUE
  PROVE  Follows(e)'
<1>1. PrintCell(Top.fmt, val, pos) /\ Then(<<>>)
  BY DEF Shows
<1>2. CASE e.parts[k].end - 1 <= Len(Content) /\ err' = FALSE /\ pos' = e.parts[k].end /\ val = w
  BY <1>1, <1>2, PartPrinted DEF Format
<1>3. CASE e.parts[k].end - 1 > Len(Content) /\ err' = TRUE
  <2>1. Reach(e, e.parts[k].end, Len(out))
    BY HereTypes, ReachEnd DEF Format
  <2>2. out' = out \/ \E c : out' = Append(out, c)
    BY <1>1 DEF PrintCell
  <2> QED
    BY <1>3, <2>1, <2>2, Failing
<1> QED
  BY <1>2, <1>3

LEMMA TakesFollow ==
  ASSUME NEW e, Ready(e), todo # <<>>, NEW n \in Nat, NEW val, Takes(n, val),
         NEW m, NEW t, NEW k \in 1..Len(e.parts), Format(e, k, m, t), Top.fmt # "l",
         NEW w, OneCell(e, e.parts[k], Top.fmt, w, pos),
         \/ e.parts[k].end - 1 <= Len(Content) /\ pos + n = e.parts[k].end /\ val = w
         \/ e.parts[k].end - 1 > Len(Content) /\ pos + n - 1 > Len(Content)
  PROVE  Follows(e)'
<1>1. Read(n) /\ Shows(val, pos) /\ UNCHANGED outer /\ UNCHANGED port_link_flag
  BY DEF Takes
<1>2. pos \in Nat /\ Len(Content) \in Nat /\ e.parts[k].end \in Nat
  BY ReadyTypes, PartType
<1>3. CASE e.parts[k].end - 1 <= Len(Content) /\ pos + n = e.parts[k].end /\ val = w
  <2>1. pos + n - 1 <= Len(Content)
    BY <1>2, <1>3
  <2>2. err' = FALSE /\ pos' = pos + n
    BY <1>1, <2>1, ReadEnds
  <2> QED
    BY <1>1, <1>3, <2>2, FormatPrinted
<1>4. CASE e.parts[k].end - 1 > Len(Content) /\ pos + n - 1 > Len(Content)
  <2>1. ~(pos + n - 1 <= Len(Content))
    BY <1>2, <1>4
  <2>2. err' = TRUE
    BY <1>1, <2>1, ReadEnds
  <2> QED
    BY <1>1, <1>4, <2>2, FormatPrinted
<1> QED
  BY <1>3, <1>4

\* A value that is read and not shown.
LEMMA FormatSilent ==
  ASSUME NEW e, Ready(e), todo # <<>>, Idle, Then(<<>>),
         NEW m, NEW t, NEW k \in 1..Len(e.parts), Format(e, k, m, t), NoCell(e.parts[k]),
         NEW n \in Nat, Read(n), e.parts[k].end = pos + n
  PROVE  Follows(e)'
<1>1. pos \in Nat /\ Len(Content) \in Nat
  BY ReadyTypes
<1>2. CASE pos + n - 1 <= Len(Content)
  <2>1. err' = FALSE /\ pos' = pos + n
    BY <1>1, <1>2, ReadEnds
  <2>2. m \in Place /\ m.at = pos + n /\ m.cells = Len(out) /\ Stretch(e, Here, m) /\ Bound(e, m, t)
    BY DEF Format, Bound, To, NoCell
  <2>3. Onto(n) = m
    BY <2>2, SilentPart
  <2> QED
    BY <2>1, <2>2, <2>3, PassNone DEF Idle
<1>3. CASE ~(pos + n - 1 <= Len(Content))
  <2>1. err' = TRUE /\ e.parts[k].end - 1 > Len(Content)
    <3>1. err' = TRUE
      BY <1>3, ReadEnds
    <3> QED
      BY <1>1, <1>3, <3>1
  <2>2. Reach(e, e.parts[k].end, Len(out))
    BY HereTypes, ReachEnd DEF Format
  <2> QED
    BY <2>1, <2>2, Failing DEF Idle, shown
<1> QED
  BY <1>2, <1>3

\* The format that is on top.
LEMMA ReadingTop ==
  ASSUME NEW e, Ready(e), Aligned(e), Doing("special"), Top.fmt \in SelfReading
  PROVE  todo # <<>> /\ Top.fmt # "l" /\ Top \in Frame
<1>1. Top.fmt # "l"
  BY Zenon DEF SelfReading, GivenOnes
<1>2. todo # <<>> /\ Top \in Frame
  BY TopReady
<1> QED
  BY <1>1, <1>2

LEMMA FormatFound ==
  ASSUME NEW e, Ready(e), Aligned(e), Doing("special"), Top.fmt \in SelfReading
  PROVE  \E m, t : \E k \in 1..Len(e.parts) : Format(e, k, m, t)
BY FormatPart DEF Format

LEMMA ReadsForItself ==
  {"s", "D", "i", "I", "m", "c", "p", "u", "P", "a", "f", "b", "L", "v", "A", "F", "V", "O", "t"}
    = SelfReading
BY NamedFormats DEF SelfReading, GivenOnes

LEMMA IpFollow == ASSUME NEW e, Ready(e), Aligned(e), Ip PROVE Follows(e)'
<1>1. Doing("special") /\ Top.fmt = "i" /\ Takes(3, Numbers(1, 2)) /\ Top.fmt \in SelfReading
  BY ReadsForItself DEF Ip, Special
<1>2. todo # <<>> /\ Top.fmt = "i" /\ Top.fmt # "l"
  BY <1>1, ReadingTop
<1>3. PICK m, t : \E k \in 1..Len(e.parts) : Format(e, k, m, t)
  BY <1>1, FormatFound
<1>4. PICK k \in 1..Len(e.parts) : Format(e, k, m, t)
  BY <1>3
<1> DEFINE w == ValuesAt(e, pos + 1, 2)
<1>5. e.parts[k].end = pos + 3 /\ OneCell(e, e.parts[k], Top.fmt, w, pos) /\ e.parts[k].at = pos
  BY <1>2, <1>4 DEF Format, IsSpecial, Sized
<1>6. pos \in Nat /\ Len(Content) \in Nat
  BY ReadyTypes
<1> HIDE DEF w
<1>7. CASE pos + 3 - 1 <= Len(Content)
  <2>1. Numbers(1, 2) = w
    <3>1. pos + 1 + 2 - 1 <= Len(Content)
      BY <1>6, <1>7
    <3> QED
      BY <3>1, NumbersAre DEF w
  <2>2. e.parts[k].end - 1 <= Len(Content) /\ pos + 3 = e.parts[k].end
    BY <1>5, <1>6, <1>7
  <2> QED
    BY <1>1, <1>2, <1>4, <1>5, <2>1, <2>2, TakesFollow
<1>8. CASE ~(pos + 3 - 1 <= Len(Content))
  <2>1. e.parts[k].end - 1 > Len(Content) /\ pos + 3 - 1 > Len(Content)
    BY <1>5, <1>6, <1>8
  <2> QED
    BY <1>1, <1>2, <1>4, <1>5, <2>1, TakesFollow
<1> QED
  BY <1>7, <1>8

\* One code.
LEMMA CodeFollow ==
  ASSUME NEW e, Ready(e), Aligned(e), NEW fmts, CodeOf(fmts), fmts \subseteq Tables \cup TwoWords
  PROVE  Follows(e)'
<1>1. /\ Doing("special") /\ Takes(1, Word(Top.fmt, Ahead(0).v)) /\ Top.fmt \in SelfReading
      /\ Top.fmt \in Tables \cup TwoWords
  <2>1. Tables \cup TwoWords \subseteq SelfReading
    BY ReadsForItself DEF Tables, TwoWords
  <2> QED
    BY <2>1 DEF CodeOf, Special
<1>2. todo # <<>> /\ Top.fmt \in Tables \cup TwoWords /\ Top.fmt # "l"
  BY <1>1, ReadingTop
<1>3. PICK m, t : \E k \in 1..Len(e.parts) : Format(e, k, m, t)
  BY <1>1, FormatFound
<1>4. PICK k \in 1..Len(e.parts) : Format(e, k, m, t)
  BY <1>3
<1> DEFINE w == Word(Top.fmt, e.bytes[pos].v)
<1>5. e.parts[k].end = pos + 1 /\ OneCell(e, e.parts[k], Top.fmt, w, pos) /\ e.parts[k].at = pos
  BY <1>2, <1>4 DEF Format, IsSpecial, Sized
<1>6. pos \in Nat /\ Len(Content) \in Nat
  BY ReadyTypes
<1>7. CASE pos + 1 - 1 <= Len(Content)
  <2>1. Ahead(0).v = e.bytes[pos].v
    <3>1. pos + 0 = pos /\ pos + 0 <= Len(Content)
      BY <1>6, <1>7
    <3>2. Ahead(0) = e.bytes[pos + 0]
      BY <3>1, AheadIs
    <3> QED
      BY <3>1, <3>2
  <2>2. e.parts[k].end - 1 <= Len(Content) /\ pos + 1 = e.parts[k].end
    BY <1>5, <1>6, <1>7
  <2>3. Word(Top.fmt, Ahead(0).v) = w
    BY <2>1
  <2> HIDE DEF w
  <2> QED
    BY <1>1, <1>2, <1>4, <1>5, <2>2, <2>3, TakesFollow
<1> HIDE DEF w
<1>8. CASE ~(pos + 1 - 1 <= Len(Content))
  <2>1. e.parts[k].end - 1 > Len(Content) /\ pos + 1 - 1 > Len(Content)
    BY <1>5, <1>6, <1>8
  <2> QED
    BY <1>1, <1>2, <1>4, <1>5, <2>1, TakesFollow
<1> QED
  BY <1>7, <1>8

LEMMA CodesFollow ==
  ASSUME NEW e, Ready(e), Aligned(e),
         PlatformOrBoard \/ Balance \/ VlanTag \/ ActionOrForward \/ OmSwitchOver \/ BoardStatus
  PROVE  Follows(e)'
<1>1. PICK fmts : CodeOf(fmts) /\ fmts \subseteq Tables \cup TwoWords
  BY DEF PlatformOrBoard, Balance, VlanTag, ActionOrForward, OmSwitchOver, BoardStatus, Tables, TwoWords
<1> QED
  BY <1>1, CodeFollow

LEMMA SlotModulePortFollow == ASSUME NEW e, Ready(e), Aligned(e), SlotModulePort PROVE Follows(e)'
<1> DEFINE n == Ahead(0).v
<1>1. Doing("special") /\ Top.fmt = "s" /\ Top.fmt \in SelfReading
  BY ReadsForItself DEF SlotModulePort, Special
<1>2. todo # <<>> /\ Top.fmt # "l"
  BY <1>1, ReadingTop
<1>3. PICK m, t : \E k \in 1..Len(e.parts) : Format(e, k, m, t)
  BY <1>1, FormatFound
<1>4. PICK k \in 1..Len(e.parts) : Format(e, k, m, t)
  BY <1>3
<1> DEFINE v == e.bytes[pos].v
           w == ValuesAt(e, pos + 1, v)
<1>5. v \in 1..3 /\ e.parts[k].end = pos + (1 + v) /\ OneCell(e, e.parts[k], Top.fmt, w, pos)
      /\ e.parts[k].at = pos
  BY <1>1, <1>4 DEF Format, IsSpecial, Sized
<1>6. pos \in Nat /\ Len(Content) \in Nat
  BY ReadyTypes
<1>7. CASE pos <= Len(Content)
  <2>1. n = v
    <3>1. pos + 0 = pos
      BY <1>6
    <3> QED
      BY <1>7, <3>1, AheadIs
  <2>2. Takes(1 + v, Numbers(1, v))
    BY <1>5, <2>1 DEF SlotModulePort
  <2> HIDE DEF n, v, w
  <2>3. CASE pos + (1 + v) - 1 <= Len(Content)
    <3>1. Numbers(1, v) = w
      <4>1. v \in Nat /\ pos + 1 + v - 1 <= Len(Content)
        BY <1>5, <1>6, <2>3
      <4> QED
        BY <4>1, NumbersAre DEF w
    <3>2. e.parts[k].end - 1 <= Len(Content) /\ pos + (1 + v) = e.parts[k].end /\ 1 + v \in Nat
      BY <1>5, <1>6, <2>3
    <3> QED
      BY <1>2, <1>4, <1>5, <2>2, <3>1, <3>2, TakesFollow
  <2>4. CASE ~(pos + (1 + v) - 1 <= Len(Content))
    <3>1. e.parts[k].end - 1 > Len(Content) /\ pos + (1 + v) - 1 > Len(Content) /\ 1 + v \in Nat
      BY <1>5, <1>6, <2>4
    <3> QED
      BY <1>2, <1>4, <1>5, <2>2, <3>1, TakesFollow
  <2> QED
    BY <2>3, <2>4
<1>8. CASE ~(pos <= Len(Content))
  <2>1. n = 0
    <3>1. ~(pos + 0 <= Len(Content))
      BY <1>6, <1>8
    <3> QED
      BY <3>1, AheadIs DEF Nil, Byte
  <2>2. Read(1) /\ UNCHANGED shown /\ UNCHANGED outer
    BY <2>1 DEF SlotModulePort
  <2>3. err' = TRUE
    <3>1. ~(pos + 1 - 1 <= Len(Content))
      BY <1>6, <1>8
    <3> QED
      BY <2>2, <3>1, ReadEnds
  <2>4. Reach(e, e.parts[k].end, Len(out))
    BY <1>4, <1>5, HereTypes, ReachEnd DEF Format
  <2> HIDE DEF n, v, w
  <2>5. e.parts[k].end - 1 > Len(Content)
    BY <1>5, <1>6, <1>8
  <2> QED
    BY <2>2, <2>3, <2>4, <2>5, Failing DEF shown
<1> QED
  BY <1>7, <1>8

LEMMA CounterTypeFollow == ASSUME NEW e, Ready(e), Aligned(e), CounterType PROVE Follows(e)'
<1>1. Doing("special") /\ Top.fmt = "c" /\ Top.fmt \in SelfReading
  BY ReadsForItself DEF CounterType, Special
<1>2. todo # <<>> /\ Top.fmt # "l"
  BY <1>1, ReadingTop
<1>3. PICK m, t : \E k \in 1..Len(e.parts) : Format(e, k, m, t)
  BY <1>1, FormatFound
<1>4. PICK k \in 1..Len(e.parts) : Format(e, k, m, t)
  BY <1>3
<1> DEFINE type == Ahead(0).v % 16
           real == e.bytes[pos].v % 16
           val == <<IF type = 2 THEN 2 ELSE 1>> \o Numbers(1, 2)
           w == <<IF real = 2 THEN 2 ELSE 1>> \o ValuesAt(e, pos + 1, 2)
<1>5. IsCounter(e, e.parts[k]) /\ e.parts[k].at = pos
  BY <1>1, <1>4 DEF Format, IsSpecial
<1>6. /\ e.parts[k].end = pos + 3
      /\ real \in {0, 15} => NoCell(e.parts[k])
      /\ real \notin {0, 15} => OneCell(e, e.parts[k], Top.fmt, w, pos)
  BY <1>1, <1>5 DEF IsCounter, Sized
<1>7. pos \in Nat /\ Len(Content) \in Nat
  BY ReadyTypes
<1>8. /\ type \in {0, 15} => Read(3) /\ Then(<<>>) /\ Idle
      /\ type \notin {0, 15} => Takes(3, val)
  BY DEF CounterType, Idle
<1>9. Read(3)
  BY <1>8 DEF Takes
<1>10. CASE pos + 3 - 1 <= Len(Content)
  <2>1. type = real /\ val = w
    <3>1. pos + 0 = pos /\ pos + 0 <= Len(Content) /\ pos + 1 + 2 - 1 <= Len(Content)
      BY <1>7, <1>10
    <3>2. Ahead(0).v = e.bytes[pos].v
      BY <3>1, AheadIs
    <3>3. Numbers(1, 2) = ValuesAt(e, pos + 1, 2)
      BY <3>1, NumbersAre
    <3> QED
      BY <3>2, <3>3
  <2> HIDE DEF type, real, val, w
  <2>2. CASE real \in {0, 15}
    BY <1>2, <1>4, <1>6, <1>8, <2>1, <2>2, FormatSilent
  <2>3. CASE real \notin {0, 15}
    <3>1. e.parts[k].end - 1 <= Len(Content) /\ pos + 3 = e.parts[k].end
      BY <1>6, <1>7, <1>10
    <3> QED
      BY <1>2, <1>4, <1>6, <1>8, <2>1, <2>3, <3>1, TakesFollow
  <2> QED
    BY <2>2, <2>3
<1>11. CASE ~(pos + 3 - 1 <= Len(Content))
  <2>1. err' = TRUE
    BY <1>9, <1>11, ReadEnds
  <2>2. NoCell(e.parts[k]) \/ \E fmt, u, at : OneCell(e, e.parts[k], fmt, u, at)
    BY <1>6
  <2>3. Reach(e, e.parts[k].end, Len(out))
    BY <1>4, <2>2, HereTypes, ReachEnd DEF Format
  <2>4. UNCHANGED outer /\ (out' = out \/ \E c : out' = Append(out, c))
    BY <1>8 DEF Takes, Idle, shown, Shows, PrintCell
  <2> HIDE DEF type, real, val, w
  <2>5. e.parts[k].end - 1 > Len(Content)
    BY <1>6, <1>7, <1>11
  <2> QED
    BY <2>1, <2>3, <2>4, <2>5, Failing
<1> QED
  BY <1>10, <1>11

\* An address and a mask.
LEMMA TwoStringsFollow ==
  ASSUME NEW e, Ready(e), Aligned(e), Ipv6 \/ Mac
  PROVE  Follows(e)'
<1>1. Doing("special") /\ Top.fmt \in {"I", "m"} /\ Top.fmt \in SelfReading /\ TwoStrings
  BY ReadsForItself DEF Ipv6, Mac, Special
<1>2. todo # <<>> /\ Top.fmt # "l"
  BY <1>1, ReadingTop
<1>3. PICK m, t : \E k \in 1..Len(e.parts) : Format(e, k, m, t)
  BY <1>1, FormatFound
<1>4. PICK k \in 1..Len(e.parts) : Format(e, k, m, t)
  BY <1>3
<1> DEFINE first == Ahead(1).v
           second == Ahead(2 + first).v
           val == Text(2, first) \o Text(3 + first, second)
           one == e.bytes[pos + 1].v
           two == e.bytes[pos + 2 + one].v
           w == ValuesAt(e, pos + 2, one) \o ValuesAt(e, pos + 3 + one, two)
<1>5. e.parts[k].at = pos /\ IsTwoStrings(e, e.parts[k])
  BY <1>1, <1>4 DEF Format, IsSpecial
<1>6. e.parts[k].end = pos + (3 + one + two) /\ one \in Nat /\ two \in Nat /\ OneCell(e, e.parts[k], Top.fmt, w, pos)
  BY <1>4, <1>5 DEF IsTwoStrings, Sized, Format
<1>7. pos \in Nat /\ Len(Content) \in Nat /\ e.parts[k].end \in Nat /\ Len(e.bytes) \in Nat
      /\ e.parts[k].end <= Len(e.bytes) + 1 /\ e.bytes \in Seq(Tag)
  BY ReadyTypes, PartType
<1>8. Takes(3 + first + second, val)
  BY <1>1 DEF TwoStrings
<1>9. /\ pos + 1 <= Len(Content) => first = one /\ one \in Nat
      /\ ~(pos + 1 <= Len(Content)) => first = 0
  BY <1>7, AheadIs DEF Nil, Byte
<1>10. first \in Nat
  BY <1>9
<1> HIDE DEF first, one
<1>11. /\ pos + (2 + first) <= Len(Content) => second = e.bytes[pos + (2 + first)].v /\ second \in Nat
       /\ ~(pos + (2 + first) <= Len(Content)) => second = 0
  <2>1. 2 + first \in Nat
    BY <1>10
  <2> QED
    BY <2>1, AheadIs DEF Nil, Byte
<1>12. second \in Nat
  BY <1>11
<1> HIDE DEF second
<1>13. CASE pos + (2 + first) <= Len(Content)
  <2>1. first = one /\ one \in Nat
    BY <1>7, <1>9, <1>10, <1>13
  <2>2. pos + (2 + first) = pos + 2 + one
    BY <1>7, <2>1
  <2>3. second = two
    BY <1>11, <1>13, <2>2
  <2> HIDE DEF two, val, w
  <2>4. CASE pos + (3 + first + second) - 1 <= Len(Content)
    <3>1. Text(2, first) = ValuesAt(e, pos + 2, one)
      <4>1. pos + 2 + first - 1 <= Len(Content) /\ 2 + first \in Nat /\ pos + (2 + first) - 1 <= Len(Content)
        BY <1>7, <1>10, <1>12, <2>4
      <4>2. Readable(2 + first)
        BY <4>1, ReadableIs
      <4>3. Numbers(2, first) = ValuesAt(e, pos + 2, first)
        BY <1>10, <4>1, NumbersAre
      <4> QED
        BY <2>1, <4>2, <4>3 DEF Text
    <3>2. Text(3 + first, second) = ValuesAt(e, pos + 3 + one, two)
      <4>1. /\ pos + (3 + first) + second - 1 <= Len(Content) /\ 3 + first \in Nat
            /\ pos + ((3 + first) + second) - 1 <= Len(Content) /\ pos + (3 + first) = pos + 3 + one
        BY <1>7, <1>10, <1>12, <2>1, <2>4
      <4>2. Readable((3 + first) + second)
        BY <4>1, ReadableIs
      <4>3. Numbers(3 + first, second) = ValuesAt(e, pos + (3 + first), second)
        BY <1>12, <4>1, NumbersAre
      <4> QED
        BY <2>3, <4>1, <4>2, <4>3 DEF Text
    <3>3. val = w
      BY <3>1, <3>2 DEF val, w
    <3>4. /\ 3 + first + second \in Nat /\ pos + (3 + first + second) = e.parts[k].end
          /\ e.parts[k].end - 1 <= Len(Content)
      BY <1>6, <1>7, <1>10, <1>12, <2>1, <2>3, <2>4
    <3> QED
      BY <1>2, <1>4, <1>6, <1>8, <3>3, <3>4, TakesFollow
  <2>5. CASE ~(pos + (3 + first + second) - 1 <= Len(Content))
    <3>1. /\ 3 + first + second \in Nat /\ pos + (3 + first + second) - 1 > Len(Content)
          /\ e.parts[k].end - 1 > Len(Content)
      BY <1>6, <1>7, <1>10, <1>12, <2>1, <2>3, <2>5
    <3> QED
      BY <1>2, <1>4, <1>6, <1>8, <3>1, TakesFollow
  <2> QED
    BY <2>4, <2>5
<1>14. CASE ~(pos + (2 + first) <= Len(Content))
  <2> DEFINE l == Len(Content)
             q == e.parts[k].end
  <2>0. pos \in Nat /\ l \in Nat /\ first \in Nat /\ second \in Nat /\ ~(pos + (2 + first) <= l)
    BY <1>7, <1>10, <1>12, <1>14
  <2>1. 3 + first + second \in Nat /\ pos + (3 + first + second) - 1 > Len(Content)
    <3> HIDE DEF l
    <3>1. 3 + first + second \in Nat /\ pos + (3 + first + second) - 1 > l
      BY <2>0
    <3> QED
      BY <3>1 DEF l
  <2>2. e.parts[k].end - 1 > Len(Content)
    <3>1. one \in Nat /\ two \in Nat
      BY <1>6
    <3>2. (pos + 1 <= l => first = one) /\ q = pos + (3 + one + two)
      BY <1>6, <1>9
    <3> HIDE DEF l, q, two
    <3>3. q - 1 > l
      BY <2>0, <3>1, <3>2
    <3> QED
      BY <3>3 DEF l, q
  <2> HIDE DEF two, val, w
  <2> QED
    BY <1>2, <1>4, <1>6, <1>8, <2>1, <2>2, TakesFollow
<1> QED
  BY <1>13, <1>14

\* An array of numbers that is checked as it is read.
LEMMA CheckedFollow ==
  ASSUME NEW e, Ready(e), Aligned(e), Doing("special"), Top.fmt \in SelfReading,
         NEW n \in Nat \ {0}, Checked(n),
         \A p : IsSpecial(e, p) /\ p.fmt = Top.fmt => OfNumbers(e, p, n)
  PROVE  Follows(e)'
<1> DEFINE numbers == [j \in 1..n |-> "uint"]
           types == <<"array">> \o numbers
           right == Ahead(0) = Byte("array", n)
           val == [j \in 1..n |-> IF right THEN Expected(types, j + 1) ELSE 0]
           w == ValuesAt(e, pos + 1, n)
<1>1. todo # <<>> /\ Top.fmt # "l"
  BY ReadingTop
<1>2. PICK m, t : \E k \in 1..Len(e.parts) : Format(e, k, m, t)
  BY FormatFound
<1>3. PICK k \in 1..Len(e.parts) : Format(e, k, m, t)
  BY <1>2
<1>4. OfNumbers(e, e.parts[k], n) /\ e.parts[k].at = pos /\ e.parts[k].fmt = Top.fmt
  BY <1>3 DEF Format
<1>5. /\ e.bytes[pos] = Byte("array", n) /\ \A j \in 1..n : e.bytes[pos + j].t = "uint"
      /\ e.parts[k].end = pos + (n + 1) /\ OneCell(e, e.parts[k], Top.fmt, w, pos)
  BY <1>4 DEF OfNumbers, Sized
<1>6. /\ err' = (~right \/ ~Agree(types, n + 1))
      /\ pos' = (IF err' THEN pos ELSE pos + n + 1)
      /\ Shows(val, pos) /\ UNCHANGED outer /\ UNCHANGED port_link_flag
  BY DEF Checked
<1>7. pos \in Nat /\ Len(Content) \in Nat
  BY ReadyTypes
<1>8. types[1] = "array" /\ \A j \in 1..n : types[j + 1] = "uint"
  <2>1. numbers \in Seq({"uint"}) /\ Len(numbers) = n /\ \A j \in 1..n : numbers[j] = "uint"
    OBVIOUS
  <2> HIDE DEF numbers
  <2>2. numbers \in Seq({"uint", "array"}) /\ <<"array">> \in Seq({"uint", "array"}) /\ Len(<<"array">>) = 1
    BY <2>1
  <2>3. types[1] = "array"
    BY <2>2
  <2>4. ASSUME NEW j \in 1..n PROVE types[j + 1] = "uint"
    <3>1. types[j + 1] = numbers[j + 1 - 1]
      BY <2>1, <2>2
    <3>2. j + 1 - 1 = j
      OBVIOUS
    <3> QED
      BY <2>1, <3>1, <3>2
  <2> QED
    BY <2>3, <2>4
<1> HIDE DEF types, numbers
<1>9. CASE pos + (n + 1) - 1 <= Len(Content)
  <2>1. ASSUME NEW j \in 0..n
        PROVE  Ahead(j) = e.bytes[pos + j] /\ Ahead(j).v \in Nat
    <3>1. j \in Nat /\ pos + j <= Len(Content)
      BY <1>7, <1>9
    <3> QED
      BY <3>1, AheadIs
  <2>2. right
    <3>1. 0 \in 0..n /\ pos + 0 = pos
      BY <1>7
    <3> QED
      BY <1>5, <2>1, <3>1
  <2>3. \A j \in 1..n + 1 : Ahead(j - 1).t = types[j]
    <3> SUFFICES ASSUME NEW j \in 1..n + 1 PROVE Ahead(j - 1).t = types[j]
      OBVIOUS
    <3>1. CASE j = 1
      <4>1. 1 - 1 = 0
        OBVIOUS
      <4> QED
        BY <1>8, <2>2, <3>1, <4>1 DEF Byte
    <3>2. CASE j # 1
      <4>1. j - 1 \in 1..n /\ j - 1 \in 0..n /\ (j - 1) + 1 = j
        BY <3>2
      <4>2. e.bytes[pos + (j - 1)].t = "uint"
        BY <1>5, <4>1
      <4>3. types[(j - 1) + 1] = "uint"
        BY <1>8, <4>1
      <4> QED
        BY <2>1, <4>1, <4>2, <4>3
    <3> QED
      BY <3>1, <3>2
  <2>4. Agree(types, n + 1)
    BY <2>3 DEF Agree
  <2>5. val = w
    <3>1. ASSUME NEW j \in 1..n PROVE Expected(types, j + 1) = e.bytes[pos + 1 + j - 1].v
      <4>1. Agree(types, j + 1)
        <5>1. \A i \in 1..j + 1 : i \in 1..n + 1
          OBVIOUS
        <5> QED
          BY <2>3, <5>1 DEF Agree
      <4>2. j + 1 - 1 = j /\ j \in 0..n /\ pos + 1 + j - 1 = pos + j
        BY <1>7
      <4> QED
        BY <2>1, <4>1, <4>2 DEF Expected
    <3> HIDE DEF right
    <3> QED
      BY <2>2, <3>1 DEF ValuesAt
  <2>6. err' = FALSE /\ pos' = e.parts[k].end /\ e.parts[k].end - 1 <= Len(Content)
    <3> HIDE DEF right, val, w
    <3>1. err' = FALSE
      BY <1>6, <2>2, <2>4
    <3> QED
      BY <1>5, <1>6, <1>7, <1>9, <3>1
  <2> HIDE DEF right, val, w
  <2> QED
    BY <1>1, <1>3, <1>5, <1>6, <2>5, <2>6, FormatPrinted
<1>10. CASE ~(pos + (n + 1) - 1 <= Len(Content))
  <2>1. Ahead(n) = Nil
    <3>1. ~(pos + n <= Len(Content))
      BY <1>7, <1>10
    <3> QED
      BY <3>1, AheadIs
  <2>2. ~Agree(types, n + 1)
    <3>1. n + 1 \in 1..n + 1 /\ (n + 1) - 1 = n /\ types[n + 1] = "uint"
      BY <1>8
    <3>2. Ahead(n).t = "nil"
      BY <2>1, NilType
    <3> QED
      BY <3>1, <3>2 DEF Agree
  <2> HIDE DEF right, val, w
  <2>3. err' = TRUE
    BY <1>6, <2>2
  <2>4. e.parts[k].end - 1 > Len(Content)
    BY <1>5, <1>7, <1>10
  <2> QED
    BY <1>1, <1>3, <1>5, <1>6, <2>3, <2>4, FormatPrinted
<1> QED
  BY <1>9, <1>10

LEMMA NumbersFollow ==
  ASSUME NEW e, Ready(e), Aligned(e), Uptime \/ OutVlan
  PROVE  Follows(e)'
<1>1. CASE Uptime
  <2>1. Doing("special") /\ Top.fmt = "D" /\ Top.fmt \in SelfReading /\ Checked(4)
    BY <1>1, ReadsForItself DEF Uptime, Special
  <2>2. \A p : IsSpecial(e, p) /\ p.fmt = Top.fmt => OfNumbers(e, p, 4)
    BY <2>1 DEF IsSpecial
  <2> QED
    BY <2>1, <2>2, CheckedFollow
<1>2. CASE OutVlan
  <2>1. Doing("special") /\ Top.fmt = "V" /\ Top.fmt \in SelfReading /\ Checked(3)
    BY <1>2, ReadsForItself DEF OutVlan, Special
  <2>2. \A p : IsSpecial(e, p) /\ p.fmt = Top.fmt => OfNumbers(e, p, 3)
    BY <2>1 DEF IsSpecial
  <2> QED
    BY <2>1, <2>2, CheckedFollow
<1> QED
  BY <1>1, <1>2

-----------------------------------------------------------------------------
(* The lists. *)
LEMMA EntriesFields ==
  ASSUME Top \in Frame, NEW n, NEW at
  PROVE  LET f == [Top EXCEPT !.do = "entries", !.n = n, !.at = at]
         IN  f.do = "entries" /\ f.n = n /\ f.fmt = Top.fmt /\ f.at = at
BY DEF Frame

LEMMA ListFollow ==
  ASSUME NEW e, Ready(e), Aligned(e), InportsOutports \/ UserData \/ PowerOrFan
  PROVE  Follows(e)'
<1> DEFINE f == [Top EXCEPT !.do = "entries", !.n = Ahead(0).v, !.at = pos]
<1>1. Doing("special") /\ Top.fmt \in Listed /\ Top.fmt \in SelfReading /\ Read(1) /\ Then(<<f>>) /\ Idle
  BY ReadsForItself DEF InportsOutports, UserData, PowerOrFan, ListOf, Special, Listed, Idle
<1>2. todo # <<>> /\ Top \in Frame
  BY <1>1, ReadingTop
<1>3. PICK m, t : \E k \in 1..Len(e.parts) : Format(e, k, m, t)
  BY <1>1, FormatFound
<1>4. PICK k \in 1..Len(e.parts) : Format(e, k, m, t)
  BY <1>3
<1>5. e.parts[k].at = pos /\ e.parts[k].before = Len(out) /\ Bound(e, m, t) /\ e.parts[k].fmt = Top.fmt
      /\ To(e, k, m) /\ Stretch(e, Here, m) /\ IsSpecial(e, e.parts[k]) /\ IsA(e, k, "special")
  BY <1>4 DEF Format, IsA
<1>6. f.do = "entries" /\ f.n = Ahead(0).v /\ f.fmt = Top.fmt /\ f.at = pos
  BY <1>2, EntriesFields
<1> HIDE DEF f
<1>7. e \in Encodings /\ pos \in Nat /\ Len(Content) \in Nat
  BY ReadyTypes
<1>8. CASE pos <= Len(Content) /\ err' = FALSE /\ pos' = pos + 1 /\ Ahead(0).v = e.bytes[pos].v
  <2>1. Onto(1).at = pos + 1 /\ Onto(1).cells = Len(out) /\ Stretch(e, Onto(1), m)
    BY <1>5, OntoType, StretchOnto
  <2>2. FitsEntries(e, f, Onto(1), m)
    <3>1. CASE Top.fmt = "p"
      <4>1. f.n = 1
        BY <1>5, <1>6, <1>8, <3>1 DEF IsSpecial
      <4>2. OpenAt(e, "special", "p", pos, Onto(1), m)
        BY <1>5, <2>1, <3>1 DEF OpenAt
      <4> QED
        BY <1>6, <1>7, <3>1, <4>1, <4>2 DEF FitsEntries
    <3>2. CASE Top.fmt \in {"u", "P", "a"}
      <4> DEFINE ks == e.parts[k].kids
      <4>1. /\ Len(ks) = e.bytes[pos].v /\ Filled(e, e.parts[k], 1)
            /\ \A j \in 1..Len(ks) : Kid(e, e.parts[k], j).kind = "entry" /\ Kid(e, e.parts[k], j).fmt = Top.fmt
        BY <1>5, <3>2 DEF IsSpecial
      <4>2. Run(e, ks, Onto(1), m) /\ ks \in Seq(Nat)
        BY <1>5, <1>7, <2>1, <4>1, FilledRun, PartType
      <4>3. All(e, ks, "entry") /\ \A j \in 1..Len(ks) : e.parts[ks[j]].fmt = Top.fmt
        BY <4>1 DEF Kid, All
      <4>4. Top.fmt # "p" /\ Len(ks) = f.n
        BY <1>6, <1>8, <3>2, <4>1
      <4> HIDE DEF ks
      <4> QED
        BY <1>6, <2>1, <4>2, <4>3, <4>4 DEF FitsEntries
    <3> QED
      BY <1>1, <3>1, <3>2 DEF Listed
  <2>3. Fits(e, f, Onto(1), m)
    BY <1>6, <2>2 DEF Fits
  <2> QED
    BY <1>1, <1>2, <1>5, <1>8, <2>3, PassOne DEF Idle
<1>9. CASE ~(pos <= Len(Content)) /\ err' = TRUE
  BY <1>1, <1>5, <1>9, StartFails
<1> QED
  BY <1>1, <1>8, <1>9, ReadTag

\* The task of a list that has been begun.
LEMMA EntriesTop ==
  ASSUME NEW e, Ready(e), Aligned(e), Doing("entries")
  PROVE  /\ todo # <<>> /\ Top \in Frame /\ Top.do = "entries" /\ Top.fmt \in Listed
         /\ \E m, t : Bound(e, m, t) /\ FitsEntries(e, Top, Here, m)
<1>1. todo # <<>> /\ Top \in Frame /\ Top.do = "entries"
  BY TopReady
<1>2. Top.fmt \in Listed
  <2>1. todo \in Seq(Frame) /\ Top = todo[1]
    BY <1>1, RestType DEF Ready, DisplayInv, Stacked
  <2>2. 1 \in 1..Len(todo)
    BY <1>1, <2>1
  <2> QED
    BY <1>1, <2>1, <2>2 DEF Ready, DisplayInv, Stacked
<1>3. PICK m, t : Bound(e, m, t) /\ Fits(e, Top, Here, m)
  BY <1>1, TopFits
<1>4. FitsEntries(e, Top, Here, m)
  BY <1>1, <1>3 DEF Fits
<1> QED
  BY <1>1, <1>2, <1>3, <1>4

LEMMA LastFields ==
  ASSUME Top \in Frame, NEW val, NEW at
  PROVE  LET f == [Fewer EXCEPT !.last = val, !.at = at]
         IN  f.do = Top.do /\ f.n = Top.n - 1 /\ f.fmt = Top.fmt /\ f.last = val /\ f.at = at
BY DEF Fewer, Frame

\* The entry of a list of ports is kept.
LEMMA PortsFollow ==
  ASSUME NEW e, Ready(e), Aligned(e), Entry, Top.fmt = "p"
  PROVE  Follows(e)'
<1> DEFINE val == Numbers(1, 7)
           f == [Fewer EXCEPT !.last = val, !.at = pos]
<1>1. Doing("entries") /\ Top.n > 0 /\ Read(8) /\ Then(<<f>>) /\ Idle
  <2>1. EntrySize[Top.fmt] = 7
    BY DEF EntrySize
  <2> QED
    BY <2>1 DEF Entry, Idle
<1>2. todo # <<>> /\ Top \in Frame /\ Top.do = "entries"
  BY <1>1, EntriesTop
<1>3. PICK m, t : Bound(e, m, t) /\ FitsEntries(e, Top, Here, m)
  BY <1>1, EntriesTop
<1>4. PICK at \in Nat : Top.n = 1 /\ OpenAt(e, "special", "p", at, Here, m)
  BY <1>1, <1>3 DEF FitsEntries
<1>5. PICK k \in 1..Len(e.parts) :
        /\ IsA(e, k, "special") /\ e.parts[k].fmt = "p" /\ To(e, k, m)
        /\ e.parts[k].at = at /\ at + 1 = Here.at /\ e.parts[k].before = Here.cells
  BY <1>4 DEF OpenAt
<1>6. /\ e \in Encodings /\ pos \in Nat /\ Len(Content) \in Nat /\ Here.at = pos /\ Here.cells = Len(out)
      /\ m \in Place /\ Stretch(e, Here, m)
  BY <1>3, <1>4, ReadyTypes DEF Bound, OpenAt
<1>7. IsSpecial(e, e.parts[k])
  BY <1>5, <1>6, PartType DEF IsPart, IsA
<1> DEFINE w == ValuesAt(e, pos + 1, 7)
<1>8. e.parts[k].end = pos + 8 /\ OneCell(e, e.parts[k], "p", w, pos)
  <2>1. /\ e.parts[k].end = e.parts[k].at + (2 + EntrySize["p"])
        /\ OneCell(e, e.parts[k], "p", ValuesAt(e, e.parts[k].at + 2, EntrySize["p"]), e.parts[k].at + 1)
    BY <1>5, <1>7 DEF IsSpecial, Sized
  <2>2. EntrySize["p"] = 7 /\ e.parts[k].at + 1 = pos /\ e.parts[k].at + 2 = pos + 1
        /\ e.parts[k].at + (2 + 7) = pos + 8
    <3>1. EntrySize["p"] = 7
      BY DEF EntrySize
    <3> QED
      BY <1>4, <1>5, <1>6, <3>1
  <2> QED
    BY <2>1, <2>2
<1> HIDE DEF w
<1>9. CASE pos + 8 - 1 <= Len(Content)
  <2>1. err' = FALSE /\ pos' = pos + 8
    BY <1>1, <1>9, ReadEnds
  <2>2. val = w
    <3>1. pos + 1 + 7 - 1 <= Len(Content)
      BY <1>6, <1>9
    <3> QED
      BY <3>1, NumbersAre DEF w
  <2>3. f.do = "entries" /\ f.n = 0 /\ f.fmt = "p" /\ f.last = val /\ f.at = pos
    <3>1. f.do = Top.do /\ f.n = Top.n - 1 /\ f.fmt = Top.fmt /\ f.last = val /\ f.at = pos
      BY <1>2, LastFields
    <3> HIDE DEF f
    <3> QED
      BY <1>2, <1>4, <3>1
  <2>4. val # <<>>
    BY DEF Numbers
  <2> HIDE DEF f, val
  <2>5. Onto(8) \in Place /\ Onto(8).at = pos + 8 /\ Onto(8).cells = Len(out) /\ Stretch(e, Onto(8), m)
    BY <1>6, OntoType, StretchOnto
  <2>6. m.at = pos + 8 /\ m.cells = Len(out) + 1 /\ IsCell(e, m.cells, "p", w, pos, m.at)
    BY <1>5, <1>6, <1>8 DEF To, OneCell
  <2>7. FitsEntries(e, f, Onto(8), m)
    BY <2>2, <2>3, <2>4, <2>5, <2>6 DEF FitsEntries
  <2>8. Fits(e, f, Onto(8), m)
    BY <2>3, <2>7 DEF Fits
  <2> QED
    BY <1>1, <1>2, <1>3, <2>1, <2>8, PassOne DEF Idle
<1>10. CASE ~(pos + 8 - 1 <= Len(Content))
  <2>1. err' = TRUE
    BY <1>1, <1>10, ReadEnds
  <2>2. Reach(e, e.parts[k].end, Len(out))
    BY <1>5, <1>6, <1>8, ReachEnd
  <2>3. e.parts[k].end - 1 > Len(Content)
    BY <1>6, <1>8, <1>10
  <2> QED
    BY <1>1, <2>1, <2>2, <2>3, Failing DEF Idle, shown
<1> QED
  BY <1>9, <1>10

\* An entry of another list is shown.
LEMMA OtherEntryFollow ==
  ASSUME NEW e, Ready(e), Aligned(e), Entry, Top.fmt # "p"
  PROVE  Follows(e)'
<1> DEFINE size == EntrySize[Top.fmt]
           val == Numbers(1, size)
<1>1. /\ Doing("entries") /\ Top.n > 0 /\ Read(1 + size) /\ PrintCell(Top.fmt, val, pos)
      /\ Then(<<Fewer>>) /\ UNCHANGED outer /\ UNCHANGED port_link_flag
  BY DEF Entry
<1>2. todo # <<>> /\ Top \in Frame /\ Top.do = "entries" /\ Top.fmt \in {"u", "P", "a"} /\ Top.n \in Int
  BY <1>1, EntriesTop, TopReady DEF Listed
<1>3. PICK m, t : Bound(e, m, t) /\ FitsEntries(e, Top, Here, m)
  BY <1>1, EntriesTop
<1>4. /\ Stretch(e, Here, m)
      /\ \E ks \in Seq(Nat) :
           /\ Len(ks) = Top.n /\ All(e, ks, "entry") /\ Run(e, ks, Here, m)
           /\ \A j \in 1..Len(ks) : e.parts[ks[j]].fmt = Top.fmt
  BY <1>3 DEF FitsEntries
<1>5. PICK ks \in Seq(Nat) :
        /\ Len(ks) = Top.n /\ All(e, ks, "entry") /\ Run(e, ks, Here, m)
        /\ \A j \in 1..Len(ks) : e.parts[ks[j]].fmt = Top.fmt
  BY <1>4
<1>6. /\ e \in Encodings /\ pos \in Nat /\ Len(Content) \in Nat /\ Here.at = pos /\ Here.cells = Len(out)
      /\ Here \in Place /\ m \in Place /\ t \in Place /\ Finished(e, t) /\ Chain(e, Tail(todo), m, t)
      /\ Len(out) \in Nat
  BY <1>3, ReadyTypes DEF Bound
<1>7. ks # <<>>
  BY <1>1, <1>2, <1>5
<1>8. PICK u \in Place :
        /\ ks[1] \in 1..Len(e.parts) /\ 1 \in 1..Len(ks) /\ From(e, ks[1], Here) /\ To(e, ks[1], u)
        /\ Stretch(e, Here, u) /\ Stretch(e, u, m) /\ Run(e, Tail(ks), u, m)
        /\ Tail(ks) \in Seq(Nat) /\ Len(Tail(ks)) = Len(ks) - 1
        /\ \A k \in 1..Len(Tail(ks)) : Tail(ks)[k] = ks[k + 1] /\ k + 1 \in 1..Len(ks)
  BY <1>4, <1>5, <1>6, <1>7, FirstOfRun
<1> DEFINE p == e.parts[ks[1]]
           w == ValuesAt(e, pos + 1, size)
<1>9. p.at = pos /\ p.before = Len(out) /\ p.fmt = Top.fmt /\ p.end = u.at /\ p.upto = u.cells
  BY <1>5, <1>6, <1>8 DEF From, To
<1>10. IsEntry(e, p)
  BY <1>5, <1>6, <1>8, PartType DEF All, IsPart
<1>11. p.end = pos + (1 + size) /\ OneCell(e, p, Top.fmt, w, pos)
  BY <1>9, <1>10 DEF IsEntry, Sized
<1>12. size \in Nat /\ 1 + size \in Nat
  BY <1>2 DEF EntrySize
<1>13. Top.fmt # "l"
  BY <1>2
<1> HIDE DEF size, val, w, p
<1>14. CASE pos + (1 + size) - 1 <= Len(Content)
  <2>1. err' = FALSE /\ pos' = pos + (1 + size)
    BY <1>1, <1>12, <1>14, ReadEnds
  <2>2. val = w
    <3>1. pos + 1 + size - 1 <= Len(Content)
      BY <1>6, <1>12, <1>14
    <3> QED
      BY <1>12, <3>1, NumbersAre DEF val, w
  <2>3. u.cells = Len(out) + 1 /\ pos' = u.at /\ IsCell(e, u.cells, Top.fmt, val, pos, u.at)
    BY <1>9, <1>11, <2>1, <2>2 DEF OneCell
  <2>4. Fits(e, Fewer, u, m)
    <3>1. /\ Fewer.do = "entries" /\ Fewer.n = Top.n - 1 /\ Fewer.fmt = Top.fmt
      BY <1>2, FewerFields
    <3>2. All(e, Tail(ks), "entry") /\ \A j \in 1..Len(Tail(ks)) : e.parts[Tail(ks)[j]].fmt = Top.fmt
      BY <1>5, <1>8 DEF All
    <3>3. FitsEntries(e, Fewer, u, m)
      BY <1>2, <1>5, <1>8, <3>1, <3>2 DEF FitsEntries
    <3> QED
      BY <3>1, <3>3 DEF Fits
  <2>5. Chain(e, todo', u, t)
    BY <1>1, <1>2, <1>6, <2>4, RestType, ChainOne DEF Then
  <2> QED
    BY <1>1, <1>6, <1>8, <1>13, <2>1, <2>3, <2>5, CellPrinted
<1>15. CASE ~(pos + (1 + size) - 1 <= Len(Content))
  <2>1. err' = TRUE
    BY <1>1, <1>12, <1>15, ReadEnds
  <2>2. Reach(e, p.end, Len(out))
    BY <1>6, <1>8, <1>9, <1>11, ReachEnd DEF p
  <2>3. p.end - 1 > Len(Content)
    BY <1>6, <1>11, <1>12, <1>15
  <2>4. out' = out \/ \E c : out' = Append(out, c)
    BY <1>1 DEF PrintCell
  <2> QED
    BY <1>1, <2>1, <2>2, <2>3, <2>4, Failing
<1> QED
  BY <1>14, <1>15

LEMMA EntriesEndFollow == ASSUME NEW e, Ready(e), Aligned(e), EntriesEnd PROVE Follows(e)'
<1>1. Doing("entries") /\ Top.n = 0 /\ Then(<<>>) /\ UNCHANGED outer /\ UNCHANGED reader /\ UNCHANGED port_link_flag
  BY DEF EntriesEnd
<1>2. todo # <<>> /\ Top \in Frame
  BY <1>1, EntriesTop
<1>3. PICK m, t : Bound(e, m, t) /\ FitsEntries(e, Top, Here, m)
  BY <1>1, EntriesTop
<1>4. err' = FALSE /\ pos' = pos /\ pos' = pos + 0 /\ Here \in Place /\ Here.at = pos /\ Here.cells = Len(out)
      /\ m \in Place /\ t \in Place /\ Finished(e, t) /\ Chain(e, Tail(todo), m, t) /\ Onto(0) = Here
  BY <1>1, <1>3, HereTypes DEF reader, Ready, Bound
<1>5. CASE Top.fmt # "p"
  <2>1. /\ Stretch(e, Here, m)
        /\ \E ks \in Seq(Nat) : Len(ks) = 0 /\ Run(e, ks, Here, m)
    BY <1>1, <1>3, <1>5 DEF FitsEntries
  <2>2. PICK ks \in Seq(Nat) : Len(ks) = 0 /\ Run(e, ks, Here, m)
    BY <2>1
  <2>3. ks = <<>>
    BY <2>2
  <2>4. m.at = pos + 0 /\ m.cells = Len(out)
    BY <1>4, <2>2, <2>3 DEF Run
  <2>5. Onto(0) = m
    BY <1>4, <2>1, <2>4, SilentPart
  <2>6. UNCHANGED shown
    BY <1>5 DEF EntriesEnd
  <2>7. 0 \in Nat /\ Bound(e, m, t) /\ Then(<<>>) /\ UNCHANGED outer /\ UNCHANGED port_link_flag
    BY <1>1, <1>3
  <2> QED
    BY <1>2, <1>4, <2>5, <2>6, <2>7, PassNone
<1>6. CASE Top.fmt = "p"
  <2>1. /\ Top.last # <<>> /\ m.at = Here.at /\ m.cells = Here.cells + 1
        /\ IsCell(e, m.cells, "p", Top.last, Top.at, m.at) /\ Stretch(e, Here, m)
    BY <1>1, <1>3, <1>6 DEF FitsEntries
  <2>2. PrintCell("p", Top.last, Top.at)
    BY <1>6, <2>1 DEF EntriesEnd
  <2>3. todo' = Tail(todo)
    BY <1>1, <1>2, RestType DEF Then
  <2>4. Chain(e, todo', m, t) /\ m.cells = Len(out) + 1 /\ pos' = m.at
    BY <1>4, <2>1, <2>3
  <2> QED
    BY <1>1, <1>4, <2>1, <2>2, <2>4, CellPrinted
<1> QED
  BY <1>5, <1>6

-----------------------------------------------------------------------------
(* Every step. *)

\* The display of an answer begins.
LEMMA BeginAnswerFollow ==
  ASSUME BeginAnswer, NEW e \in Encodings PROVE Follows(e)'
<1>1. /\ todo' = <<Task("answer", 1)>> /\ pos' = 1 /\ err' = FALSE /\ line' = 0 /\ out' = <<>>
  BY DEF BeginAnswer
<1>2. Here'.at = 1 /\ Here'.cells = 0 /\ ~Here'.fresh
  <2>1. Unbroken' = FALSE /\ Len(out') = 0
    BY <1>1 DEF Unbroken
  <2>2. Here' = [at |-> 1, cells |-> 0, fresh |-> FALSE]
    BY <1>1, <2>1 DEF Here
  <2> QED
    BY <2>2
<1>3. Leads(e, todo', Here', [at |-> Len(e.bytes) + 1, cells |-> Len(e.meant), fresh |-> FALSE])
  BY <1>1, <1>2 DEF Leads
<1> DEFINE t == [at |-> Len(e.bytes) + 1, cells |-> Len(e.meant), fresh |-> FALSE]
<1>4. t \in Place /\ Finished(e, t)
  <2>1. Len(e.bytes) \in Nat /\ Len(e.meant) \in Nat
    BY EncodedType
  <2> QED
    BY <2>1 DEF Place, Finished
<1>5. ShownSoFar(e)'
  <2>1. Len(e.meant) \in Nat /\ Len(out') = 0
    BY <1>1, EncodedType
  <2> QED
    BY <2>1 DEF ShownSoFar
<1> HIDE DEF t
<1>6. Leads(e, todo', Here', t)
  BY <1>3 DEF t
<1>7. Aligned(e)'
  BY <1>4, <1>5, <1>6 DEF Aligned
<1> QED
  BY <1>1, <1>7 DEF Follows

LEMMA LayoutsFollow == ASSUME NEW e, Ready(e), Aligned(e), Layouts PROVE Follows(e)'
BY ProcessShowCmdsFollow, ElementsFollow, ListNamesFollow, NameFollow, RowFollow, CellOfTableFollow,
   CellOfSparseFollow, GroupFollow, BlockFollow, LineOfBlockFollow, AgainFollow, LoopEndsFollow,
   EndLineFollow DEF Layouts

LEMMA UnpackFollow == ASSUME NEW e, Ready(e), Aligned(e), UnpackByType PROVE Follows(e)'
BY ReadCellFollow, NumberFollow, StringFollow, ArrayFollow, MapFollow, OtherTypeFollow, ValueFollow,
   PairFollow DEF UnpackByType

LEMMA EntryFollow == ASSUME NEW e, Ready(e), Aligned(e), Entry PROVE Follows(e)'
BY PortsFollow, OtherEntryFollow

LEMMA FormatsFollow == ASSUME NEW e, Ready(e), Aligned(e), UnpackSpecVal PROVE Follows(e)'
BY GivenFollow, SlotModulePortFollow, NumbersFollow, CounterTypeFollow, IpFollow, TwoStringsFollow,
   CodesFollow, ListFollow, EntryFollow, EntriesEndFollow, UnknownFormatFollow DEF UnpackSpecVal

\* An error stays, and what is printed stays printed.
Kept ==
  UNCHANGED outer /\ (err => err' = TRUE) /\ (out' = out \/ \E c : out' = Append(out, c))

LEMMA ReadFails == ASSUME err = TRUE, NEW n, Read(n) PROVE err' = TRUE
BY DEF Read, Readable

LEMMA ExpectFails == ASSUME err = TRUE, NEW types, Expect(types) PROVE err' = TRUE
BY DEF Expect

LEMMA ShowsOne == ASSUME NEW val, NEW at, Shows(val, at) PROVE \E c : out' = Append(out, c)
BY DEF Shows, PrintCell

LEMMA LayoutsKeep == ASSUME err \in BOOLEAN, Layouts PROVE Kept
<1>1. UNCHANGED outer /\ out' = out
  BY DEF Layouts, ProcessShowCmds, Elements, ListNames, Name, Row, CellOfTable, CellOfSparse,
         Group, Block, LineOfBlock, Again, LoopEnds, EndLine, shown
<1>2. ASSUME err = TRUE PROVE err' = TRUE
  <2>1. CASE ProcessShowCmds \/ ListNames \/ Group \/ Block
    BY <1>2, <2>1, ExpectFails DEF ProcessShowCmds, ListNames, Group, Block
  <2>2. CASE Row \/ CellOfSparse \/ LineOfBlock
    BY <1>2, <2>2, ReadFails DEF Row, CellOfSparse, LineOfBlock
  <2>3. CASE Elements \/ CellOfTable \/ Again \/ LoopEnds \/ EndLine
    BY <1>2, <2>3 DEF Elements, CellOfTable, Again, LoopEnds, EndLine, reader
  <2>4. CASE Name
    BY <1>2, <2>4 DEF Name
  <2> QED
    BY <2>1, <2>2, <2>3, <2>4 DEF Layouts
<1> QED
  BY <1>1, <1>2 DEF Kept

LEMMA UnpackKeep == ASSUME err \in BOOLEAN, UnpackByType PROVE Kept
<1>1. UNCHANGED outer /\ (out' = out \/ \E c : out' = Append(out, c))
  BY DEF UnpackByType, ReadCell, Number, String, Array, Map, OtherType, Value, Pair, shown, PrintCell
<1>2. ASSUME err = TRUE PROVE err' = TRUE
  <2>1. CASE ReadCell \/ String \/ Pair
    BY <1>2, <2>1, ReadFails DEF ReadCell, String, Pair
  <2>2. CASE Number \/ Array \/ Map \/ OtherType \/ Value
    BY <1>2, <2>2 DEF Number, Array, Map, OtherType, Value, reader
  <2> QED
    BY <2>1, <2>2 DEF UnpackByType
<1> QED
  BY <1>1, <1>2 DEF Kept

LEMMA FormatsKeep == ASSUME err \in BOOLEAN, UnpackSpecVal PROVE Kept
<1>1. CASE Link \/ Switch \/ Speed \/ Duplex
  BY <1>1, ShowsOne DEF Link, Switch, Speed, Duplex, Kept, reader
<1>2. ASSUME NEW n, NEW val, Takes(n, val) PROVE Kept
  BY <1>2, ShowsOne, ReadFails DEF Takes, Kept
<1>3. ASSUME NEW n, Read(n), UNCHANGED outer, UNCHANGED shown PROVE Kept
  BY <1>3, ReadFails DEF Kept, shown
<1>4. ASSUME NEW n \in Nat, Checked(n) PROVE Kept
  <2>1. ASSUME err = TRUE PROVE err' = TRUE
    <3>1. Ahead(0) # Byte("array", n)
      BY <2>1 DEF Ahead, Nil, Byte
    <3> QED
      BY <1>4, <3>1 DEF Checked
  <2>2. UNCHANGED outer /\ \E c : out' = Append(out, c)
    BY <1>4, ShowsOne DEF Checked
  <2> QED
    BY <2>1, <2>2 DEF Kept
<1>5. CASE SlotModulePort \/ CounterType \/ Ip \/ Ipv6 \/ Mac
  <2>1. CASE SlotModulePort
    BY <1>2, <1>3, <2>1 DEF SlotModulePort
  <2>2. CASE CounterType
    BY <1>2, <1>3, <2>2 DEF CounterType
  <2>3. CASE Ip \/ Ipv6 \/ Mac
    BY <1>2, <2>3 DEF Ip, Ipv6, Mac, TwoStrings
  <2> QED
    BY <1>5, <2>1, <2>2, <2>3
<1>6. CASE Uptime \/ OutVlan
  BY <1>4, <1>6 DEF Uptime, OutVlan
<1>7. CASE PlatformOrBoard \/ Balance \/ VlanTag \/ ActionOrForward \/ OmSwitchOver \/ BoardStatus
  BY <1>2, <1>7 DEF PlatformOrBoard, Balance, VlanTag, ActionOrForward, OmSwitchOver, BoardStatus, CodeOf
<1>8. CASE InportsOutports \/ UserData \/ PowerOrFan
  BY <1>3, <1>8 DEF InportsOutports, UserData, PowerOrFan, ListOf
<1>9. CASE Entry
  <2>1. ASSUME err = TRUE PROVE err' = TRUE
    BY <1>9, <2>1, ReadFails DEF Entry
  <2>2. UNCHANGED outer /\ (out' = out \/ \E c : out' = Append(out, c))
    BY <1>9 DEF Entry, shown, PrintCell
  <2> QED
    BY <2>1, <2>2 DEF Kept
<1>10. CASE EntriesEnd \/ UnknownFormat
  BY <1>10 DEF EntriesEnd, UnknownFormat, Kept, reader, shown, PrintCell
<1> QED
  BY <1>1, <1>5, <1>6, <1>7, <1>8, <1>9, <1>10 DEF UnpackSpecVal

\* After an error nothing is owed that has not been shown.
LEMMA AfterError ==
  ASSUME DisplayInv, showing, err = TRUE, Kept, NEW e, Arrived(Head(res), e)
  PROVE  Follows(e)'
<1>1. res' = res /\ err' = TRUE
  BY DEF Kept, outer
<1>2. out \in Seq(Printed) /\ Len(out) \in Nat
  BY DEF DisplayInv
<1>3. Len(out') \in Nat /\ Len(out) <= Len(out') /\ \A k \in 1..Len(out) : out'[k] = out[k]
  BY <1>2 DEF Kept
<1>4. Arrived(Head(res), e)'
  <2>1. ~Head(res).whole
    BY DEF Arrived
  <2>2. ASSUME NEW k \in 1..Len(e.meant), e.meant[k].end <= Len(Head(res).content)
        PROVE  k <= Len(out') /\ Told(out'[k]) = Told(e.meant[k])
    <3>1. k <= Len(out) /\ Told(out[k]) = Told(e.meant[k])
      BY <2>2 DEF Arrived
    <3>2. k \in 1..Len(out) /\ k \in Nat
      BY <1>2, <3>1
    <3> QED
      BY <1>2, <1>3, <3>1, <3>2
  <2> QED
    BY <1>1, <2>1, <2>2 DEF Arrived
<1> QED
  BY <1>1, <1>4 DEF Follows

\* Every answer that is still to be shown comes from an encoding or promises nothing.
Known == \A k \in 1 .. Len(res) : Unknown(res[k]) \/ \E e \in Encodings : Carries(res[k], e)

LEMMA KnownHead ==
  ASSUME DisplayInv, Known, res # <<>>
  PROVE  Unknown(Head(res)) \/ \E e \in Encodings : Carries(Head(res), e)
<1>1. 1 \in 1..Len(res) /\ Head(res) = res[1]
  BY DEF DisplayInv
<1> QED
  BY <1>1 DEF Known

LEMMA InitKnown == Init => Known
BY EncodingAssumption DEF Init, Known

LEMMA StepKnown == DisplayInv /\ Known /\ [Next]_vars => Known'
<1> SUFFICES ASSUME DisplayInv, Known, [Next]_vars PROVE Known'
  OBVIOUS
<1>1. res \in Seq(Reply) /\ err \in BOOLEAN
  BY DEF DisplayInv
<1>2. CASE res' = res
  BY <1>2 DEF Known
<1>3. CASE res # <<>> /\ res' = Tail(res)
  <2>1. \A k \in 1..Len(res') : k + 1 \in 1..Len(res) /\ res'[k] = res[k + 1]
    BY <1>1, <1>3
  <2> QED
    BY <2>1 DEF Known
<1>4. CASE res' = <<>>
  BY <1>4 DEF Known
<1>5. CASE Layouts \/ UnpackByType \/ UnpackSpecVal
  BY <1>1, <1>2, <1>5, LayoutsKeep, UnpackKeep, FormatsKeep DEF Kept, outer
<1>6. CASE EndAnswer
  BY <1>3, <1>6 DEF EndAnswer, DisplayInv, Placed
<1>7. CASE BeginAnswer \/ SetOk \/ Refused \/ UNCHANGED vars
  BY <1>2, <1>3, <1>4, <1>7 DEF BeginAnswer, SetOk, Refused, vars
<1> QED
  BY <1>5, <1>6, <1>7 DEF Next

LEMMA InitFollowing == Init => Following
BY DEF Init, Following

LEMMA FollowingStep == DisplayInv /\ Following /\ [Next]_vars => Following'
<1> SUFFICES ASSUME DisplayInv, Following, [Next]_vars PROVE Following'
  OBVIOUS
<1>1. err \in BOOLEAN
  BY DEF DisplayInv
<1> DEFINE Reading == Layouts \/ UnpackByType \/ UnpackSpecVal
<1>2. ASSUME Reading PROVE Kept
  BY <1>1, <1>2, LayoutsKeep, UnpackKeep, FormatsKeep
<1>3. ASSUME Reading, showing, NEW e \in Encodings, Carries(Head(res), e) PROVE Follows(e)'
  <2>1. Follows(e)
    BY <1>3 DEF Following
  <2>2. CASE err = TRUE
    <3>1. Arrived(Head(res), e)
      BY <2>1, <2>2 DEF Follows
    <3> QED
      BY <1>2, <1>3, <2>2, <3>1, AfterError
  <2>3. CASE err = FALSE
    <3>1. Aligned(e)
      BY <2>1, <2>3 DEF Follows
    <3>2. Ready(e)
      BY <1>3, <2>3, <3>1 DEF Ready, Aligned
    <3> QED
      BY <1>3, <3>1, <3>2, LayoutsFollow, UnpackFollow, FormatsFollow
  <2> QED
    BY <1>1, <2>2, <2>3
<1>4. CASE Reading
  <2>1. res' = res /\ showing' = showing
    BY <1>2, <1>4 DEF Kept, outer
  <2>2. ASSUME showing', NEW e \in Encodings, Carries(Head(res), e)' PROVE Follows(e)'
    <3>1. showing /\ Carries(Head(res), e)
      BY <2>1, <2>2
    <3> QED
      BY <1>3, <1>4, <3>1
  <2> QED
    BY <2>2 DEF Following
<1>5. CASE BeginAnswer
  BY <1>5, BeginAnswerFollow DEF Following
<1>6. CASE SetOk \/ Refused \/ EndAnswer
  BY <1>6 DEF SetOk, Refused, EndAnswer, Following
<1>7. CASE UNCHANGED vars
  <2>1. /\ res' = res /\ showing' = showing /\ pos' = pos /\ err' = err /\ todo' = todo
        /\ port_link_flag' = port_link_flag /\ line' = line /\ out' = out
    BY <1>7 DEF vars
  <2>2. \A e : Follows(e)' <=> Follows(e)
    BY <2>1 DEF Follows, Arrived, Aligned, ShownSoFar, Here, Unbroken
  <2> QED
    BY <2>1, <2>2 DEF Following
<1> QED
  BY <1>4, <1>5, <1>6, <1>7 DEF Next

-----------------------------------------------------------------------------
(* What follows. *)

\* When nothing is left to do, all is read and all is printed.
LEMMA NothingLeft ==
  ASSUME DisplayInv, NEW e \in Encodings, Aligned(e), todo = <<>>
  PROVE  pos = Len(e.bytes) + 1 /\ Len(out) = Len(e.meant)
<1>1. PICK t \in Place : Finished(e, t) /\ Leads(e, todo, Here, t)
  BY DEF Aligned
<1>2. Chain(e, <<>>, Here, t)
  <2>1. ~ NamesToRows(e, todo, Here, t)
    BY DEF NamesToRows
  <2>2. todo # <<Task("answer", 1)>>
    OBVIOUS
  <2> QED
    BY <1>1, <2>1, <2>2 DEF Leads
<1>3. Here = t
  BY <1>2, ChainEnd
<1> QED
  BY <1>1, <1>3 DEF Finished, Here

\* An answer of which all has arrived is read without an error.
LEMMA WholeIsAligned ==
  ASSUME DisplayInv, Known, Following, showing, Head(res).whole
  PROVE  \E e \in Encodings : Carries(Head(res), e) /\ err = FALSE /\ Aligned(e)
<1>1. res # <<>>
  BY DEF DisplayInv, Placed
<1>2. PICK e \in Encodings : Carries(Head(res), e)
  BY <1>1, KnownHead DEF Unknown
<1>3. Follows(e)
  BY <1>2 DEF Following
<1>4. err = FALSE
  BY <1>3 DEF Follows, Arrived, DisplayInv
<1> QED
  BY <1>2, <1>3, <1>4 DEF Follows

LEMMA WholeShown == DisplayInv /\ Known /\ Following => ShowsWhatWasSent
<1> SUFFICES ASSUME DisplayInv, Known, Following, showing, Head(res).whole
             PROVE  /\ IsPrefix(Cells(out), Cells(Meant))
                    /\ todo = <<>> => Len(out) = Len(Meant) /\ ~err /\ pos = Len(Content) + 1
  BY DEF ShowsWhatWasSent
<1>1. PICK e \in Encodings : Carries(Head(res), e) /\ err = FALSE /\ Aligned(e)
  BY WholeIsAligned
<1>2. Meant = e.meant /\ Len(Content) = Len(e.bytes)
  BY <1>1 DEF Carries, Meant, Content
<1>3. IsPrefix(Cells(out), Cells(Meant))
  <2>1. out \in Seq(Printed) /\ e.meant \in Seq(Meaning) /\ Len(out) \in Nat /\ Len(e.meant) \in Nat
    BY EncodedType DEF DisplayInv
  <2>2. Len(out) <= Len(e.meant) /\ \A k \in 1..Len(out) : Told(out[k]) = Told(e.meant[k])
    BY <1>1 DEF Aligned, ShownSoFar
  <2> DEFINE Line == [fmt : Formats \cup {NoFormat}, val : Seq(Nat), at : Nat]
  <2>3. /\ Cells(out) = [k \in 1..Len(out) |-> Told(out[k])]
        /\ Cells(e.meant) = [k \in 1..Len(e.meant) |-> Told(e.meant[k])]
    BY <2>1 DEF Cells
  <2>4. /\ \A k \in 1..Len(out) : Told(out[k]) \in Line
        /\ \A k \in 1..Len(e.meant) : Told(e.meant[k]) \in Line
    <3>1. /\ \A k \in 1..Len(out) : out[k] \in Printed
          /\ \A k \in 1..Len(e.meant) : e.meant[k] \in Meaning
      BY <2>1
    <3> QED
      BY <3>1 DEF Told, Printed, Meaning
  <2> HIDE DEF Line
  <2>5. Cells(out) \in Seq(Line) /\ Cells(e.meant) \in Seq(Line)
        /\ Len(Cells(out)) = Len(out) /\ Len(Cells(e.meant)) = Len(e.meant)
    BY <2>1, <2>3, <2>4
  <2>6. \A k \in 1..Len(out) : Cells(out)[k] = Cells(e.meant)[k]
    BY <2>1, <2>2, <2>3
  <2>7. SubSeq(Cells(out), 1, Len(Cells(out))) = SubSeq(Cells(e.meant), 1, Len(Cells(out)))
    BY <2>1, <2>2, <2>5, <2>6
  <2> QED
    BY <1>2, <2>2, <2>5, <2>7 DEF IsPrefix
<1>4. ASSUME todo = <<>> PROVE Len(out) = Len(Meant) /\ ~err /\ pos = Len(Content) + 1
  BY <1>1, <1>2, <1>4, NothingLeft
<1> QED
  BY <1>3, <1>4

LEMMA LinesKept == DisplayInv /\ Known /\ Following => RowsKeepTheirLines
<1> SUFFICES ASSUME DisplayInv, Known, Following, AtEnd, Head(res).whole, NEW k \in 2..Len(out)
             PROVE  out[k - 1].line = out[k].line <=> Meant[k - 1].row = Meant[k].row
  BY DEF RowsKeepTheirLines
<1>1. PICK e \in Encodings : Carries(Head(res), e) /\ err = FALSE /\ Aligned(e)
  BY WholeIsAligned DEF AtEnd
<1>2. Meant = e.meant
  BY <1>1 DEF Carries, Meant
<1> QED
  BY <1>1, <1>2 DEF Aligned, ShownSoFar, NewRow

LEMMA ArrivedShown == DisplayInv /\ Known /\ Following => ArrivedIsShown
<1> SUFFICES ASSUME DisplayInv, Known, Following, showing, todo = <<>>, NEW k \in DOMAIN Meant,
                    Meant[k].end <= Len(Content)
             PROVE  k \in DOMAIN out /\ Told(out[k]) = Told(Meant[k])
  BY DEF ArrivedIsShown, AtEnd
<1>1. res # <<>>
  BY DEF DisplayInv, Placed
<1>2. PICK e \in Encodings : Carries(Head(res), e)
  BY <1>1, KnownHead DEF Unknown, Meant
<1>3. Follows(e) /\ Meant = e.meant
  BY <1>2 DEF Following, Carries, Meant
<1>4. /\ out \in Seq(Printed) /\ Len(out) \in Nat /\ DOMAIN out = 1..Len(out)
      /\ e.meant \in Seq(Meaning) /\ Len(e.meant) \in Nat /\ k \in 1..Len(e.meant)
  BY <1>3, EncodedType DEF DisplayInv
<1>5. k <= Len(out) /\ Told(out[k]) = Told(e.meant[k])
  <2>1. CASE err
    BY <1>3, <1>4, <2>1 DEF Follows, Arrived, Content
  <2>2. CASE ~err
    <3>1. Aligned(e)
      BY <1>3, <2>2 DEF Follows
    <3>2. Len(out) = Len(e.meant)
      BY <3>1, NothingLeft
    <3> QED
      BY <1>4, <3>1, <3>2 DEF Aligned, ShownSoFar
  <2> QED
    BY <2>1, <2>2
<1> QED
  BY <1>3, <1>4, <1>5

\* Of every encoded answer, however long, process_show_cmds prints the cells as the
\* device meant them, and all of them when it is done.
THEOREM ShowingWhatWasSent == Spec => []ShowsWhatWasSent
<1>1. Init => DisplayInv /\ Known /\ Following
  BY InitDisplay, InitKnown, InitFollowing
<1>2. (DisplayInv /\ Known /\ Following) /\ [Next]_vars => (DisplayInv /\ Known /\ Following)'
  BY StepDisplay, StepKnown, FollowingStep
<1>3. DisplayInv /\ Known /\ Following => ShowsWhatWasSent
  BY WholeShown
<1> QED
  BY <1>1, <1>2, <1>3, PTL DEF Spec

\* Of every encoded answer, neighbouring cells come out on one line exactly when
\* they belong to one row.
THEOREM ShowingRows == Spec => []RowsKeepTheirLines
<1>1. Init => DisplayInv /\ Known /\ Following
  BY InitDisplay, InitKnown, InitFollowing
<1>2. (DisplayInv /\ Known /\ Following) /\ [Next]_vars => (DisplayInv /\ Known /\ Following)'
  BY StepDisplay, StepKnown, FollowingStep
<1>3. DisplayInv /\ Known /\ Following => RowsKeepTheirLines
  BY LinesKept
<1> QED
  BY <1>1, <1>2, <1>3, PTL DEF Spec

\* Wherever an encoded answer is cut off, the cells in front of the cut are printed
\* as they were meant.
THEOREM ShowingArrived == Spec => []ArrivedIsShown
<1>1. Init => DisplayInv /\ Known /\ Following
  BY InitDisplay, InitKnown, InitFollowing
<1>2. (DisplayInv /\ Known /\ Following) /\ [Next]_vars => (DisplayInv /\ Known /\ Following)'
  BY StepDisplay, StepKnown, FollowingStep
<1>3. DisplayInv /\ Known /\ Following => ArrivedIsShown
  BY ArrivedShown
<1> QED
  BY <1>1, <1>2, <1>3, PTL DEF Spec

-----------------------------------------------------------------------------
(* Nothing made up.  A format that is given its number gets one that was    *)
(* sent, unless the answer is laid out as a sparse list.                    *)

\* A frame that has the place of the number it hands to such a format.
HasPlace(f) ==
  /\ f.do # "answer" /\ f.style # "sparse"
  /\ f.do \in {"unpack", "again"} => f.at # 0
  /\ f.do = "special" /\ f.fmt \in GivenOnes => f.at # 0
\* No frame and no cell is without the place of its number.
AllHavePlace(s) == \A k \in 1 .. Len(s) : HasPlace(s[k])
CellsHavePlace == \A k \in DOMAIN out : out[k].fmt \in GivenOnes => out[k].at # 0

\* The layouts that do not go by keys; only the answer itself has no place yet.
Columned == Len(Content) >= 2 /\ Content[2].v # HeadType.sparse
PlacesInv ==
  showing /\ Columned =>
    /\ CellsHavePlace
    /\ AllHavePlace(todo) \/ (todo = <<Task("answer", 1)>> /\ pos = 1)

LEMMA NotGiven == GivenOnes \subseteq Formats /\ NoFormat \notin GivenOnes /\ "p" \notin GivenOnes
                  /\ SelfReading \cap GivenOnes = {}
<1>1. GivenOnes \subseteq Formats /\ "p" \notin GivenOnes
  BY NamedFormats DEF GivenOnes
<1> QED
  BY <1>1, NotAFormat DEF SelfReading

\* The state in front of a step that finds a frame on top.
Placing == /\ DisplayInv /\ showing /\ Columned /\ CellsHavePlace /\ AllHavePlace(todo)
           /\ todo # <<>> /\ UNCHANGED outer

\* A cell that is printed, or none.
Prints == \/ UNCHANGED out
          \/ \E fmt, val, at : PrintCell(fmt, val, at) /\ (fmt \in GivenOnes => at # 0)

LEMMA PrintsPlaced == ASSUME DisplayInv, CellsHavePlace, Prints PROVE CellsHavePlace'
<1>1. out \in Seq(Printed) /\ Len(out) \in Nat
  BY DEF DisplayInv
<1>2. CASE UNCHANGED out
  BY <1>2 DEF CellsHavePlace
<1>3. ASSUME NEW fmt, NEW val, NEW at, PrintCell(fmt, val, at), fmt \in GivenOnes => at # 0
      PROVE  CellsHavePlace'
  <2> DEFINE cell == [fmt |-> fmt, val |-> val, at |-> at, line |-> line]
             S == Printed \cup {cell}
  <2>1. cell.fmt = fmt /\ cell.at = at
    OBVIOUS
  <2>2. out' = Append(out, cell) /\ out \in Seq(S) /\ cell \in S
    BY <1>1, <1>3 DEF PrintCell
  <2> HIDE DEF cell, S
  <2>3. DOMAIN out' = 1..Len(out) + 1 /\ out'[Len(out) + 1] = cell
        /\ \A k \in 1..Len(out) : out'[k] = out[k] /\ k \in DOMAIN out
    BY <1>1, <2>2
  <2> QED
    BY <1>1, <1>3, <2>1, <2>3 DEF CellsHavePlace
<1> QED
  BY <1>2, <1>3 DEF Prints

\* Tasks that have their places are put on the stack.
LEMMA PutPlaces ==
  ASSUME DisplayInv, todo # <<>>, AllHavePlace(Tail(todo)), NEW S, NEW s \in Seq(S), AllHavePlace(s),
         Then(s)
  PROVE  AllHavePlace(todo')
<1> DEFINE r == Tail(todo)
           U == S \cup Frame
<1>1. r \in Seq(Frame)
  BY DEF DisplayInv, Stacked
<1>2. s \in Seq(U) /\ r \in Seq(U) /\ todo' = s \o r /\ AllHavePlace(r)
  BY <1>1 DEF Then
<1> HIDE DEF r, U
<1>3. /\ Len(s) \in Nat /\ Len(r) \in Nat /\ Len(s \o r) = Len(s) + Len(r)
      /\ \A k \in 1..Len(s \o r) : (s \o r)[k] = IF k <= Len(s) THEN s[k] ELSE r[k - Len(s)]
  BY <1>2, ConcatProperties
<1>4. ASSUME NEW k \in 1..Len(s \o r) PROVE HasPlace((s \o r)[k])
  <2>1. CASE k <= Len(s)
    <3>1. k \in 1..Len(s) /\ (s \o r)[k] = s[k]
      BY <1>3, <2>1
    <3> QED
      BY <3>1 DEF AllHavePlace
  <2>2. CASE ~(k <= Len(s))
    <3>1. k - Len(s) \in 1..Len(r) /\ (s \o r)[k] = r[k - Len(s)]
      BY <1>3, <2>2
    <3> QED
      BY <1>2, <3>1 DEF AllHavePlace
  <2> QED
    BY <2>1, <2>2
<1> QED
  BY <1>2, <1>4 DEF AllHavePlace

LEMMA RestPlaces ==
  ASSUME DisplayInv, todo # <<>>, AllHavePlace(todo)
  PROVE  AllHavePlace(Tail(todo)) /\ HasPlace(Top)
<1>1. todo \in Seq(Frame)
  BY DEF DisplayInv, Stacked
<1>2. 1 \in 1..Len(todo) /\ Top = todo[1]
      /\ \A k \in 1..Len(Tail(todo)) : Tail(todo)[k] = todo[k + 1] /\ k + 1 \in 1..Len(todo)
  BY <1>1 DEF Top
<1> QED
  BY <1>2 DEF AllHavePlace

LEMMA PlacesStep ==
  ASSUME Placing, Prints, NEW S, NEW s \in Seq(S), AllHavePlace(s), Then(s)
  PROVE  PlacesInv'
<1>1. AllHavePlace(todo')
  BY RestPlaces, PutPlaces DEF Placing
<1>2. AllHavePlace(todo)'
  BY <1>1 DEF AllHavePlace
<1>3. CellsHavePlace'
  BY PrintsPlaced DEF Placing
<1> QED
  BY <1>2, <1>3 DEF PlacesInv

LEMMA PlacesNone == ASSUME Placing, Prints, Then(<<>>) PROVE PlacesInv'
<1>1. <<>> \in Seq({}) /\ AllHavePlace(<<>>)
  BY DEF AllHavePlace
<1> QED
  BY <1>1, PlacesStep

LEMMA PlacesOne == ASSUME Placing, Prints, NEW a, HasPlace(a), Then(<<a>>) PROVE PlacesInv'
<1> DEFINE s == <<a>>
<1>1. s \in Seq({a}) /\ AllHavePlace(s)
  BY DEF AllHavePlace
<1> QED
  BY <1>1, PlacesStep

LEMMA PlacesTwo ==
  ASSUME Placing, Prints, NEW a, NEW b, HasPlace(a), HasPlace(b), Then(<<a, b>>)
  PROVE  PlacesInv'
<1> DEFINE s == <<a, b>>
<1>1. s \in Seq({a, b}) /\ AllHavePlace(s)
  BY DEF AllHavePlace
<1> QED
  BY <1>1, PlacesStep

LEMMA PlacesThree ==
  ASSUME Placing, Prints, NEW a, NEW b, NEW c, HasPlace(a), HasPlace(b), HasPlace(c), Then(<<a, b, c>>)
  PROVE  PlacesInv'
<1> DEFINE s == <<a, b, c>>
<1>1. s \in Seq({a, b, c}) /\ AllHavePlace(s)
  BY DEF AllHavePlace
<1> QED
  BY <1>1, PlacesStep

LEMMA PlacesFive ==
  ASSUME Placing, Prints, NEW a, NEW b, NEW c, NEW d, NEW f, HasPlace(a), HasPlace(b), HasPlace(c),
         HasPlace(d), HasPlace(f), Then(<<a, b, c, d, f>>)
  PROVE  PlacesInv'
<1> DEFINE s == <<a, b, c, d, f>>
<1>1. s \in Seq({a, b, c, d, f}) /\ AllHavePlace(s)
  BY DEF AllHavePlace
<1> QED
  BY <1>1, PlacesStep

\* What the steps push.
LEMMA TaskPlace ==
  ASSUME NEW do, do \notin {"answer", "unpack", "again", "special"}, NEW n
  PROVE  HasPlace(Task(do, n))
BY DEF Task, HasPlace

LEMMA UsualPlaces ==
  /\ HasPlace(NewLine)
  /\ \A fmt : HasPlace(Cell(fmt))
  /\ \A n : HasPlace(List("table", n))
  /\ \A tag, fmt, at : at # 0 => HasPlace(Unpack(tag, fmt, at)) /\ HasPlace(ByFormat(fmt, tag, at))
  /\ \A tag, fmt, at : fmt \notin GivenOnes => HasPlace(ByFormat(fmt, tag, at))
BY DEF Task, HasPlace, NewLine, Cell, List, Unpack, ByFormat

\* The frame on top, and with it the one that counts what is left.
LEMMA TopPlace ==
  ASSUME Placing
  PROVE  /\ HasPlace(Top) /\ HasPlace(Fewer) /\ Top \in Frame /\ pos # 0 /\ Top.do # "answer"
         /\ Top.do \in {"unpack", "again"} => Top.at # 0
<1>1. HasPlace(Top) /\ pos \in 1..Len(Content) + 1 /\ Top \in Frame
  <2>1. todo \in Seq(Frame)
    BY DEF Placing, DisplayInv, Stacked
  <2> QED
    BY <2>1, RestPlaces DEF Placing, DisplayInv, Placed, Top
<1>2. HasPlace(Fewer)
  BY <1>1, FewerFields DEF HasPlace
<1>3. pos # 0
  BY <1>1
<1> QED
  BY <1>1, <1>2, <1>3 DEF HasPlace

LEMMA PlacesAtDo ==
  ASSUME NEW do, Doing(do), DisplayInv, PlacesInv, showing, Columned, do # "answer", UNCHANGED outer
  PROVE  Placing /\ Top.do = do
<1>1. todo # <<>> /\ Top.do = do
  BY DEF Doing, Top
<1>2. todo # <<Task("answer", 1)>>
  <2>1. Task("answer", 1).do = "answer" /\ Head(<<Task("answer", 1)>>) = Task("answer", 1)
    BY DEF Task
  <2> QED
    BY <1>1, <2>1 DEF Top
<1> QED
  BY <1>1, <1>2 DEF Placing, PlacesInv

LEMMA QuietPrints == ASSUME UNCHANGED shown PROVE Prints
BY DEF shown, Prints

LEMMA ShowCmdsPlaces ==
  ASSUME DisplayInv, PlacesInv, Columned, ProcessShowCmds
  PROVE  PlacesInv'
<1> DEFINE type == Expected(<<"array", "uint">>, 2)
           n == Expected(<<"array", "uint">>, 1)
<1>1. showing /\ todo # <<>> /\ Top.do = "answer" /\ UNCHANGED outer /\ UNCHANGED shown
      /\ Then(Layout(type, n))
  BY DEF ProcessShowCmds, Doing, Top
<1>2. CellsHavePlace /\ todo = <<Task("answer", 1)>> /\ pos = 1
  <2>1. ~AllHavePlace(todo)
    BY <1>1, RestPlaces DEF HasPlace
  <2> QED
    BY <1>1, <2>1 DEF PlacesInv
<1>3. type # HeadType.sparse
  <2>1. Ahead(1).v # HeadType.sparse
    <3>1. CASE err
      BY <3>1 DEF Ahead, Nil, Byte, HeadType
    <3>2. CASE ~err
      <4>1. Content \in Seq(Tag) /\ Len(Content) \in Nat
        BY <1>1, ContentType DEF DisplayInv, Placed
      <4>2. Ahead(1) = Content[2]
        BY <1>2, <3>2, <4>1 DEF Ahead, Columned
      <4> QED
        BY <4>2 DEF Columned
    <3> QED
      BY <3>1, <3>2
  <2>2. type = Ahead(1).v \/ type = 0
    BY DEF Expected
  <2> QED
    BY <2>1, <2>2 DEF HeadType
<1> HIDE DEF type, n
<1> DEFINE s == Layout(type, n)
<1>4. s = <<>> \/ \E f : HasPlace(f) /\ s = <<f>>
  BY <1>3, TaskPlace, UsualPlaces DEF Layout
<1>5. AllHavePlace(s) /\ \E S : s \in Seq(S)
  <2>1. CASE s = <<>>
    <3>1. <<>> \in Seq({})
      OBVIOUS
    <3> QED
      BY <2>1, <3>1 DEF AllHavePlace
  <2>2. CASE s # <<>>
    <3>1. PICK f : HasPlace(f) /\ s = <<f>>
      BY <1>4, <2>2
    <3>2. s \in Seq({f}) /\ Len(s) = 1 /\ s[1] = f
      BY <3>1
    <3>3. AllHavePlace(s)
      <4> HIDE DEF s
      <4> QED
        BY <3>1, <3>2 DEF AllHavePlace
    <3> QED
      BY <3>2, <3>3
  <2> QED
    BY <2>1, <2>2
<1>6. AllHavePlace(Tail(todo))
  BY <1>2 DEF AllHavePlace
<1>7. AllHavePlace(todo')
  BY <1>1, <1>5, <1>6, PutPlaces
<1>8. AllHavePlace(todo)' /\ CellsHavePlace'
  BY <1>1, <1>2, <1>7 DEF AllHavePlace, CellsHavePlace, shown
<1> QED
  BY <1>8 DEF PlacesInv

LEMMA NamePlaces == ASSUME Placing, Prints, Name PROVE PlacesInv'
<1> DEFINE fmt == FormatIn(Text(1, Expected(<<"str">>, 1)))
           rows == [todo[2] EXCEPT !.heads = Append(@, fmt)]
           tasks == <<Fewer, rows>>
           rest == SubSeq(todo, 3, Len(todo))
<1>1. todo' = tasks \o rest /\ Top.do = "names"
  BY DEF Name, Doing, Top
<1>2. todo \in Seq(Frame) /\ Len(todo) \in Nat /\ Len(todo) >= 2
  BY <1>1, TopFrame DEF Placing, DisplayInv, Stacked, Top
<1>3. todo[2] \in Frame /\ HasPlace(todo[2])
  BY <1>2 DEF Placing, AllHavePlace
<1>4. HasPlace(rows)
  BY <1>3 DEF HasPlace, Frame
<1>5. HasPlace(Fewer)
  BY TopPlace
<1> HIDE DEF rows
<1>6. rest \in Seq(Frame) /\ Len(rest) = Len(todo) - 2
      /\ \A k \in 1..Len(rest) : rest[k] = todo[k + 2] /\ k + 2 \in 1..Len(todo)
  <2>1. \A k \in 3..Len(todo) : todo[k] \in Frame
    BY <1>2
  <2>2. Len(rest) = Len(todo) - 2 /\ \A k \in 1..Len(rest) : rest[k] = todo[k + 2]
    BY <1>2, SMTT(30)
  <2>3. rest \in Seq(Frame)
    BY <1>2
  <2> QED
    BY <1>2, <2>2, <2>3
<1> HIDE DEF rest
<1>7. AllHavePlace(rest)
  BY <1>6 DEF AllHavePlace, Placing
<1> DEFINE U == Frame \cup {Fewer, rows}
<1>8. tasks \in Seq(U) /\ rest \in Seq(U) /\ Len(tasks) = 2 /\ tasks[1] = Fewer /\ tasks[2] = rows
  BY <1>6
<1> HIDE DEF tasks, U
<1>9. /\ Len(rest) \in Nat /\ Len(tasks \o rest) = 2 + Len(rest)
      /\ \A k \in 1..Len(tasks \o rest) :
           (tasks \o rest)[k] = IF k <= 2 THEN tasks[k] ELSE rest[k - 2]
  <2>1. /\ Len(tasks \o rest) = Len(tasks) + Len(rest)
        /\ \A k \in 1..Len(tasks) + Len(rest) :
             (tasks \o rest)[k] = IF k <= Len(tasks) THEN tasks[k] ELSE rest[k - Len(tasks)]
    BY <1>8, ConcatProperties
  <2>2. Len(rest) \in Nat
    BY <1>8
  <2> QED
    BY <1>8, <2>1, <2>2
<1>10. ASSUME NEW k \in 1..Len(tasks \o rest) PROVE HasPlace((tasks \o rest)[k])
  <2>1. CASE k = 1 \/ k = 2
    BY <1>4, <1>5, <1>8, <1>9, <2>1
  <2>2. CASE ~(k <= 2)
    <3>1. k - 2 \in 1..Len(rest) /\ (tasks \o rest)[k] = rest[k - 2]
      BY <1>9, <2>2
    <3> QED
      BY <1>7, <3>1 DEF AllHavePlace
  <2> QED
    BY <1>9, <2>1, <2>2
<1>11. AllHavePlace(todo)'
  BY <1>1, <1>10 DEF AllHavePlace
<1>12. CellsHavePlace'
  BY PrintsPlaced DEF Placing
<1> QED
  BY <1>11, <1>12 DEF PlacesInv

LEMMA LoopEndsPlaces ==
  ASSUME DisplayInv, PlacesInv, showing, Columned, LoopEnds
  PROVE  PlacesInv'
<1>1. todo # <<>> /\ Top.do # "answer" /\ UNCHANGED outer /\ Then(<<>>) /\ Prints
  BY QuietPrints DEF LoopEnds, Guarded, Counted, Top
<1>2. todo # <<Task("answer", 1)>>
  <2>1. Task("answer", 1).do = "answer" /\ Head(<<Task("answer", 1)>>) = Task("answer", 1)
    BY DEF Task
  <2> QED
    BY <1>1, <2>1 DEF Top
<1>3. Placing
  BY <1>1, <1>2 DEF Placing, PlacesInv
<1> QED
  BY <1>1, <1>3, PlacesNone

\* The fields of a frame that is built on the one on top.
LEMMA RedonePlaces ==
  ASSUME Placing, NEW do, do \notin {"answer", "unpack", "again", "special"}, NEW n, NEW at
  PROVE  /\ HasPlace([Top EXCEPT !.do = do, !.n = n])
         /\ HasPlace([Top EXCEPT !.do = do, !.n = n, !.at = at])
BY TopPlace DEF HasPlace, Frame

LEMMA StyledPlaces ==
  ASSUME Placing, NEW do, do \notin {"answer", "unpack", "again", "special"}, NEW n
  PROVE  HasPlace([Task(do, n) EXCEPT !.style = Top.style])
<1>1. Top.style # "sparse"
  BY TopPlace DEF HasPlace
<1> QED
  BY <1>1 DEF Task, HasPlace

LEMMA ListNamesPlaces == ASSUME Placing, Prints, ListNames PROVE PlacesInv'
<1> DEFINE a == [Task("names", Expected(<<"array">>, 1)) EXCEPT !.style = Top.style]
           b == [Task("rows", Top.n) EXCEPT !.style = Top.style]
<1>1. HasPlace(a) /\ HasPlace(b) /\ HasPlace(NewLine)
  BY StyledPlaces, UsualPlaces
<1>2. Top.style # "sparse"
  BY TopPlace DEF HasPlace
<1>3. Then((IF Top.style = "sparse" THEN <<>> ELSE <<NewLine>>) \o <<a, b>>)
  BY DEF ListNames
<1> HIDE DEF a, b
<1>4. Then(<<NewLine, a, b>>)
  BY <1>2, <1>3, FirstOfThree
<1> QED
  BY <1>1, <1>4, PlacesThree

LEMMA LayoutsPlaces ==
  ASSUME DisplayInv, PlacesInv, Columned, showing, Layouts
  PROVE  PlacesInv'
<1>1. UNCHANGED outer /\ Prints
  <2>1. UNCHANGED out
    BY DEF Layouts, ProcessShowCmds, Elements, ListNames, Name, Row, CellOfTable, CellOfSparse,
           Group, Block, LineOfBlock, Again, LoopEnds, EndLine, shown
  <2> QED
    BY <2>1, LayoutsKeep DEF DisplayInv, Kept, Prints
<1>2. ASSUME NEW do, Doing(do), do # "answer" PROVE Placing /\ Top.do = do
  BY <1>1, <1>2, PlacesAtDo
<1>3. CASE Elements
  <2>1. Placing /\ Then(<<Cell(NoFormat), NewLine, Fewer>>)
    BY <1>2, <1>3 DEF Elements
  <2> QED
    BY <1>1, <2>1, PlacesThree, UsualPlaces, TopPlace
<1>4. CASE Row
  <2> DEFINE a == [Top EXCEPT !.do = "cells", !.n = Ahead(0).v]
  <2>1. Placing /\ Then(<<a, NewLine, Fewer>>)
    BY <1>2, <1>4 DEF Row
  <2>2. HasPlace(a)
    BY <2>1, RedonePlaces
  <2> HIDE DEF a
  <2> QED
    BY <1>1, <2>1, <2>2, PlacesThree, UsualPlaces, TopPlace
<1>5. CASE CellOfTable
  <2>1. PICK fmt : Then(<<Cell(fmt), [Fewer EXCEPT !.heads = IF @ = <<>> THEN @ ELSE Tail(@)]>>)
    BY <1>5 DEF CellOfTable
  <2> DEFINE a == [Fewer EXCEPT !.heads = IF @ = <<>> THEN @ ELSE Tail(@)]
  <2>2. Placing
    BY <1>2, <1>5 DEF CellOfTable
  <2>3. HasPlace(a)
    BY <2>2, TopPlace DEF HasPlace, Frame, Fewer
  <2>4. Then(<<Cell(fmt), a>>)
    BY <2>1
  <2> HIDE DEF a
  <2> QED
    BY <1>1, <2>2, <2>3, <2>4, PlacesTwo, UsualPlaces
<1>6. CASE CellOfSparse
  <2>1. Placing /\ Top.style = "sparse"
    BY <1>2, <1>6 DEF CellOfSparse
  <2> QED
    BY <2>1, TopPlace DEF HasPlace
<1>7. CASE Group
  <2> DEFINE b == List("table", Expected(<<"array">>, 1) - 2)
  <2>1. Placing /\ Then(<<Cell(NoFormat), b, Fewer>>)
    BY <1>2, <1>7 DEF Group
  <2>2. HasPlace(b)
    BY UsualPlaces
  <2> HIDE DEF b
  <2> QED
    BY <1>1, <2>1, <2>2, PlacesThree, UsualPlaces, TopPlace
<1>8. CASE Block
  <2> DEFINE b == Task("lines", Expected(<<"array">>, 1) - 1)
  <2>1. Placing /\ Then(<<Cell(NoFormat), NewLine, b, NewLine, Fewer>>)
    BY <1>2, <1>8 DEF Block
  <2>2. HasPlace(b)
    BY TaskPlace
  <2> HIDE DEF b
  <2> QED
    BY <1>1, <2>1, <2>2, PlacesFive, UsualPlaces, TopPlace
<1>9. CASE LineOfBlock
  <2> DEFINE a == [Task("again", Ahead(0).v) EXCEPT !.tag = Ahead(0), !.at = pos]
  <2>1. Placing /\ Then(<<a, NewLine, Fewer>>)
    BY <1>2, <1>9 DEF LineOfBlock
  <2>2. HasPlace(a)
    BY <2>1, TopPlace DEF HasPlace, Task
  <2> HIDE DEF a
  <2> QED
    BY <1>1, <2>1, <2>2, PlacesThree, UsualPlaces, TopPlace
<1>10. CASE Again
  <2> DEFINE a == Unpack(Top.tag, NoFormat, Top.at)
  <2>1. Placing /\ Top.do = "again" /\ Then(<<a, Fewer>>)
    BY <1>2, <1>10 DEF Again
  <2>2. HasPlace(a)
    BY <2>1, TopPlace, UsualPlaces
  <2> HIDE DEF a
  <2> QED
    BY <1>1, <2>1, <2>2, PlacesTwo, TopPlace
<1>11. CASE EndLine
  <2>1. Placing /\ Then(<<>>)
    BY <1>2, <1>11 DEF EndLine
  <2> QED
    BY <1>1, <2>1, PlacesNone
<1>12. CASE Name
  BY <1>1, <1>2, <1>12, NamePlaces DEF Name
<1>13. CASE ListNames
  BY <1>1, <1>2, <1>13, ListNamesPlaces DEF ListNames
<1> QED
  BY <1>3, <1>4, <1>5, <1>6, <1>7, <1>8, <1>9, <1>10, <1>11, <1>12, <1>13, ShowCmdsPlaces,
     LoopEndsPlaces DEF Layouts

LEMMA CellPrints ==
  ASSUME NEW fmt, NEW val, NEW at, fmt \in GivenOnes => at # 0, PrintCell(fmt, val, at)
  PROVE  Prints
BY DEF Prints

\* A key that has arrived never has a format that is given a number.
LEMMA KeyFormat ==
  ASSUME DisplayInv, Known, Following, Doing("pairs"), Top.n > 0, Ahead(0).t = "str"
  PROVE  FormatIn(Text(1, Ahead(0).v)) \notin GivenOnes
<1> DEFINE v == Ahead(0).v
<1>1. showing /\ res # <<>> /\ pos \in 1..Len(Content) + 1 /\ Content \in Seq(Tag)
      /\ todo # <<>> /\ Top.do = "pairs" /\ Len(Content) \in Nat /\ pos \in Nat
  BY ContentType DEF Doing, Top, DisplayInv, Placed
<1>2. ~err /\ pos <= Len(Content) /\ Ahead(0) = Content[pos]
  <2>1. Ahead(0) # Nil
    BY DEF Nil, Byte
  <2> QED
    BY <1>1, <2>1 DEF Ahead
<1>3. v \in Nat
  <2>1. pos \in 1..Len(Content)
    BY <1>1, <1>2
  <2>2. Content[pos] \in Tag
    BY <1>1, <2>1
  <2> QED
    BY <1>2, <2>2 DEF Tag
<1>4. FormatIn(<<>>) = NoFormat
  BY DEF FormatIn, SelectInSeq
<1> HIDE DEF v
<1>5. CASE ~Readable(1 + v)
  <2>1. Text(1, v) = <<>>
    BY <1>5 DEF Text
  <2> QED
    BY <1>4, <2>1, NotGiven DEF v
<1>6. CASE Readable(1 + v)
  <2>1. Text(1, v) = Numbers(1, v) /\ pos + v <= Len(Content)
    BY <1>1, <1>2, <1>3, <1>6 DEF Text, Readable
  <2>2. Numbers(1, v) = [j \in 1..v |-> Content[pos + j].v]
    <3>1. ASSUME NEW j \in 1..v PROVE Ahead(1 + j - 1).v = Content[pos + j].v
      <4>1. pos + (1 + j - 1) = pos + j /\ ~(pos + (1 + j - 1) > Len(Content))
        BY <1>1, <1>3, <2>1
      <4> QED
        BY <1>2, <4>1 DEF Ahead
    <3> QED
      BY <3>1 DEF Numbers
  <2>3. CASE Unknown(Head(res))
    <3>1. pos \in 1..Len(Content) /\ v \in 0..Len(Content) - pos
      BY <1>1, <1>2, <1>3, <2>1
    <3>2. FormatIn([j \in 1..v |-> Content[pos + j].v]) \notin GivenOnes
      BY <2>3, <3>1 DEF Unknown, Content
    <3> QED
      BY <2>1, <2>2, <3>2 DEF v
  <2>4. ASSUME NEW e \in Encodings, Carries(Head(res), e)
        PROVE  FormatIn(Text(1, v)) \notin GivenOnes
    <3>1. Aligned(e)
      BY <1>1, <1>2, <2>4 DEF Following, Follows
    <3>2. Ready(e)
      BY <1>1, <1>2, <2>4, <3>1 DEF Ready, Aligned, DisplayInv
    <3>3. PICK m, t : Bound(e, m, t) /\ Fits(e, Top, Here, m)
      BY <1>1, <3>1, <3>2, TopFits
    <3>4. Several(e, "pair", Top.n, Here, m)
      BY <1>1, <3>3 DEF Fits, FitsPairs
    <3>5. PICK ks \in Seq(Nat) : Len(ks) = Top.n /\ All(e, ks, "pair") /\ Run(e, ks, Here, m)
      BY <3>4 DEF Several
    <3>6. ks # <<>> /\ 1 \in 1..Len(ks)
      BY <3>5
    <3>7. /\ ks[1] \in 1..Len(e.parts) /\ e.parts[ks[1]].kind = "pair" /\ e.parts[ks[1]].at = pos
      BY <3>2, <3>5, <3>6, HereTypes DEF Run, All
    <3>8. IsPair(e, e.parts[ks[1]])
      BY <3>7, PartType DEF IsPart
    <3>9. Ahead(0) = e.bytes[pos]
      BY <1>1, <1>2, <3>2, ReadyTypes
    <3> DEFINE sent == FormatIn(ValuesAt(e, pos + 1, v))
    <3>10. sent = NoFormat \/ sent \in SelfReading
      BY <3>7, <3>8, <3>9 DEF IsPair, v
    <3>11. Numbers(1, v) = ValuesAt(e, pos + 1, v)
      <4>1. pos + 1 + v - 1 <= Len(Content)
        BY <1>1, <1>3, <2>1
      <4> QED
        BY <1>3, <3>2, <4>1, NumbersAre
    <3> QED
      BY <2>1, <3>10, <3>11, NotGiven
  <2> QED
    BY <1>1, <2>3, <2>4, KnownHead DEF v
<1> QED
  BY <1>5, <1>6

LEMMA UnpackPlaces ==
  ASSUME DisplayInv, Known, Following, PlacesInv, Columned, showing, UnpackByType
  PROVE  PlacesInv'
<1>1. UNCHANGED outer
  BY UnpackKeep DEF DisplayInv, Kept
<1>2. ASSUME NEW do, Doing(do), do # "answer" PROVE Placing /\ Top.do = do
  BY <1>1, <1>2, PlacesAtDo
<1>3. CASE ReadCell
  <2>1. Placing /\ Prints /\ Then(<<Unpack(Ahead(0), Top.fmt, pos)>>)
    BY <1>2, <1>3, QuietPrints DEF ReadCell
  <2>2. HasPlace(Unpack(Ahead(0), Top.fmt, pos))
    BY <2>1, TopPlace, UsualPlaces
  <2> QED
    BY <2>1, <2>2, PlacesOne
<1>4. CASE HasTask /\ (Number \/ String \/ Array \/ Map \/ OtherType)
  <2>1. Placing /\ Top.do = "unpack"
    BY <1>2, <1>4 DEF HasTask
  <2>2. Top.at # 0
    BY <2>1, TopPlace
  <2>3. \A tag : HasPlace(ByFormat(Top.fmt, tag, Top.at))
    BY <2>2, UsualPlaces
  <2>4. \A val : PrintCell(NoFormat, val, Top.at) => Prints
    BY <2>2, CellPrints
  <2>5. \A n : HasPlace(Task("values", n)) /\ HasPlace(Task("pairs", n))
    BY TaskPlace
  <2>6. \/ Prints /\ Then(<<>>)
        \/ \E a : HasPlace(a) /\ Prints /\ Then(<<a>>)
    <3>1. CASE Number
      BY <2>3, <2>4, <3>1, QuietPrints DEF Number
    <3>2. CASE String
      BY <2>3, <2>4, <3>2, QuietPrints DEF String
    <3>3. CASE Array
      <4>1. CASE Top.tag.v = 0
        BY <2>4, <3>3, <4>1 DEF Array
      <4>2. CASE Top.tag.v # 0
        <5>1. Prints /\ \/ Then(<<Task("values", Top.tag.v)>>)
                        \/ Then(<<ByFormat(Top.fmt, Nil, Top.at)>>)
          BY <3>3, <4>2, QuietPrints DEF Array
        <5> QED
          BY <2>3, <2>5, <5>1
      <4> QED
        BY <4>1, <4>2
    <3>4. CASE Map
      BY <2>5, <3>4, QuietPrints DEF Map
    <3>5. CASE OtherType
      BY <3>5, QuietPrints DEF OtherType
    <3> QED
      BY <1>4, <3>1, <3>2, <3>3, <3>4, <3>5
  <2> QED
    BY <2>1, <2>6, PlacesNone, PlacesOne
<1>5. CASE Value
  <2>1. Placing /\ Prints /\ Then(<<Cell(NoFormat), Fewer>>)
    BY <1>2, <1>5, QuietPrints DEF Value
  <2> QED
    BY <2>1, PlacesTwo, UsualPlaces, TopPlace
<1>6. CASE Pair
  <2> DEFINE fmt == FormatIn(Text(1, Ahead(0).v))
  <2>1. Placing /\ Prints /\ Doing("pairs") /\ Top.n > 0
        /\ IF Ahead(0).t # "str" THEN Then(<<Unpack(Ahead(0), NoFormat, pos), Cell(NoFormat), Fewer>>)
           ELSE Then(<<IF fmt = NoFormat THEN Cell(NoFormat) ELSE ByFormat(fmt, Nil, 0), Fewer>>)
    BY <1>2, <1>6, QuietPrints DEF Pair
  <2>2. CASE Ahead(0).t # "str"
    <3>1. HasPlace(Unpack(Ahead(0), NoFormat, pos)) /\ HasPlace(Cell(NoFormat)) /\ HasPlace(Fewer)
      BY <2>1, UsualPlaces, TopPlace
    <3>2. Then(<<Unpack(Ahead(0), NoFormat, pos), Cell(NoFormat), Fewer>>)
      BY <2>1, <2>2
    <3> QED
      BY <2>1, <3>1, <3>2, PlacesThree
  <2>3. CASE Ahead(0).t = "str"
    <3> DEFINE a == IF fmt = NoFormat THEN Cell(NoFormat) ELSE ByFormat(fmt, Nil, 0)
    <3>1. fmt \notin GivenOnes
      BY <2>1, <2>3, KeyFormat
    <3> HIDE DEF fmt
    <3>2. HasPlace(a) /\ HasPlace(Fewer)
      BY <2>1, <3>1, UsualPlaces, TopPlace
    <3>3. Then(<<a, Fewer>>)
      BY <2>1, <2>3
    <3> HIDE DEF a
    <3> QED
      BY <2>1, <3>2, <3>3, PlacesTwo
  <2> QED
    BY <2>2, <2>3
<1>7. (Number \/ String \/ Array \/ Map \/ OtherType) => HasTask
  BY DEF Number, String, Array, Map, OtherType
<1> QED
  BY <1>3, <1>4, <1>5, <1>6, <1>7 DEF UnpackByType

\* What a format that reads for itself prints has the place that it is read from.
LEMMA ShowsPlaces ==
  ASSUME Placing, NEW val, Shows(val, pos)
  PROVE  PlacesInv'
<1>1. PrintCell(Top.fmt, val, pos) /\ Then(<<>>) /\ pos # 0
  BY TopPlace DEF Shows
<1> QED
  BY <1>1, CellPrints, PlacesNone

LEMMA FormatsPlaces ==
  ASSUME DisplayInv, PlacesInv, Columned, showing, UnpackSpecVal
  PROVE  PlacesInv'
<1>1. UNCHANGED outer
  BY FormatsKeep DEF DisplayInv, Kept
<1>2. ASSUME NEW do, Doing(do), do # "answer" PROVE Placing /\ Top.do = do
  BY <1>1, <1>2, PlacesAtDo
<1>3. ASSUME NEW fmts, Special(fmts) PROVE Placing /\ Top.do = "special" /\ Top.fmt \in fmts
  BY <1>2, <1>3 DEF Special
<1>4. CASE Link \/ Switch \/ Speed \/ Duplex
  <2>1. Special({"l"}) \/ Special({"o"}) \/ Special({"S"}) \/ Special({"d"})
    BY <1>4 DEF Link, Switch, Speed, Duplex
  <2>2. Placing /\ Top.do = "special" /\ Top.fmt \in GivenOnes
    BY <1>3, <2>1 DEF GivenOnes
  <2>3. Top.at # 0
    BY <2>2, TopPlace DEF HasPlace
  <2>4. \E val : PrintCell(Top.fmt, val, Top.at) /\ Then(<<>>)
    BY <1>4 DEF Link, Switch, Speed, Duplex, Shows
  <2> QED
    BY <2>2, <2>3, <2>4, CellPrints, PlacesNone
<1>5. ASSUME NEW fmts, Special(fmts), NEW n, NEW val, Takes(n, val) PROVE PlacesInv'
  BY <1>3, <1>5, ShowsPlaces DEF Takes
<1>6. ASSUME NEW fmts, Special(fmts), Then(<<>>), UNCHANGED shown PROVE PlacesInv'
  BY <1>3, <1>6, PlacesNone, QuietPrints
<1>7. CASE SlotModulePort \/ CounterType \/ Ip \/ Ipv6 \/ Mac \/ UnknownFormat
  <2>1. CASE SlotModulePort
    BY <1>5, <1>6, <2>1 DEF SlotModulePort
  <2>2. CASE CounterType
    BY <1>5, <1>6, <2>2 DEF CounterType
  <2>3. CASE Ip \/ Ipv6 \/ Mac
    BY <1>5, <2>3 DEF Ip, Ipv6, Mac, TwoStrings
  <2>4. CASE UnknownFormat
    BY <1>6, <2>4 DEF UnknownFormat
  <2> QED
    BY <1>7, <2>1, <2>2, <2>3, <2>4
<1>8. CASE Uptime \/ OutVlan
  <2>1. ASSUME NEW fmts, Special(fmts), NEW n, Checked(n) PROVE PlacesInv'
    BY <1>3, <2>1, ShowsPlaces DEF Checked
  <2> QED
    BY <1>8, <2>1 DEF Uptime, OutVlan
<1>9. CASE PlatformOrBoard \/ Balance \/ VlanTag \/ ActionOrForward \/ OmSwitchOver \/ BoardStatus
  BY <1>5, <1>9 DEF PlatformOrBoard, Balance, VlanTag, ActionOrForward, OmSwitchOver, BoardStatus, CodeOf
<1>10. CASE InportsOutports \/ UserData \/ PowerOrFan
  <2> DEFINE a == [Top EXCEPT !.do = "entries", !.n = Ahead(0).v, !.at = pos]
  <2>1. PICK fmts : ListOf(fmts)
    BY <1>10 DEF InportsOutports, UserData, PowerOrFan
  <2>2. Placing /\ Prints /\ Then(<<a>>)
    BY <1>3, <2>1, QuietPrints DEF ListOf
  <2>3. HasPlace(a)
    BY <2>2, RedonePlaces
  <2> HIDE DEF a
  <2> QED
    BY <2>2, <2>3, PlacesOne
<1>11. CASE Entry
  <2>1. Placing /\ Top.do = "entries"
    BY <1>2, <1>11 DEF Entry
  <2>2. pos # 0 /\ HasPlace(Fewer) /\ Top \in Frame /\ HasPlace(Top)
    BY <2>1, TopPlace
  <2>3. CASE Top.fmt = "p"
    <3> DEFINE val == Numbers(1, EntrySize[Top.fmt])
               a == [Fewer EXCEPT !.last = val, !.at = pos]
    <3>1. Prints /\ Then(<<a>>)
      BY <1>11, <2>3, QuietPrints DEF Entry
    <3> HIDE DEF val
    <3>2. HasPlace(a)
      BY <2>1, <2>2 DEF HasPlace, Frame, Fewer
    <3> HIDE DEF a
    <3> QED
      BY <2>1, <3>1, <3>2, PlacesOne
  <2>4. CASE Top.fmt # "p"
    <3>1. \E val : PrintCell(Top.fmt, val, pos) /\ Then(<<Fewer>>)
      BY <1>11, <2>4 DEF Entry
    <3> QED
      BY <2>1, <2>2, <3>1, CellPrints, PlacesOne
  <2> QED
    BY <2>3, <2>4
<1>12. CASE EntriesEnd
  <2>1. Placing /\ Then(<<>>)
    BY <1>2, <1>12 DEF EntriesEnd
  <2>2. UNCHANGED shown \/ \E val : PrintCell("p", val, Top.at)
    BY <1>12 DEF EntriesEnd
  <2> QED
    BY <2>1, <2>2, QuietPrints, CellPrints, NotGiven, PlacesNone
<1> QED
  BY <1>4, <1>7, <1>8, <1>9, <1>10, <1>11, <1>12 DEF UnpackSpecVal

LEMMA InitPlaces == Init => PlacesInv
BY DEF Init, PlacesInv

LEMMA StepPlaces ==
  DisplayInv /\ Known /\ Following /\ PlacesInv /\ [Next]_vars => PlacesInv'
<1> SUFFICES ASSUME DisplayInv, Known, Following, PlacesInv, [Next]_vars PROVE PlacesInv'
  OBVIOUS
<1>1. CASE Layouts \/ UnpackByType \/ UnpackSpecVal
  <2>1. UNCHANGED outer
    BY <1>1, LayoutsKeep, UnpackKeep, FormatsKeep DEF Kept, DisplayInv
  <2>2. CASE showing /\ Columned
    BY <1>1, <2>2, LayoutsPlaces, UnpackPlaces, FormatsPlaces
  <2>3. CASE ~(showing /\ Columned)
    BY <2>1, <2>3 DEF PlacesInv, Columned, Content, outer
  <2> QED
    BY <2>2, <2>3
<1>2. CASE BeginAnswer
  BY <1>2 DEF BeginAnswer, PlacesInv, CellsHavePlace
<1>3. CASE SetOk \/ Refused \/ EndAnswer
  BY <1>3 DEF SetOk, Refused, EndAnswer, PlacesInv
<1>4. CASE UNCHANGED vars
  BY <1>4 DEF vars, PlacesInv, Columned, Content, CellsHavePlace, AllHavePlace
<1> QED
  BY <1>1, <1>2, <1>3, <1>4 DEF Next

LEMMA PlacedIsSent == DisplayInv /\ OrderInv /\ PlacesInv => NothingMadeUp
<1> SUFFICES ASSUME DisplayInv, OrderInv, PlacesInv, showing, Columned, NEW k \in DOMAIN out,
                    out[k].at \notin 1..Len(Content)
             PROVE  out[k].fmt \in Formats \ GivenOnes
  BY DEF NothingMadeUp, Columned, GivenOnes
<1>1. Sent(out[k])
  BY DEF OrderInv, Printout
<1>2. out[k].fmt # NoFormat
  BY <1>1 DEF Sent
<1>3. out[k].fmt \in Formats \cup {NoFormat}
  BY PrintedType DEF Printed
<1>4. out[k].fmt \notin GivenOnes
  BY <1>1 DEF Sent, PlacesInv, CellsHavePlace, GivenOnes
<1> QED
  BY <1>2, <1>3, <1>4

\* Unless it is a sparse list, no answer gives a column or an element a number that
\* was not sent, be it the beginning of an encoding or bytes that promise nothing and
\* name none of the formats l, o, S and d: what is printed beyond its end was read as
\* zeros by a format that reads for itself.
THEOREM ShowingNothingMadeUp == Spec => []NothingMadeUp
<1> DEFINE Inv == DisplayInv /\ OrderInv /\ Known /\ Following /\ PlacesInv
<1>1. Init => Inv
  BY InitDisplay, InitOrder, InitKnown, InitFollowing, InitPlaces
<1>2. Inv /\ [Next]_vars => Inv'
  BY StepDisplay, StepOrder, StepKnown, FollowingStep, StepPlaces
<1>3. Inv => NothingMadeUp
  BY PlacedIsSent
<1> QED
  BY <1>1, <1>2, <1>3, PTL DEF Spec
=============================================================================
