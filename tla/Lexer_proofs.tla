----------------------------- MODULE Lexer_proofs -----------------------------
(***************************************************************************)
(* Proofs about keywords, words and tokens.  The first part is about the   *)
(* table of keywords: for every set of them the table lists them all, and  *)
(* find_token finds a keyword for a word exactly when the word is one or   *)
(* begins exactly one.  The second is about the lexer: for all words,      *)
(* masks and keywords, no token selects what its word does not name, and   *)
(* lists and abbreviations mean what they say.                             *)
(***************************************************************************)
EXTENDS Lexer, WordFacts

Spelling == Seq(Nat)

-----------------------------------------------------------------------------
(* The order of a dictionary. *)

\* One word precedes another if it ends or is smaller where they first differ.
LEMMA PrecedesIff ==
  ASSUME NEW a \in Spelling, NEW b \in Spelling
  PROVE  Precedes(a, b) <=>
           \/ Len(a) < Len(b) /\ \A j \in 1 .. Len(a) : a[j] = b[j]
           \/ \E i \in 1 .. Len(a) : i <= Len(b) /\ a[i] < b[i] /\ \A j \in 1 .. i - 1 : a[j] = b[j]
<1>1. /\ Len(a) \in Nat /\ Len(b) \in Nat /\ DOMAIN a = 1 .. Len(a) /\ DOMAIN b = 1 .. Len(b)
      /\ \A i \in 1 .. Len(a) : a[i] \in Nat
      /\ \A i \in 1 .. Len(b) : b[i] \in Nat
  BY DEF Spelling
<1>2. IsStrictPrefix(a, b) <=> Len(a) < Len(b) /\ \A j \in 1 .. Len(a) : a[j] = b[j]
  <2>1. IsPrefix(a, b) <=> Len(a) <= Len(b) /\ \A i \in 1 .. Len(a) : a[i] = b[i]
    BY PrefixIff DEF Spelling
  <2>2. Len(a) = Len(b) /\ (\A i \in 1 .. Len(a) : a[i] = b[i]) => a = b
    BY DEF Spelling
  <2>3. Len(a) \in Nat /\ Len(b) \in Nat
    BY <1>1
  <2>4. Len(a) < Len(b) <=> Len(a) # Len(b) /\ Len(a) <= Len(b)
    BY <2>3
  <2>5. a = b => Len(a) = Len(b)
    OBVIOUS
  <2> QED
    BY <2>1, <2>2, <2>4, <2>5, Zenon DEF IsStrictPrefix
<1>3. ASSUME NEW i \in 1 .. Len(a), i <= Len(b)
      PROVE  SubSeq(a, 1, i - 1) = SubSeq(b, 1, i - 1) <=> \A j \in 1 .. i - 1 : a[j] = b[j]
  <2> DEFINE s == SubSeq(a, 1, i - 1)
             t == SubSeq(b, 1, i - 1)
  <2>1. i \in Nat /\ i - 1 \in Nat /\ i - 1 <= Len(a) /\ i - 1 <= Len(b)
    BY <1>1, <1>3
  <2>2. /\ s \in Seq(Nat) /\ Len(s) = i - 1 /\ \A j \in 1 .. i - 1 : s[j] = a[j]
        /\ t \in Seq(Nat) /\ Len(t) = i - 1 /\ \A j \in 1 .. i - 1 : t[j] = b[j]
    BY <2>1, SMTT(30) DEF Spelling
  <2>3. s = t <=> \A j \in 1 .. i - 1 : s[j] = t[j]
    BY <2>2
  <2> QED
    BY <2>2, <2>3
<1>4. \A i : i \in DOMAIN a \cap DOMAIN b <=> i \in 1 .. Len(a) /\ i <= Len(b)
  BY <1>1
<1> HIDE DEF Spelling
<1> QED
  BY <1>2, <1>3, <1>4 DEF Precedes

\* No word precedes itself.
LEMMA PrecedesIrreflexive ==
  ASSUME NEW a \in Spelling
  PROVE  ~Precedes(a, a)
<1>1. Len(a) \in Nat /\ \A i \in 1 .. Len(a) : a[i] \in Nat
  BY DEF Spelling
<1> QED
  BY <1>1, PrecedesIff

LEMMA PrecedesTransitive ==
  ASSUME NEW a \in Spelling, NEW b \in Spelling, NEW c \in Spelling, Precedes(a, b), Precedes(b, c)
  PROVE  Precedes(a, c)
<1>1. /\ Len(a) \in Nat /\ Len(b) \in Nat /\ Len(c) \in Nat
      /\ \A i \in 1 .. Len(a) : a[i] \in Nat
      /\ \A i \in 1 .. Len(b) : b[i] \in Nat
      /\ \A i \in 1 .. Len(c) : c[i] \in Nat
  BY DEF Spelling
<1>2. CASE Len(a) < Len(b) /\ \A j \in 1 .. Len(a) : a[j] = b[j]
  <2>1. CASE Len(b) < Len(c) /\ \A j \in 1 .. Len(b) : b[j] = c[j]
    BY <1>1, <1>2, <2>1, PrecedesIff
  <2>2. ASSUME NEW i \in 1 .. Len(b), i <= Len(c), b[i] < c[i], \A j \in 1 .. i - 1 : b[j] = c[j]
        PROVE  Precedes(a, c)
    <3>1. CASE i <= Len(a)
      <4>1. /\ i \in 1 .. Len(a) /\ a[i] < c[i]
            /\ \A j \in 1 .. i - 1 : a[j] = c[j]
        BY <1>1, <1>2, <2>2, <3>1
      <4> QED
        BY <2>2, <4>1, PrecedesIff
    <3>2. CASE i > Len(a)
      <4>1. /\ Len(a) < Len(c)
            /\ \A j \in 1 .. Len(a) : a[j] = c[j]
        BY <1>1, <1>2, <2>2, <3>2
      <4> QED
        BY <4>1, PrecedesIff
    <3> QED
      BY <1>1, <3>1, <3>2
  <2> QED
    BY <2>1, <2>2, PrecedesIff
<1>3. ASSUME NEW k \in 1 .. Len(a), k <= Len(b), a[k] < b[k], \A j \in 1 .. k - 1 : a[j] = b[j]
      PROVE  Precedes(a, c)
  <2>1. CASE Len(b) < Len(c) /\ \A j \in 1 .. Len(b) : b[j] = c[j]
    <3>1. /\ k <= Len(c) /\ a[k] < c[k]
          /\ \A j \in 1 .. k - 1 : a[j] = c[j]
      BY <1>1, <1>3, <2>1
    <3> QED
      BY <3>1, PrecedesIff
  <2>2. ASSUME NEW i \in 1 .. Len(b), i <= Len(c), b[i] < c[i], \A j \in 1 .. i - 1 : b[j] = c[j]
        PROVE  Precedes(a, c)
    <3>1. CASE i < k
      <4>1. /\ i \in 1 .. Len(a) /\ a[i] < c[i]
            /\ \A j \in 1 .. i - 1 : a[j] = c[j]
        BY <1>1, <1>3, <2>2, <3>1
      <4> QED
        BY <2>2, <4>1, PrecedesIff
    <3>2. CASE i >= k
      <4>1. /\ k <= Len(c) /\ a[k] < c[k]
            /\ \A j \in 1 .. k - 1 : a[j] = c[j]
        BY <1>1, <1>3, <2>2, <3>2
      <4> QED
        BY <4>1, PrecedesIff
    <3> QED
      BY <1>1, <3>1, <3>2
  <2> QED
    BY <2>1, <2>2, PrecedesIff
<1> QED
  BY <1>2, <1>3, PrecedesIff

\* Of two words one precedes the other.
LEMMA PrecedesTotal ==
  ASSUME NEW a \in Spelling, NEW b \in Spelling
  PROVE  a = b \/ Precedes(a, b) \/ Precedes(b, a)
<1>1. /\ Len(a) \in Nat /\ Len(b) \in Nat
      /\ \A i \in 1 .. Len(a) : a[i] \in Nat
      /\ \A i \in 1 .. Len(b) : b[i] \in Nat
  BY DEF Spelling
<1> DEFINE Differ == {i \in Nat : i \in 1 .. Len(a) /\ i <= Len(b) /\ a[i] # b[i]}
<1>2. CASE Differ = {}
  <2>1. \A i \in 1 .. Len(a) : i <= Len(b) => a[i] = b[i]
    BY <1>1, <1>2
  <2>2. CASE Len(a) < Len(b)
    BY <1>1, <2>1, <2>2, PrecedesIff
  <2>3. CASE Len(b) < Len(a)
    <3>1. \A j \in 1 .. Len(b) : b[j] = a[j]
      BY <1>1, <2>1, <2>3
    <3> QED
      BY <2>3, <3>1, PrecedesIff
  <2>4. CASE Len(a) = Len(b)
    <3>1. \A i \in 1 .. Len(a) : a[i] = b[i]
      BY <1>1, <2>1, <2>4
    <3>2. a = b
      BY <2>4, <3>1, SMTT(30) DEF Spelling
    <3> QED
      BY <3>2
  <2> QED
    BY <1>1, <2>2, <2>3, <2>4
<1>3. CASE Differ # {}
  <2>1. PICK i \in Differ : \A j \in Differ : i <= j
    <3>1. Differ \subseteq Nat
      OBVIOUS
    <3> QED
      BY <1>3, <3>1, LeastNumber
  <2>2. i \in 1 .. Len(a) /\ i \in 1 .. Len(b) /\ a[i] # b[i] /\ i <= Len(a) /\ i <= Len(b)
    BY <1>1, <2>1
  <2>3. \A j \in 1 .. i - 1 : a[j] = b[j]
    <3> SUFFICES ASSUME NEW j \in 1 .. i - 1, a[j] # b[j] PROVE FALSE
      OBVIOUS
    <3>1. j \in Nat /\ j \in 1 .. Len(a) /\ j <= Len(b) /\ j < i /\ i \in Nat
      BY <1>1, <2>2
    <3>2. j \in Differ
      BY <3>1
    <3> QED
      BY <2>1, <3>1, <3>2
  <2>4. a[i] < b[i] \/ b[i] < a[i]
    BY <1>1, <2>2
  <2>5. \A j \in 1 .. i - 1 : b[j] = a[j]
    BY <2>3
  <2> HIDE DEF Differ
  <2> QED
    BY <2>2, <2>3, <2>4, <2>5, PrecedesIff
<1> QED
  BY <1>2, <1>3

\* What stands between two words with the same beginning has it as well.
LEMMA Between ==
  ASSUME NEW a \in Spelling, NEW b \in Spelling, NEW c \in Spelling, NEW p \in Spelling,
         Precedes(a, b), Precedes(b, c), IsPrefix(p, a), IsPrefix(p, c)
  PROVE  IsPrefix(p, b)
<1>1. /\ Len(a) \in Nat /\ Len(b) \in Nat /\ Len(c) \in Nat /\ Len(p) \in Nat
      /\ \A i \in 1 .. Len(a) : a[i] \in Nat
      /\ \A i \in 1 .. Len(b) : b[i] \in Nat
      /\ \A i \in 1 .. Len(c) : c[i] \in Nat
  BY DEF Spelling
<1>2. /\ Len(p) <= Len(a) /\ \A i \in 1 .. Len(p) : p[i] = a[i]
      /\ Len(p) <= Len(c) /\ \A i \in 1 .. Len(p) : p[i] = c[i]
  BY PrefixIff DEF Spelling
<1>3. IsPrefix(p, b) <=> Len(p) <= Len(b) /\ \A i \in 1 .. Len(p) : p[i] = b[i]
  <2>1. p \in Seq(Nat) /\ b \in Seq(Nat)
    BY DEF Spelling
  <2> QED
    BY <2>1, PrefixIff
<1>4. CASE Len(a) < Len(b) /\ \A j \in 1 .. Len(a) : a[j] = b[j]
  BY <1>1, <1>2, <1>3, <1>4
<1>5. ASSUME NEW k \in 1 .. Len(a), k <= Len(b), a[k] < b[k], \A j \in 1 .. k - 1 : a[j] = b[j]
      PROVE  IsPrefix(p, b)
  <2>1. CASE k > Len(p)
    BY <1>1, <1>2, <1>3, <1>5, <2>1
  <2>2. CASE k <= Len(p)
    <3>1. /\ k \in 1 .. Len(c) /\ k <= Len(b) /\ c[k] < b[k]
          /\ \A j \in 1 .. k - 1 : c[j] = b[j]
      <4>1. k \in Nat /\ k \in 1 .. Len(p) /\ k \in 1 .. Len(c)
        BY <1>1, <1>2, <1>5, <2>2
      <4>2. c[k] = a[k]
        BY <1>2, <4>1
      <4>3. \A j \in 1 .. k - 1 : j \in 1 .. Len(p)
        BY <1>1, <2>2, <4>1
      <4>4. \A j \in 1 .. k - 1 : c[j] = b[j]
        BY <1>2, <1>5, <4>3
      <4> QED
        BY <1>5, <4>1, <4>2, <4>4
    <3>2. Precedes(c, b)
      BY <3>1, PrecedesIff
    <3> QED
      BY <3>2, PrecedesTransitive, PrecedesIrreflexive
  <2> QED
    BY <1>1, <2>1, <2>2
<1> QED
  BY <1>4, <1>5, PrecedesIff

-----------------------------------------------------------------------------
(* How far two words agree. *)

LEMMA CommonIff ==
  ASSUME NEW a \in Spelling, NEW b \in Spelling
  PROVE  /\ Common(a, b) \in 0 .. Len(a)
         /\ \A n \in 1 .. Len(a) :
              n <= Common(a, b) <=> n <= Len(b) /\ \A j \in 1 .. n : a[j] = b[j]
<1> DEFINE D == {n \in DOMAIN a : IsPrefix(SubSeq(a, 1, n), b)}
<1>1. a \in Seq(Nat) /\ b \in Seq(Nat) /\ Len(a) \in Nat /\ Len(b) \in Nat /\ DOMAIN a = 1 .. Len(a)
  BY DEF Spelling
<1>2. ASSUME NEW n \in 1 .. Len(a)
      PROVE  n \in D <=> n <= Len(b) /\ \A j \in 1 .. n : a[j] = b[j]
  <2> DEFINE s == SubSeq(a, 1, n)
  <2>1. s \in Seq(Nat) /\ Len(s) = n /\ \A j \in 1 .. n : s[j] = a[j]
    BY <1>1
  <2>2. IsPrefix(s, b) <=> Len(s) <= Len(b) /\ \A j \in 1 .. Len(s) : s[j] = b[j]
    <3> HIDE DEF s
    <3> QED
      BY <1>1, <2>1, PrefixIff, ZenonT(40)
  <2> QED
    BY <1>1, <2>1, <2>2
<1>3. D \subseteq 1 .. Len(a) /\ \A m \in D : \A l \in 1 .. m : l \in D
  <2>1. D \subseteq 1 .. Len(a)
    BY <1>1
  <2> SUFFICES ASSUME NEW m \in D, NEW l \in 1 .. m PROVE l \in D
    BY <2>1
  <2>2. m \in 1 .. Len(a) /\ m \in Nat /\ l \in Nat /\ l \in 1 .. Len(a) /\ l <= m
    BY <1>1, <2>1
  <2>3. m <= Len(b) /\ \A j \in 1 .. m : a[j] = b[j]
    BY <1>2, <2>2
  <2>4. l <= Len(b) /\ \A j \in 1 .. l : j \in 1 .. m
    BY <1>1, <2>2, <2>3
  <2> HIDE DEF D
  <2> QED
    BY <1>2, <2>2, <2>3, <2>4
<1>4. Cardinality(D) \in 0 .. Len(a) /\ D = 1 .. Cardinality(D)
  <2> HIDE DEF D
  <2> QED
    BY <1>1, <1>3, WithoutGap
<1>5. Common(a, b) = Cardinality(D)
  BY DEF Common
<1>6. ASSUME NEW n \in 1 .. Len(a) PROVE n <= Cardinality(D) <=> n \in D
  <2> HIDE DEF D
  <2> QED
    BY <1>1, <1>4
<1> HIDE DEF D
<1> QED
  BY <1>2, <1>4, <1>5, <1>6

-----------------------------------------------------------------------------
(* The sorted keywords and the table. *)
Total == Cardinality(Keywords)
Sorted == Ordered(Keywords, Precedes)

LEMMA KeywordType ==
  /\ Keywords \subseteq Spelling
  /\ \A k \in Keywords : k \in Seq(Nat) /\ Len(k) \in Nat \ {0}
  /\ Total \in Nat
<1>1. \A k \in Keywords : k \in Seq(Nat) /\ Len(k) \in Nat \ {0}
  <2> SUFFICES ASSUME NEW k \in Keywords PROVE k \in Seq(Nat) /\ Len(k) \in Nat \ {0}
    OBVIOUS
  <2>1. k \in Seq(Nat \ {0}) /\ k # <<>>
    BY KeywordsAssumption
  <2> QED
    BY <2>1
<1> QED
  BY <1>1, KeywordsAssumption, FS_CardinalityType DEF Total, Spelling

\* The keywords stand in the order of a dictionary, each once.
LEMMA SortedLists ==
  /\ Sorted \in [1 .. Total -> Keywords]
  /\ \A k \in Keywords : \E i \in 1 .. Total : Sorted[i] = k
  /\ \A i, j \in 1 .. Total : i < j <=> Precedes(Sorted[i], Sorted[j])
<1> DEFINE R == {e \in Keywords \X Keywords : Precedes(e[1], e[2])}
<1>1. \A a, b \in Keywords : <<a, b>> \in R <=> Precedes(a, b)
  OBVIOUS
<1>2. StrictOrder(Keywords, R)
  BY <1>1, KeywordType, PrecedesIrreflexive, PrecedesTransitive, PrecedesTotal, Zenon DEF StrictOrder
<1>3. \A x \in Keywords : Below(Keywords, R, x) = {y \in Keywords : Precedes(y, x)}
  BY <1>1 DEF Below
<1>4. Sorted = InOrder(Keywords, R)
  <2> HIDE DEF R
  <2>1. \A k : (CHOOSE x \in Keywords : Cardinality({y \in Keywords : Precedes(y, x)}) = k - 1)
               = (CHOOSE x \in Keywords : Cardinality(Below(Keywords, R, x)) = k - 1)
    BY <1>3
  <2>2. Sorted = [k \in 1 .. Total |->
                    CHOOSE x \in Keywords : Cardinality({y \in Keywords : Precedes(y, x)}) = k - 1]
    BY DEF Sorted, Ordered, Total
  <2>3. InOrder(Keywords, R) = [k \in 1 .. Total |->
                                  CHOOSE x \in Keywords : Cardinality(Below(Keywords, R, x)) = k - 1]
    BY DEF InOrder, Total
  <2> QED
    BY <2>1, <2>2, <2>3
<1>5. /\ InOrder(Keywords, R) \in [1 .. Total -> Keywords]
      /\ \A x \in Keywords : \E k \in 1 .. Total : InOrder(Keywords, R)[k] = x
      /\ \A i, j \in 1 .. Total : i < j => <<InOrder(Keywords, R)[i], InOrder(Keywords, R)[j]>> \in R
  <2> HIDE DEF R
  <2> QED
    BY <1>2, KeywordsAssumption, InOrderLists DEF Total
<1>6. \A i \in 1 .. Total : Sorted[i] \in Keywords
  BY <1>4, <1>5
<1>7. \A i, j \in 1 .. Total : i < j => Precedes(Sorted[i], Sorted[j])
  BY <1>1, <1>4, <1>5, <1>6
<1>8. \A i, j \in 1 .. Total : Precedes(Sorted[i], Sorted[j]) => i < j
  <2> SUFFICES ASSUME NEW i \in 1 .. Total, NEW j \in 1 .. Total, Precedes(Sorted[i], Sorted[j]), ~(i < j)
               PROVE  FALSE
    OBVIOUS
  <2>1. i = j \/ j < i
    BY KeywordType
  <2>2. Sorted[i] \in Spelling /\ Sorted[j] \in Spelling
    BY <1>6, KeywordType
  <2> QED
    BY <1>7, <2>1, <2>2, PrecedesIrreflexive, PrecedesTransitive
<1> QED
  BY <1>4, <1>5, <1>7, <1>8

LEMMA SortedType ==
  /\ Sorted \in Seq(Keywords) /\ Len(Sorted) = Total
  /\ \A i \in 1 .. Total : /\ Sorted[i] \in Spelling /\ Sorted[i] \in Keywords
                           /\ Len(Sorted[i]) \in Nat \ {0} /\ Head(Sorted[i]) = Sorted[i][1]
<1>1. Sorted \in Seq(Keywords) /\ Len(Sorted) = Total
  BY SortedLists, KeywordType
<1>2. ASSUME NEW i \in 1 .. Total
      PROVE  /\ Sorted[i] \in Spelling /\ Sorted[i] \in Keywords
             /\ Len(Sorted[i]) \in Nat \ {0} /\ Head(Sorted[i]) = Sorted[i][1]
  <2>1. Sorted[i] \in Keywords
    BY SortedLists
  <2>2. Sorted[i] \in Seq(Nat) /\ Len(Sorted[i]) \in Nat \ {0}
    BY <2>1, KeywordType
  <2> QED
    BY <2>1, <2>2 DEF Spelling
<1> QED
  BY <1>1, <1>2

\* A beginning of one word begins another one if they have that much in common.
LEMMA CommonBeginning ==
  ASSUME NEW a \in Spelling, NEW b \in Spelling, NEW p \in Spelling, p # <<>>
  PROVE  /\ IsPrefix(p, a) => (Len(p) <= Common(a, b) <=> IsPrefix(p, b))
         /\ IsPrefix(p, b) => (Len(p) <= Common(a, b) <=> IsPrefix(p, a))
<1>1. /\ a \in Seq(Nat) /\ b \in Seq(Nat) /\ p \in Seq(Nat)
      /\ Len(a) \in Nat /\ Len(b) \in Nat /\ Len(p) \in Nat /\ Len(p) # 0
  BY DEF Spelling
<1>2. /\ IsPrefix(p, a) <=> Len(p) <= Len(a) /\ \A i \in 1 .. Len(p) : p[i] = a[i]
      /\ IsPrefix(p, b) <=> Len(p) <= Len(b) /\ \A i \in 1 .. Len(p) : p[i] = b[i]
  BY <1>1, PrefixIff
<1>3. /\ Common(a, b) \in 0 .. Len(a)
      /\ \A n \in 1 .. Len(a) :
           n <= Common(a, b) <=> n <= Len(b) /\ \A j \in 1 .. n : a[j] = b[j]
  BY CommonIff
<1>4. CASE Len(p) <= Len(a)
  <2>1. Len(p) \in 1 .. Len(a)
    BY <1>1, <1>4
  <2>2. Len(p) <= Common(a, b) <=> Len(p) <= Len(b) /\ \A j \in 1 .. Len(p) : a[j] = b[j]
    BY <1>3, <2>1
  <2> QED
    BY <1>2, <1>4, <2>2
<1>5. CASE Len(p) > Len(a)
  BY <1>1, <1>2, <1>3, <1>5
<1> QED
  BY <1>1, <1>4, <1>5

\* The numbers that MatchLen is made of.
LEMMA NumberTypes ==
  ASSUME NEW i \in 1 .. Total
  PROVE  /\ Carried(Sorted, i) \in Nat /\ MatchLen(Sorted, i) \in Nat \ {0}
         /\ ~LastOfLetter(Sorted, i) => i + 1 \in 1 .. Total /\ Common(Sorted[i], Sorted[i + 1]) \in Nat
         /\ ~FirstOfLetter(Sorted, i) => i - 1 \in 1 .. Total /\ Common(Sorted[i - 1], Sorted[i]) \in Nat
<1>1. Total \in Nat /\ i \in Nat /\ Len(Sorted) = Total /\ Len(Sorted[i]) \in Nat \ {0}
  BY KeywordType, SortedType
<1>2. ~LastOfLetter(Sorted, i) => i + 1 \in 1 .. Total
  BY <1>1 DEF LastOfLetter
<1>3. ~FirstOfLetter(Sorted, i) => i - 1 \in 1 .. Total
  BY <1>1 DEF FirstOfLetter
<1>4. ASSUME NEW j \in 1 .. Total, NEW k \in 1 .. Total PROVE Common(Sorted[j], Sorted[k]) \in Nat
  <2>1. Sorted[j] \in Spelling /\ Sorted[k] \in Spelling /\ Len(Sorted[j]) \in Nat
    BY SortedType
  <2>2. Common(Sorted[j], Sorted[k]) \in 0 .. Len(Sorted[j])
    BY <2>1, CommonIff
  <2> QED
    BY <2>1, <2>2
<1>5. Carried(Sorted, i) \in Nat
  BY <1>3, <1>4 DEF Carried
<1>6. MatchLen(Sorted, i) \in Nat \ {0}
  <2>1. CASE LastOfLetter(Sorted, i)
    BY <1>5, <2>1 DEF MatchLen
  <2>2. CASE ~LastOfLetter(Sorted, i)
    <3>1. Common(Sorted[i], Sorted[i + 1]) \in Nat
      BY <1>2, <1>4, <2>2
    <3> QED
      BY <1>1, <1>5, <2>2, <3>1 DEF MatchLen
  <2> QED
    BY <2>1, <2>2
<1> QED
  BY <1>2, <1>3, <1>4, <1>5, <1>6

\* What neither neighbour begins with is enough.
LEMMA EnoughAlone ==
  ASSUME NEW i \in 1 .. Total, NEW p \in Spelling, p # <<>>, IsPrefix(p, Sorted[i]),
         \A j \in 1 .. Total : j # i => ~IsPrefix(p, Sorted[j])
  PROVE  MatchLen(Sorted, i) <= Len(p)
<1>1. Len(p) \in Nat \ {0}
  BY DEF Spelling
<1>2. Carried(Sorted, i) <= Len(p)
  <2>1. CASE FirstOfLetter(Sorted, i)
    BY <1>1, <2>1 DEF Carried
  <2>2. CASE ~FirstOfLetter(Sorted, i)
    <3>1. i - 1 \in 1 .. Total /\ Common(Sorted[i - 1], Sorted[i]) \in Nat /\ i - 1 # i
      BY <2>2, NumberTypes
    <3>2. Sorted[i - 1] \in Spelling /\ Sorted[i] \in Spelling /\ ~IsPrefix(p, Sorted[i - 1])
      BY <3>1, SortedType
    <3>3. ~(Len(p) <= Common(Sorted[i - 1], Sorted[i]))
      BY <3>2, CommonBeginning
    <3> QED
      BY <1>1, <2>2, <3>1, <3>3 DEF Carried
  <2> QED
    BY <2>1, <2>2
<1>3. ASSUME ~LastOfLetter(Sorted, i) PROVE Common(Sorted[i], Sorted[i + 1]) < Len(p)
  <2>1. i + 1 \in 1 .. Total /\ Common(Sorted[i], Sorted[i + 1]) \in Nat /\ i + 1 # i
    BY <1>3, NumberTypes
  <2>2. Sorted[i + 1] \in Spelling /\ Sorted[i] \in Spelling /\ ~IsPrefix(p, Sorted[i + 1])
    BY <2>1, SortedType
  <2>3. ~(Len(p) <= Common(Sorted[i], Sorted[i + 1]))
    BY <2>2, CommonBeginning
  <2> QED
    BY <1>1, <2>1, <2>3
<1>4. Carried(Sorted, i) \in Nat /\ (~LastOfLetter(Sorted, i) => Common(Sorted[i], Sorted[i + 1]) \in Nat)
  BY NumberTypes
<1> QED
  BY <1>1, <1>2, <1>3, <1>4 DEF MatchLen

\* A keyword that is spelled out is long enough.
LEMMA EnoughSpelledOut ==
  ASSUME NEW i \in 1 .. Total
  PROVE  MatchLen(Sorted, i) <= Len(Sorted[i])
<1>1. Sorted[i] \in Spelling /\ Len(Sorted[i]) \in Nat \ {0} /\ i \in Nat
  BY SortedType
<1>2. Carried(Sorted, i) <= Len(Sorted[i])
  <2>1. CASE FirstOfLetter(Sorted, i)
    BY <1>1, <2>1 DEF Carried
  <2>2. CASE ~FirstOfLetter(Sorted, i)
    <3>1. i - 1 \in 1 .. Total /\ Common(Sorted[i - 1], Sorted[i]) \in Nat /\ i - 1 < i
      BY <1>1, <2>2, NumberTypes
    <3>2. Sorted[i - 1] \in Spelling /\ Precedes(Sorted[i - 1], Sorted[i])
      BY <3>1, SortedType, SortedLists
    <3>3. ~IsPrefix(Sorted[i], Sorted[i - 1])
      <4> SUFFICES ASSUME IsPrefix(Sorted[i], Sorted[i - 1]) PROVE FALSE
        OBVIOUS
      <4>1. Sorted[i] = Sorted[i - 1] \/ Precedes(Sorted[i], Sorted[i - 1])
        BY DEF Precedes, IsStrictPrefix
      <4> QED
        BY <1>1, <3>2, <4>1, PrecedesIrreflexive, PrecedesTransitive
    <3>4. IsPrefix(Sorted[i], Sorted[i]) /\ Sorted[i] # <<>>
      BY <1>1, PrefixIff DEF Spelling
    <3>5. ~(Len(Sorted[i]) <= Common(Sorted[i - 1], Sorted[i]))
      BY <1>1, <3>2, <3>3, <3>4, CommonBeginning
    <3> QED
      BY <1>1, <2>2, <3>1, <3>5 DEF Carried
  <2> QED
    BY <2>1, <2>2
<1>3. ASSUME ~LastOfLetter(Sorted, i)
      PROVE  Common(Sorted[i], Sorted[i + 1]) \in 0 .. Len(Sorted[i])
  BY <1>1, <1>3, NumberTypes, SortedType, CommonIff
<1>4. Carried(Sorted, i) \in Nat
  BY NumberTypes
<1> QED
  BY <1>1, <1>2, <1>3, <1>4 DEF MatchLen

\* What a neighbour begins with as well is not enough, unless it is spelled out.
LEMMA NotEnough ==
  ASSUME NEW i \in 1 .. Total, NEW j \in 1 .. Total, i = j + 1 \/ j = i + 1,
         NEW p \in Spelling, p # <<>>, p # Sorted[i], IsPrefix(p, Sorted[i]), IsPrefix(p, Sorted[j])
  PROVE  Len(p) < MatchLen(Sorted, i)
<1>1. /\ i \in Nat /\ j \in Nat /\ Total \in Nat /\ Len(Sorted) = Total
      /\ Sorted[i] \in Spelling /\ Sorted[j] \in Spelling
      /\ Head(Sorted[i]) = Sorted[i][1] /\ Head(Sorted[j]) = Sorted[j][1]
      /\ Len(Sorted[i]) \in Nat \ {0}
  BY KeywordType, SortedType
<1>2. p \in Seq(Nat) /\ Len(p) \in Nat \ {0} /\ Sorted[i] \in Seq(Nat) /\ Sorted[j] \in Seq(Nat)
  BY <1>1 DEF Spelling
<1>3. /\ Len(p) <= Len(Sorted[i]) /\ \A k \in 1 .. Len(p) : p[k] = Sorted[i][k]
      /\ Len(p) <= Len(Sorted[j]) /\ \A k \in 1 .. Len(p) : p[k] = Sorted[j][k]
  <2>1. IsPrefix(p, Sorted[i]) => Len(p) <= Len(Sorted[i]) /\ \A k \in 1 .. Len(p) : p[k] = Sorted[i][k]
    BY <1>2, PrefixIff, SMTT(30)
  <2>2. IsPrefix(p, Sorted[j]) => Len(p) <= Len(Sorted[j]) /\ \A k \in 1 .. Len(p) : p[k] = Sorted[j][k]
    BY <1>2, PrefixIff, SMTT(30)
  <2> QED
    BY <2>1, <2>2
<1>4. Head(Sorted[i]) = Head(Sorted[j])
  <2>1. 1 \in 1 .. Len(p)
    BY <1>2
  <2> QED
    BY <1>1, <1>3, <2>1
<1>5. Len(p) < Len(Sorted[i])
  <2>1. ASSUME Len(p) = Len(Sorted[i]) PROVE p = Sorted[i]
    <3>1. p \in Seq(Nat) /\ Sorted[i] \in Seq(Nat)
      BY <1>2
    <3>2. \A k \in 1 .. Len(p) : p[k] = Sorted[i][k]
      BY <1>3
    <3> QED
      BY <2>1, <3>1, <3>2, SeqEqual
  <2> QED
    BY <1>1, <1>2, <1>3, <2>1
<1>6. CASE i = j + 1
  <2>1. i - 1 = j /\ ~FirstOfLetter(Sorted, i)
    BY <1>1, <1>4, <1>6 DEF FirstOfLetter
  <2>2. Len(p) <= Common(Sorted[j], Sorted[i])
    BY <1>1, CommonBeginning
  <2>3. Carried(Sorted, i) = Common(Sorted[j], Sorted[i]) + 1
    BY <2>1 DEF Carried
  <2>4. Common(Sorted[j], Sorted[i]) \in Nat
    BY <2>1, NumberTypes
  <2>5. Len(p) < Carried(Sorted, i) /\ Carried(Sorted, i) \in Nat
    BY <1>2, <2>2, <2>3, <2>4
  <2>6. ~LastOfLetter(Sorted, i) => Common(Sorted[i], Sorted[i + 1]) \in Nat
    BY NumberTypes
  <2> QED
    BY <1>1, <1>2, <2>5, <2>6 DEF MatchLen
<1>7. CASE j = i + 1
  <2>1. ~LastOfLetter(Sorted, i)
    BY <1>1, <1>4, <1>7 DEF LastOfLetter
  <2>2. Len(p) <= Common(Sorted[i], Sorted[i + 1])
    BY <1>1, <1>7, CommonBeginning
  <2>3. Common(Sorted[i], Sorted[i + 1]) \in Nat /\ Carried(Sorted, i) \in Nat
    BY <2>1, NumberTypes
  <2> QED
    BY <1>2, <1>5, <2>1, <2>2, <2>3, SMTT(30) DEF MatchLen
<1> QED
  BY <1>6, <1>7

LEMMA TableRows ==
  /\ Table \in Seq([name : Keywords, match_len : Nat \ {0}])
  /\ DOMAIN Table = 1 .. Total /\ Len(Table) = Total
  /\ \A i \in 1 .. Total : Table[i].name = Sorted[i] /\ Table[i].match_len = MatchLen(Sorted, i)
<1>1. Table = [k \in 1 .. Total |-> Row(Sorted[k], MatchLen(Sorted, k))]
  BY DEF Table, Sorted, Total
<1>2. ASSUME NEW k \in 1 .. Total
      PROVE  /\ Row(Sorted[k], MatchLen(Sorted, k)) \in [name : Keywords, match_len : Nat \ {0}]
             /\ Row(Sorted[k], MatchLen(Sorted, k)).name = Sorted[k]
             /\ Row(Sorted[k], MatchLen(Sorted, k)).match_len = MatchLen(Sorted, k)
  <2>1. Sorted[k] \in Keywords /\ MatchLen(Sorted, k) \in Nat \ {0}
    BY SortedType, NumberTypes
  <2> QED
    BY <2>1 DEF Row
<1>3. Total \in Nat
  BY KeywordType
<1> QED
  BY <1>1, <1>2, <1>3

-----------------------------------------------------------------------------
(* The walk of find_token. *)
Match(i, p) == IsPrefix(p, Sorted[i]) /\ Len(p) >= MatchLen(Sorted, i)

\* It ends at the first row that matches, and finds nothing if none does.
LEMMA Walk ==
  ASSUME NEW p \in Spelling, p # <<>>
  PROVE  /\ \A i \in 1 .. Total :
              Match(i, p) /\ (\A j \in 1 .. i - 1 : ~Match(j, p)) => FindToken(Table, p) = Sorted[i]
         /\ (\A i \in 1 .. Total : ~Match(i, p)) => FindToken(Table, p) = <<>>
<1> DEFINE Ends(row) == Head(p) < Head(row.name) \/ StrMatch(row, p)
           I == {i \in 1 .. Len(Table) : Ends(Table[i])}
           k == SelectInSeq(Table, Ends)
<1>1. FindToken(Table, p) = IF k # 0 /\ StrMatch(Table[k], p) THEN Table[k].name ELSE <<>>
  BY DEF FindToken
<1>2. k = IF I # {} THEN CHOOSE x \in I : \A y \in I : x <= y ELSE 0
  BY DEF SelectInSeq, Min
<1>3. \A i \in 1 .. Total : /\ Table[i].name = Sorted[i]
                            /\ StrMatch(Table[i], p) <=> Match(i, p)
                            /\ i \in I <=> Head(p) < Head(Sorted[i]) \/ Match(i, p)
  BY TableRows DEF StrMatch, Match
<1>4. I \subseteq 1 .. Total /\ I \subseteq Nat
  BY TableRows, KeywordType
<1> HIDE DEF I, k
<1>5. I # {} => k \in I /\ \A y \in I : k <= y
  BY <1>2, <1>4, LeastNumber
<1>6. ASSUME NEW i \in 1 .. Total, Match(i, p), \A j \in 1 .. i - 1 : ~Match(j, p)
      PROVE  FindToken(Table, p) = Sorted[i]
  <2>1. i \in I
    BY <1>3, <1>6
  <2>2. k \in I /\ k <= i /\ k \in 1 .. Total /\ k \in Nat /\ i \in Nat /\ k # 0
    <3>1. k \in I /\ k <= i
      BY <1>5, <2>1
    <3>2. k \in 1 .. Total
      BY <1>4, <3>1
    <3> QED
      BY <3>1, <3>2
  <2>3. k = i
    <3> SUFFICES ASSUME k < i PROVE FALSE
      BY <2>2
    <3>1. k \in 1 .. i - 1
      BY <2>2
    <3>2. Head(p) < Head(Sorted[k])
      BY <1>3, <1>6, <2>2, <3>1
    <3>3. Precedes(Sorted[k], Sorted[i])
      BY <2>2, SortedLists
    <3>4. /\ Sorted[k] \in Seq(Nat) /\ Sorted[i] \in Seq(Nat) /\ p \in Seq(Nat)
          /\ Len(p) \in Nat \ {0} /\ Len(Sorted[k]) \in Nat \ {0} /\ Len(Sorted[i]) \in Nat \ {0}
          /\ Head(p) = p[1] /\ Head(Sorted[k]) = Sorted[k][1] /\ Head(Sorted[i]) = Sorted[i][1]
      BY <2>2, SortedType DEF Spelling
    <3>5. p[1] = Sorted[i][1]
      <4>1. \A j \in 1 .. Len(p) : p[j] = Sorted[i][j]
        BY <1>6, <3>4, PrefixIff, SMTT(30) DEF Match
      <4> QED
        BY <3>4, <4>1
    <3>6. Sorted[k][1] <= Sorted[i][1]
      <4>1. Sorted[k] \in Spelling /\ Sorted[i] \in Spelling
        BY <2>2, SortedType
      <4>2. \/ \A j \in 1 .. Len(Sorted[k]) : Sorted[k][j] = Sorted[i][j]
            \/ \E l \in 1 .. Len(Sorted[k]) :
                 Sorted[k][l] < Sorted[i][l] /\ \A j \in 1 .. l - 1 : Sorted[k][j] = Sorted[i][j]
        BY <3>3, <4>1, PrecedesIff
      <4>3. Sorted[k][1] = Sorted[i][1] \/ Sorted[k][1] < Sorted[i][1]
        BY <3>4, <4>2, SMTT(30)
      <4> QED
        BY <3>4, <4>3, SMTT(30)
    <3> QED
      BY <3>2, <3>4, <3>5, <3>6, SMTT(30)
  <2> QED
    BY <1>1, <1>3, <1>6, <2>2, <2>3
<1>7. ASSUME \A i \in 1 .. Total : ~Match(i, p)
      PROVE  FindToken(Table, p) = <<>>
  <2>1. CASE I = {}
    BY <1>1, <1>2, <2>1
  <2>2. CASE I # {}
    <3>1. k \in 1 .. Total
      BY <1>4, <1>5, <2>2
    <3> QED
      BY <1>1, <1>3, <1>7, <3>1
  <2> QED
    BY <2>1, <2>2
<1> QED
  BY <1>6, <1>7

\* The keywords that a word begins.
BegunBy(p) == {k \in Keywords : IsPrefix(p, k)}

\* For any set of keywords: a word that is a keyword is found as it stands, one
\* that begins a single keyword stands for that one, and no other word is found.
THEOREM AbbreviationsAreExact ==
  ASSUME NEW p \in Spelling, p # <<>>
  PROVE  /\ p \in Keywords => FindToken(Table, p) = p
         /\ p \notin Keywords => \A k \in Keywords : BegunBy(p) = {k} => FindToken(Table, p) = k
         /\ p \notin Keywords /\ (\A k \in Keywords : BegunBy(p) # {k}) => FindToken(Table, p) = <<>>
<1>1. \A k \in Keywords : \E i \in 1 .. Total : Sorted[i] = k
  BY SortedLists
<1>2. \A i \in 1 .. Total : i \in Nat /\ Sorted[i] \in Keywords /\ Sorted[i] \in Spelling
  BY SortedType
<1>3. \A i \in 1 .. Total : IsPrefix(p, Sorted[i]) <=> Sorted[i] \in BegunBy(p)
  BY <1>2 DEF BegunBy
<1>4. \A i, j \in 1 .. Total : Sorted[i] = Sorted[j] => i = j
  <2> SUFFICES ASSUME NEW i \in 1 .. Total, NEW j \in 1 .. Total, Sorted[i] = Sorted[j], i # j
               PROVE  FALSE
    OBVIOUS
  <2>1. i < j \/ j < i
    BY <1>2
  <2>2. Precedes(Sorted[i], Sorted[i])
    BY <2>1, SortedLists
  <2> QED
    BY <1>2, <2>2, PrecedesIrreflexive
<1>5. ASSUME p \in Keywords PROVE FindToken(Table, p) = p
  <2>1. PICK i \in 1 .. Total : Sorted[i] = p
    BY <1>1, <1>5
  <2>2. Match(i, p)
    <3>1. MatchLen(Sorted, i) <= Len(p)
      BY <2>1, EnoughSpelledOut
    <3>2. MatchLen(Sorted, i) \in Nat /\ Len(p) \in Nat
      BY NumberTypes DEF Spelling
    <3>3. IsPrefix(p, p)
      BY PrefixIff DEF Spelling
    <3> QED
      BY <2>1, <3>1, <3>2, <3>3 DEF Match
  <2>3. \A j \in 1 .. i - 1 : ~Match(j, p)
    <3> SUFFICES ASSUME NEW j \in 1 .. i - 1, Match(j, p) PROVE FALSE
      OBVIOUS
    <3>1. j \in 1 .. Total /\ j < i /\ j # i
      BY <1>2, KeywordType
    <3>2. Precedes(Sorted[j], p) /\ Sorted[j] # p
      BY <1>4, <2>1, <3>1, SortedLists
    <3>3. Precedes(p, Sorted[j])
      BY <3>2 DEF Match, Precedes, IsStrictPrefix
    <3> QED
      BY <1>2, <3>1, <3>2, <3>3, PrecedesIrreflexive, PrecedesTransitive
  <2> QED
    BY <2>1, <2>2, <2>3, Walk
<1>6. ASSUME NEW k \in Keywords, BegunBy(p) = {k} PROVE FindToken(Table, p) = k
  <2>1. PICK i \in 1 .. Total : Sorted[i] = k
    BY <1>1
  <2>2. IsPrefix(p, Sorted[i]) /\ \A j \in 1 .. Total : j # i => ~IsPrefix(p, Sorted[j])
    BY <1>3, <1>4, <1>6, <2>1
  <2>3. MatchLen(Sorted, i) <= Len(p)
    BY <2>2, EnoughAlone
  <2>4. MatchLen(Sorted, i) \in Nat /\ Len(p) \in Nat
    BY NumberTypes DEF Spelling
  <2>5. Match(i, p)
    BY <2>2, <2>3, <2>4 DEF Match
  <2>6. \A j \in 1 .. i - 1 : ~Match(j, p)
    <3> SUFFICES ASSUME NEW j \in 1 .. i - 1 PROVE ~Match(j, p)
      OBVIOUS
    <3>1. j \in 1 .. Total /\ j # i
      BY <1>2, KeywordType
    <3> QED
      BY <2>2, <3>1 DEF Match
  <2> QED
    BY <2>1, <2>5, <2>6, Walk
<1>7. ASSUME p \notin Keywords, \A k \in Keywords : BegunBy(p) # {k}
      PROVE  FindToken(Table, p) = <<>>
  <2> SUFFICES ASSUME NEW i \in 1 .. Total, Match(i, p) PROVE FALSE
    BY Walk
  <2>1. IsPrefix(p, Sorted[i]) /\ p # Sorted[i] /\ Sorted[i] \in BegunBy(p)
    BY <1>2, <1>3, <1>7 DEF Match
  <2>2. PICK k \in BegunBy(p) : k # Sorted[i]
    BY <1>2, <1>7, <2>1
  <2>3. PICK j \in 1 .. Total : Sorted[j] = k /\ j # i
    BY <1>1, <2>2 DEF BegunBy
  <2>4. IsPrefix(p, Sorted[j])
    BY <1>3, <2>3
  <2>5. PICK l \in 1 .. Total : (i = l + 1 \/ l = i + 1) /\ IsPrefix(p, Sorted[l])
    <3>1. CASE j < i
      <4>1. i - 1 \in 1 .. Total /\ j <= i - 1
        BY <1>2, <3>1, KeywordType
      <4>2. CASE j = i - 1
        BY <1>2, <2>4, <4>1, <4>2
      <4>3. CASE j < i - 1
        <5>1. Precedes(Sorted[j], Sorted[i - 1]) /\ Precedes(Sorted[i - 1], Sorted[i])
          BY <1>2, <4>1, <4>3, SortedLists
        <5>2. IsPrefix(p, Sorted[i - 1])
          BY <1>2, <2>1, <2>4, <4>1, <5>1, Between
        <5>3. i = (i - 1) + 1
          BY <1>2
        <5> QED
          BY <4>1, <5>2, <5>3
      <4> QED
        BY <1>2, <4>1, <4>2, <4>3
    <3>2. CASE i < j
      <4>1. i + 1 \in 1 .. Total /\ i + 1 <= j
        BY <1>2, <3>2, KeywordType
      <4>2. CASE j = i + 1
        BY <2>4, <4>2
      <4>3. CASE i + 1 < j
        <5>1. Precedes(Sorted[i], Sorted[i + 1]) /\ Precedes(Sorted[i + 1], Sorted[j])
          BY <1>2, <4>1, <4>3, SortedLists
        <5>2. IsPrefix(p, Sorted[i + 1])
          BY <1>2, <2>1, <2>4, <4>1, <5>1, Between
        <5> QED
          BY <4>1, <5>2
      <4> QED
        BY <1>2, <4>1, <4>2, <4>3
    <3> QED
      BY <1>2, <2>3, <3>1, <3>2
  <2>6. Len(p) < MatchLen(Sorted, i)
    BY <2>1, <2>5, NotEnough
  <2>7. Len(p) \in Nat /\ MatchLen(Sorted, i) \in Nat
    BY NumberTypes DEF Spelling
  <2> QED
    BY <2>6, <2>7 DEF Match
<1> QED
  BY <1>5, <1>6, <1>7

-----------------------------------------------------------------------------
(* Ports and bits. *)

LEMMA Widths ==
  /\ WordSize \in Nat /\ WordSize > 6 /\ SlotLimit \in Nat /\ SlotLimit <= WordSize /\ PortLimit \in Nat
  /\ PortLimit <= 4 * WordSize - 1 /\ 4 * WordSize \in Nat
  /\ Pointer \subseteq Bits /\ SlotBits \subseteq Bits /\ ModuleBits \subseteq Bits
BY WidthAssumption DEF Bits, SlotBits, ModuleBits

\* A port has a place in one of four words.
LEMMA Place ==
  ASSUME NEW n \in 1 .. 4 * WordSize
  PROVE  /\ (n - 1) % WordSize \in Bits
         /\ (n - 1) \div WordSize \in 0 .. 3
         /\ ((n - 1) \div WordSize) * WordSize + ((n - 1) % WordSize) + 1 = n
         /\ (n - 1) \div WordSize \in {0, 1} <=> n <= 2 * WordSize
<1> DEFINE q == (n - 1) \div WordSize
           r == (n - 1) % WordSize
<1>1. n \in Nat /\ n - 1 \in Nat /\ WordSize \in Nat /\ WordSize > 0 /\ n - 1 < 4 * WordSize
  BY Widths
<1>2. r \in 0 .. WordSize - 1 /\ q \in Int /\ n - 1 = q * WordSize + r
  BY <1>1
<1>3. q \in 0 .. 3
  BY <1>1, <1>2
<1>4. q \in {0, 1} <=> n <= 2 * WordSize
  BY <1>1, <1>2, <1>3
<1> QED
  BY <1>1, <1>2, <1>3, <1>4 DEF Bits

-----------------------------------------------------------------------------
(* What the parts of a word mean. *)
Part == Seq(Elements)
Union == [1 .. 6 -> SUBSET Bits]

LEMMA ElementType ==
  ASSUME NEW part \in Part, NEW k \in DOMAIN part
  PROVE  /\ part[k] \in Elements /\ part[k].from \in Nat /\ part[k].to \in Nat /\ part[k].dash \in BOOLEAN
         /\ part[k].how \in {"plain", "zero", "0x", "character", "mark", "*"} \cup DOMAIN Letter
<1>1. part[k] \in Elements
  BY DEF Part
<1> QED
  BY <1>1 DEF Elements

LEMMA LetterValues ==
  /\ DOMAIN Letter = {"r", "f", "b"}
  /\ Letter["r"] = 4 /\ Letter["f"] = 5 /\ Letter["b"] = 6
BY DEF Letter

\* A list of ports that is not refused fills the bits of the ports it names,
\* behind the words that are not touched; a refused one leaves none of them.
LEMMA PortsRead ==
  ASSUME NEW part \in Part, NEW y \in Union, NEW first \in 1 .. 3
  PROVE  /\ StorePorts(y, first, part) \in Union
         /\ \A j \in 1 .. first - 1 : StorePorts(y, first, part)[j] = y[j]
         /\ RefusedPorts(part) =>
              {n \in 1 .. 4 * WordSize :
                 (n - 1) % WordSize \in StorePorts(y, first, part)[first + (n - 1) \div WordSize]} = {}
         /\ ~RefusedPorts(part) =>
              {n \in 1 .. 4 * WordSize :
                 (n - 1) % WordSize \in StorePorts(y, first, part)[first + (n - 1) \div WordSize]}
              = PortsNamed(part)
<1> DEFINE z == StorePorts(y, first, part)
           q(n) == (n - 1) \div WordSize
           r(n) == (n - 1) % WordSize
<1>1. \A j : PortWord(part, j) \subseteq Bits
  BY DEF PortWord
<1>2. z \in Union /\ \A j \in 1 .. first - 1 : z[j] = y[j]
  <2>1. z = [j \in 1 .. 6 |-> IF j < first THEN y[j]
                              ELSE IF j > first + 3 \/ RefusedPorts(part) THEN {}
                              ELSE PortWord(part, j - first + 1)]
    BY DEF StorePorts
  <2>2. \A j \in 1 .. 6 : y[j] \in SUBSET Bits
    BY DEF Union
  <2>3. \A j \in 1 .. 6 : z[j] \in SUBSET Bits
    BY <1>1, <2>1, <2>2
  <2> QED
    BY <2>1, <2>3 DEF Union
<1>3. ASSUME NEW n \in 1 .. 4 * WordSize
      PROVE  z[first + q(n)] = IF RefusedPorts(part) THEN {} ELSE PortWord(part, q(n) + 1)
  <2>1. q(n) \in 0 .. 3
    BY Place
  <2>2. /\ first + q(n) \in 1 .. 6 /\ ~(first + q(n) < first) /\ ~(first + q(n) > first + 3)
        /\ (first + q(n)) - first + 1 = q(n) + 1
    BY <2>1
  <2> HIDE DEF q
  <2> QED
    BY <2>2 DEF StorePorts
<1>4. ASSUME NEW n \in 1 .. 4 * WordSize
      PROVE  r(n) \in PortWord(part, q(n) + 1) <=> n \in PortsNamed(part)
  <2>1. /\ r(n) \in Bits /\ q(n) \in 0 .. 3 /\ q(n) * WordSize + r(n) + 1 = n
        /\ q(n) \in {0, 1} <=> n <= 2 * WordSize
    BY Place
  <2>2. (q(n) + 1) - 1 = q(n) /\ (q(n) + 1 \in {1, 2} <=> n \in 1 .. 2 * WordSize)
    BY <2>1, Widths
  <2> HIDE DEF q, r
  <2>3. r(n) \in PortWord(part, q(n) + 1) <=>
          \E k \in DOMAIN part : \/ part[k].how = "*" /\ n \in 1 .. 2 * WordSize
                                 \/ part[k].how # "*" /\ n \in PortRange(part[k])
    BY <2>1, <2>2 DEF PortWord
  <2>4. n \in PortsNamed(part) <=>
          \E k \in DOMAIN part :
            n \in IF part[k].how = "*" THEN 1 .. 2 * WordSize ELSE PortRange(part[k])
    BY DEF PortsNamed
  <2> QED
    BY <2>3, <2>4
<1>5. ASSUME ~RefusedPorts(part) PROVE PortsNamed(part) \subseteq 1 .. 4 * WordSize
  <2> SUFFICES ASSUME NEW k \in DOMAIN part,
                      NEW n \in IF part[k].how = "*" THEN 1 .. 2 * WordSize ELSE PortRange(part[k])
               PROVE  n \in 1 .. 4 * WordSize
    BY DEF PortsNamed
  <2>1. part[k].from \in Nat /\ part[k].to \in Nat
    BY ElementType
  <2>2. ~BadPorts(part[k])
    BY <1>5 DEF RefusedPorts
  <2>3. CASE part[k].how = "*"
    BY <2>3, Widths
  <2>4. CASE part[k].how # "*"
    BY <2>1, <2>2, <2>4, Widths DEF BadPorts, PortRange
  <2> QED
    BY <2>3, <2>4
<1> HIDE DEF z, q, r
<1>6. {n \in 1 .. 4 * WordSize : r(n) \in z[first + q(n)]} =
        IF RefusedPorts(part) THEN {} ELSE PortsNamed(part)
  BY <1>3, <1>4, <1>5
<1> QED
  BY <1>2, <1>6 DEF z, q, r

\* A list of slots that is not refused holds only slots that it names, and all
\* of them if it can be read.
LEMMA SlotsRead ==
  ASSUME NEW part \in Part, SmpElem(part), ~Refused(part, SlotBits)
  PROVE  /\ {b + 1 : b \in Members(part)} \subseteq SlotsNamed(part)
         /\ ReadableMembers(part) => {b + 1 : b \in Members(part)} = SlotsNamed(part)
<1>1. \A k \in DOMAIN part : part[k].from \in Nat
  BY ElementType
<1>2. \A b : b \in Members(part) <=> \E k \in DOMAIN part : b \in MemberBits(part[k])
  BY DEF Members
<1>3. \A n : n \in SlotsNamed(part) <=>
        \E k \in DOMAIN part :
          n \in IF part[k].how = "*" THEN 1 .. SlotLimit ELSE PortRange(part[k])
  BY DEF SlotsNamed
<1>4. Members(part) \subseteq SlotBits
  BY DEF Refused
<1>5. CASE Nums(part)
  <2>1. \A k \in DOMAIN part : part[k].how = "plain"
    BY <1>5 DEF Nums, Plain
  <2>2. \A k \in DOMAIN part :
          /\ OneCharacter(part[k]) => MemberBits(part[k]) = {part[k].from - 1}
                                      /\ PortRange(part[k]) = {part[k].from}
          /\ ~OneCharacter(part[k]) => MemberBits(part[k]) = {}
    BY <2>1, LetterValues DEF MemberBits, OneCharacter, PortRange
  <2>3. {b + 1 : b \in Members(part)} \subseteq SlotsNamed(part)
    <3> SUFFICES ASSUME NEW b \in Members(part) PROVE b + 1 \in SlotsNamed(part)
      OBVIOUS
    <3>1. PICK k \in DOMAIN part : b \in MemberBits(part[k])
      BY <1>2
    <3>2. b = part[k].from - 1 /\ PortRange(part[k]) = {part[k].from}
      BY <2>2, <3>1
    <3>3. b + 1 \in PortRange(part[k])
      BY <1>1, <3>2
    <3> QED
      BY <1>3, <2>1, <3>3
  <2>4. ASSUME ReadableMembers(part), NEW n \in SlotsNamed(part)
        PROVE  \E b \in Members(part) : n = b + 1
    <3>1. PICK k \in DOMAIN part : n \in PortRange(part[k])
      BY <1>3, <2>1
    <3>2. n = part[k].from /\ part[k].from - 1 \in MemberBits(part[k])
      BY <2>2, <2>4, <3>1 DEF ReadableMembers
    <3>3. part[k].from - 1 \in Members(part) /\ n = (part[k].from - 1) + 1
      BY <1>1, <1>2, <3>2
    <3> QED
      BY <3>3
  <2> QED
    BY <2>3, <2>4
<1>6. CASE part = <<Star>>
  <2>1. DOMAIN part = {1} /\ part[1].how = "*"
    BY <1>6 DEF Star, Elem
  <2>2. ~ReadableMembers(part)
    BY <2>1 DEF ReadableMembers
  <2>3. \A b \in Members(part) : b + 1 \in 1 .. SlotLimit
    BY <1>4, Widths DEF SlotBits
  <2> QED
    BY <1>3, <2>1, <2>2, <2>3
<1> QED
  BY <1>5, <1>6 DEF SmpElem

\* A list of modules likewise.
LEMMA ModulesRead ==
  ASSUME NEW part \in Part, Letters(part) \/ part = <<Star>>, ~Refused(part, ModuleBits)
  PROVE  /\ Members(part) \subseteq ModulesNamed(part)
         /\ ReadableMembers(part) => Members(part) = ModulesNamed(part)
<1>1. \A b : b \in Members(part) <=> \E k \in DOMAIN part : b \in MemberBits(part[k])
  BY DEF Members
<1>2. \A n : n \in ModulesNamed(part) <=>
        \E k \in DOMAIN part : n \in IF part[k].how = "*" THEN ModuleBits ELSE {Letter[part[k].how]}
  BY DEF ModulesNamed
<1>3. Members(part) \subseteq ModuleBits
  BY DEF Refused
<1>4. CASE Letters(part)
  <2>1. \A k \in DOMAIN part : /\ part[k].how # "*" /\ MemberBits(part[k]) = {Letter[part[k].how]}
    BY <1>4, LetterValues DEF Letters, MemberBits, OneCharacter
  <2> QED
    BY <1>1, <1>2, <2>1
<1>5. CASE part = <<Star>>
  <2>1. DOMAIN part = {1} /\ part[1].how = "*"
    BY <1>5 DEF Star, Elem
  <2>2. ~ReadableMembers(part)
    BY <2>1 DEF ReadableMembers
  <2> QED
    BY <1>2, <1>3, <2>1, <2>2
<1> QED
  BY <1>4, <1>5

\* A list of slots or modules that can be read is not refused.
LEMMA ReadableIsNotRefused ==
  ASSUME NEW part \in Part, ReadableMembers(part)
  PROVE  /\ SmpElem(part) => ~Refused(part, SlotBits)
         /\ Letters(part) \/ part = <<Star>> => ~Refused(part, ModuleBits)
<1>1. \A k \in DOMAIN part : /\ OneCharacter(part[k]) /\ ~BadMember(part[k]) /\ part[k].how # "*"
                             /\ part[k].from \in Nat
  BY ElementType DEF ReadableMembers
<1>2. part # <<Star>>
  <2> SUFFICES ASSUME part = <<Star>> PROVE FALSE
    OBVIOUS
  <2>1. 1 \in DOMAIN part /\ part[1].how = "*"
    BY DEF Star, Elem
  <2> QED
    BY <1>1, <2>1
<1>3. ASSUME Nums(part) PROVE ~Refused(part, SlotBits)
  <2>1. \A k \in DOMAIN part : MemberBits(part[k]) \subseteq SlotBits
    <3> SUFFICES ASSUME NEW k \in DOMAIN part PROVE MemberBits(part[k]) \subseteq SlotBits
      OBVIOUS
    <3>1. part[k].how = "plain"
      BY <1>3 DEF Nums, Plain
    <3>2. part[k].from \in 1 .. SlotLimit /\ MemberBits(part[k]) = {part[k].from - 1}
      BY <1>1, <3>1, LetterValues DEF BadMember, Plain, MemberBits
    <3> QED
      BY <3>2, Widths DEF SlotBits
  <2>2. Members(part) \subseteq SlotBits
    BY <2>1 DEF Members
  <2> QED
    BY <1>1, <2>2 DEF Refused
<1>4. ASSUME Letters(part) PROVE ~Refused(part, ModuleBits)
  <2>1. \A k \in DOMAIN part : MemberBits(part[k]) \subseteq ModuleBits
    BY <1>1, <1>4, LetterValues DEF Letters, MemberBits, ModuleBits
  <2>2. Members(part) \subseteq ModuleBits
    BY <2>1 DEF Members
  <2> QED
    BY <1>1, <2>2 DEF Refused
<1> QED
  BY <1>2, <1>3, <1>4 DEF SmpElem

-----------------------------------------------------------------------------
(* A word is read. *)
Interfaces == {"_SMPS_", "_MPS_", "_PS_"}
Sentence == Seq(Part)

\* The shape of a word behind each of the three kinds of lists.
LEMMA Shapes ==
  ASSUME NEW w \in Sentence
  PROVE  /\ TokenOf(w) \in {"_SMPS_", "_MPS_", "_PS_", "_INT_", "_NAME_", "keyword", "characters"}
         /\ TokenOf(w) = "_SMPS_" <=> SmpsData(w)
         /\ TokenOf(w) = "_MPS_" <=> MpsData(w)
         /\ TokenOf(w) = "_PS_" <=> PortsData(w)
         /\ TokenOf(w) = "keyword" <=> KeywordOf(w) # NoWord
         /\ Ident(w) => TokenOf(w) \in {"keyword", "_NAME_"}
<1>1. SmpsData(w) => ~MpsData(w) /\ ~PortsData(w) /\ ~Ident(w)
  BY DEF SmpsData, MpsData, PortsData, Ident
<1>2. MpsData(w) => ~PortsData(w) /\ ~Ident(w)
  BY DEF MpsData, PortsData, Ident
<1>3. Ident(w) => ~PortsData(w) /\ ~Integer(w)
  <2> SUFFICES ASSUME Ident(w) PROVE ~PortsData(w) /\ ~Integer(w)
    OBVIOUS
  <2>1. w[1] \in Part /\ w[1] # <<>>
    BY DEF Ident, Sentence
  <2>2. 1 \in DOMAIN w[1]
    BY <2>1 DEF Part
  <2>3. w[1][1].how = "character"
    BY <2>2 DEF Ident
  <2> QED
    BY <2>2, <2>3 DEF PortsData, Integer, Nums, Plain
<1>4. KeywordOf(w) # NoWord => Ident(w)
  BY DEF KeywordOf
<1> QED
  BY <1>1, <1>2, <1>3, <1>4 DEF TokenOf

\* For every word, whatever the union holds: the token selects only what the word
\* names, and all of it if the lexer can read it.
LEMMA Read ==
  ASSUME NEW w \in Sentence, yylval \in Union,
         yylval' = Reading(w), token' = TokenOf(w), word' = w
  PROVE  yylval' \in Union /\ SelectsOnlyNamed' /\ ReadableIsSelected'
<1> DEFINE From(y, first) ==
             {n \in 1 .. 4 * WordSize : (n - 1) % WordSize \in y[first + (n - 1) \div WordSize]}
<1>1. \A first : PortsFrom(first)' = From(yylval', first)
  BY DEF PortsFrom
<1>2. \A k \in 1 .. Len(w) : w[k] \in Part
  BY DEF Sentence
<1>3. /\ token' \notin Interfaces => Selected' = {}
      /\ token' = "_SMPS_" =>
           Selected' = {b + 1 : b \in yylval'[1]} \X yylval'[2] \X From(yylval', 3)
      /\ token' = "_MPS_" => Selected' = {0} \X yylval'[1] \X From(yylval', 2)
      /\ token' = "_PS_" => Selected' = {0} \X {0} \X From(yylval', 1)
  BY <1>1 DEF Selected, Interfaces
<1>4. /\ token' = "_SMPS_" => Named' = SlotsNamed(w[1]) \X ModulesNamed(w[2]) \X PortsNamed(w[3])
      /\ token' = "_MPS_" => Named' = {0} \X ModulesNamed(w[1]) \X PortsNamed(w[2])
      /\ token' = "_PS_" => Named' = {0} \X {0} \X PortsNamed(w[1])
  BY DEF Named
<1>5. Readable' <=> /\ Len(w) = 3 => ReadableMembers(w[1])
                    /\ Len(w) >= 2 => ReadableMembers(w[Len(w) - 1])
                    /\ ~RefusedPorts(w[Len(w)])
  BY DEF Readable
<1> HIDE DEF From
<1>6. \A part \in Part : \A y \in Union : \A first \in 1 .. 3 :
        /\ StorePorts(y, first, part) \in Union
        /\ \A j \in 1 .. first - 1 : StorePorts(y, first, part)[j] = y[j]
        /\ From(StorePorts(y, first, part), first) =
             IF RefusedPorts(part) THEN {} ELSE PortsNamed(part)
  BY PortsRead DEF From
<1>7. CASE token' = "_SMPS_"
  <2>1. SmpsData(w) /\ yylval' = ReadSmps(w)
    BY <1>7, Shapes DEF Reading
  <2>2. /\ Len(w) = 3 /\ SmpElem(w[1]) /\ (Letters(w[2]) \/ w[2] = <<Star>>)
        /\ w[1] \in Part /\ w[2] \in Part /\ w[3] \in Part
    BY <1>2, <2>1 DEF SmpsData, SmpM3
  <2>3. Readable' => /\ ~Refused(w[1], SlotBits) /\ ~Refused(w[2], ModuleBits) /\ ~RefusedPorts(w[3])
                     /\ ReadableMembers(w[1]) /\ ReadableMembers(w[2])
    BY <1>5, <2>2, ReadableIsNotRefused
  <2> DEFINE slots == [yylval EXCEPT ![1] = Members(w[1])]
             both == [slots EXCEPT ![2] = Members(w[2])]
  <2>4. CASE Refused(w[1], SlotBits)
    <3>1. yylval' = [yylval EXCEPT ![1] = {}]
      BY <2>1, <2>4 DEF ReadSmps
    <3>2. yylval' \in Union /\ yylval'[1] = {}
      BY <3>1 DEF Union
    <3>3. Selected' = {}
      BY <1>3, <1>7, <3>2
    <3> QED
      BY <2>3, <2>4, <3>2, <3>3 DEF SelectsOnlyNamed, ReadableIsSelected
  <2>5. CASE ~Refused(w[1], SlotBits) /\ Refused(w[2], ModuleBits)
    <3>1. yylval' = [slots EXCEPT ![2] = {}]
      BY <2>1, <2>5 DEF ReadSmps
    <3>2. Members(w[1]) \subseteq Bits
      BY <2>5, Widths DEF Refused
    <3>3. yylval' \in Union /\ yylval'[2] = {}
      BY <3>1, <3>2 DEF Union
    <3>4. Selected' = {}
      BY <1>3, <1>7, <3>3
    <3> QED
      BY <2>3, <2>5, <3>3, <3>4 DEF SelectsOnlyNamed, ReadableIsSelected
  <2>6. CASE ~Refused(w[1], SlotBits) /\ ~Refused(w[2], ModuleBits)
    <3>1. yylval' = StorePorts(both, 3, w[3])
      BY <2>1, <2>6 DEF ReadSmps
    <3>2. Members(w[1]) \subseteq Bits /\ Members(w[2]) \subseteq Bits
      BY <2>6, Widths DEF Refused
    <3>3. both \in Union /\ both[1] = Members(w[1]) /\ both[2] = Members(w[2])
      BY <3>2 DEF Union
    <3> HIDE DEF both
    <3>4. /\ yylval' \in Union /\ yylval'[1] = Members(w[1]) /\ yylval'[2] = Members(w[2])
          /\ From(yylval', 3) = IF RefusedPorts(w[3]) THEN {} ELSE PortsNamed(w[3])
      <4>1. 1 \in 1 .. 3 - 1 /\ 2 \in 1 .. 3 - 1 /\ 3 \in 1 .. 3
        OBVIOUS
      <4> QED
        BY <1>6, <2>2, <3>1, <3>3, <4>1
    <3>5. Selected' = {b + 1 : b \in Members(w[1])} \X Members(w[2]) \X From(yylval', 3)
      BY <1>3, <1>7, <3>4
    <3>6. /\ {b + 1 : b \in Members(w[1])} \subseteq SlotsNamed(w[1])
          /\ Members(w[2]) \subseteq ModulesNamed(w[2])
          /\ From(yylval', 3) \subseteq PortsNamed(w[3])
      BY <2>2, <2>6, <3>4, SlotsRead, ModulesRead
    <3>7. Selected' \subseteq Named'
      BY <1>4, <1>7, <3>5, <3>6
    <3>8. Readable' => /\ {b + 1 : b \in Members(w[1])} = SlotsNamed(w[1])
                       /\ Members(w[2]) = ModulesNamed(w[2])
                       /\ From(yylval', 3) = PortsNamed(w[3])
      BY <2>2, <2>3, <2>6, <3>4, SlotsRead, ModulesRead
    <3>9. Readable' => Selected' = Named'
      BY <1>4, <1>7, <3>5, <3>8
    <3> QED
      BY <3>4, <3>7, <3>9 DEF SelectsOnlyNamed, ReadableIsSelected
  <2> QED
    BY <2>4, <2>5, <2>6
<1>8. CASE token' = "_MPS_"
  <2>1. MpsData(w) /\ yylval' = ReadMps(w)
    BY <1>8, Shapes DEF Reading
  <2>2. Len(w) = 2 /\ Letters(w[1]) /\ w[1] \in Part /\ w[2] \in Part
    BY <1>2, <2>1 DEF MpsData, SmpM2
  <2>3. Readable' => ~Refused(w[1], ModuleBits) /\ ~RefusedPorts(w[2]) /\ ReadableMembers(w[1])
    BY <1>5, <2>2, ReadableIsNotRefused
  <2>4. CASE Refused(w[1], ModuleBits)
    <3>1. yylval' = [yylval EXCEPT ![1] = {}]
      BY <2>1, <2>4 DEF ReadMps
    <3>2. yylval' \in Union /\ yylval'[1] = {}
      BY <3>1 DEF Union
    <3>3. Selected' = {}
      BY <1>3, <1>8, <3>2
    <3> QED
      BY <2>3, <2>4, <3>2, <3>3 DEF SelectsOnlyNamed, ReadableIsSelected
  <2>5. CASE ~Refused(w[1], ModuleBits)
    <3> DEFINE modules == [yylval EXCEPT ![1] = Members(w[1])]
    <3>1. yylval' = StorePorts(modules, 2, w[2])
      BY <2>1, <2>5 DEF ReadMps
    <3>2. Members(w[1]) \subseteq Bits
      BY <2>5, Widths DEF Refused
    <3>3. modules \in Union /\ modules[1] = Members(w[1])
      BY <3>2 DEF Union
    <3> HIDE DEF modules
    <3>4. /\ yylval' \in Union /\ yylval'[1] = Members(w[1])
          /\ From(yylval', 2) = IF RefusedPorts(w[2]) THEN {} ELSE PortsNamed(w[2])
      <4>1. 1 \in 1 .. 2 - 1 /\ 2 \in 1 .. 3
        OBVIOUS
      <4> QED
        BY <1>6, <2>2, <3>1, <3>3, <4>1
    <3>5. Selected' = {0} \X Members(w[1]) \X From(yylval', 2)
      BY <1>3, <1>8, <3>4
    <3>6. Members(w[1]) \subseteq ModulesNamed(w[1]) /\ From(yylval', 2) \subseteq PortsNamed(w[2])
      BY <2>2, <2>5, <3>4, ModulesRead
    <3>7. Selected' \subseteq Named'
      BY <1>4, <1>8, <3>5, <3>6
    <3>8. Readable' => Members(w[1]) = ModulesNamed(w[1]) /\ From(yylval', 2) = PortsNamed(w[2])
      BY <2>2, <2>3, <2>5, <3>4, ModulesRead
    <3>9. Readable' => Selected' = Named'
      BY <1>4, <1>8, <3>5, <3>8
    <3> QED
      BY <3>4, <3>7, <3>9 DEF SelectsOnlyNamed, ReadableIsSelected
  <2> QED
    BY <2>4, <2>5
<1>9. CASE token' = "_PS_"
  <2>1. PortsData(w) /\ yylval' = StorePorts(yylval, 1, w[1])
    BY <1>9, Shapes DEF Reading
  <2>2. Len(w) = 1 /\ w[1] \in Part
    BY <1>2, <2>1 DEF PortsData
  <2>3. /\ yylval' \in Union
        /\ From(yylval', 1) = IF RefusedPorts(w[1]) THEN {} ELSE PortsNamed(w[1])
    <3>1. 1 \in 1 .. 3
      OBVIOUS
    <3> QED
      BY <1>6, <2>1, <2>2, <3>1
  <2>4. Selected' = {0} \X {0} \X From(yylval', 1)
    BY <1>3, <1>9
  <2>5. Selected' \subseteq Named'
    BY <1>4, <1>9, <2>3, <2>4
  <2>6. Readable' => Selected' = Named'
    BY <1>4, <1>5, <1>9, <2>2, <2>3, <2>4
  <2> QED
    BY <2>3, <2>5, <2>6 DEF SelectsOnlyNamed, ReadableIsSelected
<1>10. CASE token' \notin Interfaces
  <2>1. Selected' = {}
    BY <1>3, <1>10
  <2>2. BitsOf(w[1][1].from) \subseteq Bits /\ Pointer \subseteq Bits
    BY Widths DEF BitsOf
  <2>3. \/ yylval' = [yylval EXCEPT ![1] = BitsOf(w[1][1].from)]
        \/ yylval' = [yylval EXCEPT ![1] = Pointer]
        \/ yylval' = yylval
    BY <1>10, Shapes DEF Reading, Interfaces
  <2>4. yylval' \in Union
    BY <2>2, <2>3 DEF Union
  <2> QED
    BY <1>10, <2>1, <2>4 DEF SelectsOnlyNamed, ReadableIsSelected, Interfaces
<1> QED
  BY <1>7, <1>8, <1>9, <1>10 DEF Interfaces

-----------------------------------------------------------------------------
(* A mask is written. *)

\* A run is completed by its last number, or by the last one that is looked at.
LEMMA CompletedSpec ==
  ASSUME NEW members, NEW high \in Nat, NEW n \in 0 .. high, n \in members
  PROVE  /\ Completed(members, n, high) \in n .. high
         /\ n .. Completed(members, n, high) \subseteq members
         /\ Completed(members, n, high) = high \/ Completed(members, n, high) + 1 \notin members
<1> DEFINE E == {m \in n .. high : m = high \/ m + 1 \notin members}
<1>1. n \in Nat /\ high \in E /\ E \subseteq Nat
  OBVIOUS
<1>2. PICK m \in E : \A l \in E : m <= l
  BY <1>1, LeastNumber
<1>3. m \in n .. high /\ m \in Nat /\ (m = high \/ m + 1 \notin members)
  BY <1>1, <1>2
<1>4. n .. m \subseteq members
  <2> SUFFICES ASSUME NEW j \in n .. m, j \notin members PROVE FALSE
    OBVIOUS
  <2>1. j \in Nat /\ n < j /\ j <= m
    BY <1>1, <1>3
  <2>2. j - 1 \in n .. high /\ (j - 1) + 1 = j /\ j - 1 < m
    BY <1>1, <1>3, <2>1
  <2>3. j - 1 \in E
    BY <2>2
  <2> QED
    BY <1>2, <1>3, <2>2, <2>3
<1>5. \E x \in n .. high : n .. x \subseteq members /\ (x = high \/ x + 1 \notin members)
  BY <1>3, <1>4
<1> QED
  BY <1>5 DEF Completed

IsRun(e, members, n, high) ==
  /\ e \in Elements /\ e.how = "plain" /\ e.from = n /\ (e.dash <=> More(members, n))
  /\ e.to \in n .. high /\ n .. e.to \subseteq members /\ (~e.dash => e.to = n)
  /\ (e.to = high \/ e.to + 1 \notin members \/ n = 0)
  /\ PortRange(e) = n .. e.to

\* One run: it begins at its number, and every number it holds is a member.
LEMMA RunSpec ==
  ASSUME NEW members, NEW high \in Nat, NEW n \in 0 .. high, n \in members
  PROVE  IsRun(RunText(members, n, high), members, n, high)
<1> DEFINE more == More(members, n)
           last == IF more THEN Completed(members, n, high) ELSE n
           e == RunText(members, n, high)
<1>1. e = [how |-> "plain", from |-> n, to |-> last, dash |-> more]
  BY DEF RunText, Elem
<1>2. n \in Nat /\ more \in BOOLEAN
  BY DEF More
<1>3. /\ last \in n .. high /\ n .. last \subseteq members /\ (~more => last = n)
      /\ last = high \/ last + 1 \notin members \/ n = 0
  <2>1. CASE more
    BY <2>1, CompletedSpec
  <2>2. CASE ~more
    <3>1. n = 0 \/ n + 1 \notin members
      BY <2>2 DEF More
    <3> QED
      BY <1>2, <2>2, <3>1
  <2> QED
    BY <2>1, <2>2
<1> HIDE DEF more, last
<1>4. last \in Nat
  BY <1>2, <1>3
<1>5. e \in Elements
  BY <1>1, <1>2, <1>4 DEF Elements
<1> HIDE DEF e
<1>6. e.how = "plain" /\ e.from = n /\ e.to = last /\ e.dash = more
  BY <1>1
<1>7. PortRange(e) = n .. last
  <2>1. CASE more
    BY <1>6, <2>1 DEF PortRange
  <2>2. CASE ~more
    <3>1. n .. last = {n}
      BY <1>2, <1>3, <2>2
    <3> QED
      BY <1>6, <2>2, <3>1 DEF PortRange
  <2> QED
    BY <2>1, <2>2
<1> QED
  <2>1. e.dash <=> More(members, n)
    BY <1>6 DEF more
  <2>2. IsRun(e, members, n, high)
    BY <1>3, <1>5, <1>6, <1>7, <2>1 DEF IsRun
  <2> QED
    BY <2>2 DEF e

BegunIn(members, low, high) == {n \in low .. high : Begun(members, n)}

ListsRuns(text, members, low, high) ==
  /\ text \in Part /\ DOMAIN text = 1 .. Len(text)
  /\ Len(text) = Cardinality(BegunIn(members, low, high))
  /\ \A n \in BegunIn(members, low, high) : n \in members /\ n \in low .. high
  /\ \A k \in DOMAIN text : \E n \in BegunIn(members, low, high) : IsRun(text[k], members, n, high)
  /\ \A n \in BegunIn(members, low, high) : \E k \in DOMAIN text : IsRun(text[k], members, n, high)

\* A text has an element for every run and no others.
LEMMA ScanRuns ==
  ASSUME NEW members, NEW low \in Nat, NEW high \in Nat
  PROVE  ListsRuns(Scan(members, low, high), members, low, high)
<1> DEFINE text == Scan(members, low, high)
           begun == BegunIn(members, low, high)
           R == {e \in begun \X begun : e[1] < e[2]}
           first == Ordered(begun, <)
<1>1. IsFiniteSet(begun) /\ Cardinality(begun) \in Nat
  <2>1. begun \in SUBSET (low .. high) /\ low \in Int /\ high \in Int
    BY DEF BegunIn
  <2>2. IsFiniteSet(low .. high)
    BY <2>1, FS_Interval
  <2> QED
    BY <2>1, <2>2, FS_Subset, FS_CardinalityType
<1>2. \A a, b \in begun : <<a, b>> \in R <=> a < b
  OBVIOUS
<1>3. begun \subseteq Nat /\ \A n \in begun : n \in members /\ n \in 0 .. high /\ n \in low .. high
  BY DEF Begun, BegunIn
<1>4. StrictOrder(begun, R)
  BY <1>2, <1>3 DEF StrictOrder
<1>5. first = InOrder(begun, R)
  <2>1. \A x \in begun : Below(begun, R, x) = {y \in begun : y < x}
    BY <1>2 DEF Below
  <2> HIDE DEF begun, R
  <2>2. \A k : (CHOOSE x \in begun : Cardinality({y \in begun : y < x}) = k - 1)
               = (CHOOSE x \in begun : Cardinality(Below(begun, R, x)) = k - 1)
    BY <2>1
  <2>3. first = [k \in 1 .. Cardinality(begun) |->
                   CHOOSE x \in begun : Cardinality({y \in begun : y < x}) = k - 1]
    BY DEF Ordered
  <2> QED
    BY <2>2, <2>3 DEF InOrder
<1>6. /\ \A k \in 1 .. Cardinality(begun) : first[k] \in begun
      /\ \A n \in begun : \E k \in 1 .. Cardinality(begun) : first[k] = n
  <2> HIDE DEF begun, R, first
  <2>1. /\ InOrder(begun, R) \in [1 .. Cardinality(begun) -> begun]
        /\ \A x \in begun : \E k \in 1 .. Cardinality(begun) : InOrder(begun, R)[k] = x
    BY <1>1, <1>4, InOrderLists
  <2> QED
    BY <1>5, <2>1
<1>7. text = [k \in 1 .. Cardinality(begun) |-> RunText(members, first[k], high)]
  BY DEF Scan, BegunIn
<1> HIDE DEF text
<1>8. \A n \in begun : /\ RunText(members, n, high) \in Elements
                       /\ IsRun(RunText(members, n, high), members, n, high)
  <2>1. \A n \in begun : IsRun(RunText(members, n, high), members, n, high)
    BY <1>3, RunSpec
  <2> HIDE DEF begun
  <2> QED
    BY <2>1 DEF IsRun
<1> HIDE DEF begun, first
<1>9. \A k \in 1 .. Cardinality(begun) : text[k] \in Elements
  BY <1>6, <1>7, <1>8
<1>10. text \in Seq(Elements) /\ Len(text) = Cardinality(begun) /\ DOMAIN text = 1 .. Cardinality(begun)
  BY <1>1, <1>7, <1>9
<1>11. /\ \A k \in DOMAIN text : \E n \in begun : IsRun(text[k], members, n, high)
       /\ \A n \in begun : \E k \in DOMAIN text : IsRun(text[k], members, n, high)
  BY <1>6, <1>7, <1>8, <1>10
<1> QED
  BY <1>3, <1>10, <1>11 DEF text, begun, Part, ListsRuns

Numbers(slots) == {b + 1 : b \in slots}
SlotsText(slots) == MembersText(Numbers(slots), SlotLimit + 1)

\* The slots of a mask, written as a list, name no others; they name all of them
\* and can be read if no two are neighbours and none is beyond 9.
LEMMA SlotsWritten ==
  ASSUME NEW slots \in SUBSET SlotBits
  PROVE  /\ SlotsText(slots) \in Part /\ \A k \in DOMAIN SlotsText(slots) : Plain(SlotsText(slots)[k])
         /\ SlotsNamed(SlotsText(slots)) \subseteq Numbers(slots)
         /\ Apart(slots) /\ slots \subseteq 0 .. 8 =>
              /\ ReadableMembers(SlotsText(slots)) /\ SlotsNamed(SlotsText(slots)) = Numbers(slots)
              /\ slots # {} => SlotsText(slots) # <<>>
<1> DEFINE members == Numbers(slots)
           text == SlotsText(slots)
           begun == BegunIn(members, 0, SlotLimit)
<1>1. /\ SlotLimit \in Nat /\ slots \subseteq Nat /\ members \subseteq 1 .. SlotLimit
      /\ members = {b + 1 : b \in slots} /\ text = MembersText(members, SlotLimit + 1)
  BY Widths DEF SlotBits, Numbers, SlotsText
<1> HIDE DEF members, text
<1>2. text = Scan(members, 0, SlotLimit)
  <2>1. (SlotLimit + 1) - 1 = SlotLimit
    BY <1>1
  <2> QED
    BY <1>1, <2>1 DEF MembersText
<1>3. /\ text \in Part /\ DOMAIN text = 1 .. Len(text)
      /\ \A k \in DOMAIN text : \E n \in begun : IsRun(text[k], members, n, SlotLimit)
      /\ \A n \in begun : \E k \in DOMAIN text : IsRun(text[k], members, n, SlotLimit)
      /\ \A n \in begun : n \in members
  <2>1. 0 \in Nat /\ SlotLimit \in Nat
    BY <1>1
  <2>2. ListsRuns(text, members, 0, SlotLimit)
    BY <1>2, <2>1, ScanRuns, Zenon
  <2> QED
    BY <2>2, Zenon DEF ListsRuns
<1>4. \A k \in DOMAIN text : /\ text[k].how = "plain" /\ PortRange(text[k]) \subseteq members
                             /\ text[k].from \in members
                             /\ text[k].dash <=> More(members, text[k].from)
  <2> SUFFICES ASSUME NEW k \in DOMAIN text
               PROVE  /\ text[k].how = "plain" /\ PortRange(text[k]) \subseteq members
                      /\ text[k].from \in members /\ (text[k].dash <=> More(members, text[k].from))
    BY Zenon
  <2>1. PICK n \in begun : IsRun(text[k], members, n, SlotLimit)
    BY <1>3
  <2>2. n \in members
    BY <1>3
  <2> HIDE DEF begun
  <2> QED
    BY <2>1, <2>2 DEF IsRun
<1>5. \A n : n \in SlotsNamed(text) <=> \E k \in DOMAIN text : n \in PortRange(text[k])
  BY <1>4 DEF SlotsNamed
<1>6. ASSUME Apart(slots), slots \subseteq 0 .. 8
      PROVE  /\ ReadableMembers(text) /\ SlotsNamed(text) = members
             /\ slots # {} => text # <<>>
  <2>1. \A n \in members : n \in 1 .. 9 /\ n + 1 \notin members /\ n - 1 \notin members
    <3> SUFFICES ASSUME NEW b \in slots
                 PROVE  b + 1 \in 1 .. 9 /\ (b + 1) + 1 \notin members /\ (b + 1) - 1 \notin members
      BY <1>1
    <3>1. b + 1 \notin slots /\ b - 1 \notin slots /\ b \in Nat /\ b \in 0 .. 8
      BY <1>1, <1>6 DEF Apart
    <3>2. \A c \in slots : c \in Nat /\ c # b + 1 /\ c # b - 1
      BY <1>1, <3>1
    <3>3. b + 1 \in 1 .. 9
      BY <3>1
    <3>4. (b + 1) + 1 \notin members /\ (b + 1) - 1 \notin members
      <4> SUFFICES ASSUME NEW c \in slots PROVE c + 1 # (b + 1) + 1 /\ c + 1 # (b + 1) - 1
        BY <1>1
      <4> QED
        BY <3>1, <3>2
    <3> QED
      BY <3>3, <3>4
  <2>2. \A n \in members : n \in begun
    <3> SUFFICES ASSUME NEW n \in members PROVE n \in begun
      OBVIOUS
    <3>1. n \in 0 .. SlotLimit /\ n - 1 \notin members
      <4>1. PICK b \in slots : n = b + 1
        BY <1>1
      <4>2. n \in 0 .. SlotLimit
        BY <4>1, Widths DEF SlotBits
      <4>3. n - 1 \notin members
        BY <2>1, Zenon
      <4> QED
        BY <4>2, <4>3
    <3> QED
      BY <3>1 DEF Begun, BegunIn
  <2>3. \A k \in DOMAIN text : ~text[k].dash /\ text[k].from \in 1 .. 9 /\ text[k].from \in 1 .. SlotLimit
    BY <1>1, <1>4, <2>1 DEF More
  <2>4. ReadableMembers(text)
    BY <1>4, <2>3 DEF ReadableMembers, OneCharacter, BadMember
  <2>5. \A n \in members : \E k \in DOMAIN text : n \in PortRange(text[k])
    <3> SUFFICES ASSUME NEW n \in members PROVE \E k \in DOMAIN text : n \in PortRange(text[k])
      OBVIOUS
    <3>1. PICK k \in DOMAIN text : IsRun(text[k], members, n, SlotLimit)
      BY <1>3, <2>2
    <3> QED
      BY <2>3, <3>1 DEF IsRun, PortRange
  <2>6. SlotsNamed(text) = members
    BY <1>4, <1>5, <2>5
  <2>7. slots # {} => DOMAIN text # {}
    <3>1. \A b \in slots : b + 1 \in members
      BY <1>1
    <3> QED
      BY <2>5, <3>1
  <2> QED
    BY <1>3, <2>4, <2>6, <2>7
<1>7. SlotsNamed(text) \subseteq members
  BY <1>4, <1>5
<1> QED
  BY <1>3, <1>4, <1>6, <1>7 DEF Plain, text, members

\* The modules of a mask likewise, each by its letter.
LEMMA ModulesWritten ==
  ASSUME NEW modules \in SUBSET ModuleBits, NEW text, text = ModulesText(modules)
  PROVE  /\ text \in Part /\ ModulesNamed(text) \subseteq modules
         /\ Apart(modules) =>
              /\ ReadableMembers(text) /\ ModulesNamed(text) = modules
              /\ modules # {} => Letters(text) /\ Len(text) <= 6
<1> DEFINE plain == MembersText(modules, 7)
           begun == BegunIn(modules, 0, 6)
<1>1. \A n \in modules : n \in {4, 5, 6}
  BY DEF ModuleBits
<1>2. plain = Scan(modules, 0, 6)
  <2>1. 7 - 1 = 6
    OBVIOUS
  <2> QED
    BY <2>1 DEF MembersText
<1> HIDE DEF plain
<1>3. /\ plain \in Part /\ DOMAIN plain = 1 .. Len(plain) /\ Len(plain) = Cardinality(begun)
      /\ \A n \in begun : n \in modules
      /\ \A k \in DOMAIN plain : \E n \in begun : IsRun(plain[k], modules, n, 6)
      /\ \A n \in begun : \E k \in DOMAIN plain : IsRun(plain[k], modules, n, 6)
  <2>1. 0 \in Nat /\ 6 \in Nat
    OBVIOUS
  <2>2. ListsRuns(plain, modules, 0, 6)
    BY <1>2, <2>1, ScanRuns, Zenon
  <2> QED
    BY <2>2, Zenon DEF ListsRuns
<1>4. Len(plain) <= 3
  <2>1. begun \in SUBSET (4 .. 6)
    BY <1>1, <1>3
  <2>2. 4 \in Int /\ 6 \in Int
    OBVIOUS
  <2>3. IsFiniteSet(4 .. 6) /\ Cardinality(4 .. 6) = IF 4 > 6 THEN 0 ELSE 6 - 4 + 1
    BY <2>2, FS_Interval
  <2> HIDE DEF begun
  <2>4. Cardinality(begun) <= Cardinality(4 .. 6)
    BY <2>1, <2>3, FS_Subset
  <2> QED
    BY <1>3, <2>3, <2>4
<1>5. \A n \in {4, 5, 6} : LetterOf(n) \in DOMAIN Letter /\ Letter[LetterOf(n)] = n
  <2>1. \A n \in {4, 5, 6} : \E c \in DOMAIN Letter : Letter[c] = n
    BY LetterValues
  <2> QED
    BY <2>1 DEF LetterOf, ModuleBits
<1>6. \A k \in DOMAIN plain : /\ plain[k] \in Elements /\ plain[k].from \in modules
                              /\ plain[k].dash <=> More(modules, plain[k].from)
  BY <1>3 DEF IsRun
<1>7. text = [k \in DOMAIN plain |-> [plain[k] EXCEPT !.how = LetterOf(plain[k].from)]]
  BY DEF ModulesText, plain
<1>8. DOMAIN text = DOMAIN plain /\ DOMAIN text = 1 .. Len(plain) /\ Len(plain) \in Nat /\ Len(text) = Len(plain)
  BY <1>3, <1>7 DEF Part
<1>9. ASSUME NEW k \in DOMAIN text
      PROVE  /\ text[k] \in Elements
             /\ text[k].how \in DOMAIN Letter /\ Letter[text[k].how] = plain[k].from
             /\ text[k].dash = plain[k].dash /\ text[k].from = plain[k].from
             /\ plain[k].from \in modules /\ text[k].how # "*"
  <2>1. plain[k] \in Elements /\ plain[k].from \in modules
    BY <1>6, <1>8
  <2>2. LetterOf(plain[k].from) \in DOMAIN Letter /\ Letter[LetterOf(plain[k].from)] = plain[k].from
    BY <1>1, <1>5, <2>1
  <2>3. text[k] = [plain[k] EXCEPT !.how = LetterOf(plain[k].from)]
    BY <1>7, <1>8
  <2>4. /\ text[k].how = LetterOf(plain[k].from) /\ text[k] \in Elements
        /\ text[k].dash = plain[k].dash /\ text[k].from = plain[k].from
    BY <2>1, <2>2, <2>3 DEF Elements
  <2> QED
    BY <2>1, <2>2, <2>4, LetterValues
<1>10. text \in Part
  <2>1. \A k \in 1 .. Len(plain) : text[k] \in Elements
    BY <1>8, <1>9
  <2>2. text = [k \in 1 .. Len(plain) |-> text[k]]
    BY <1>7, <1>8
  <2> QED
    BY <1>8, <2>1, <2>2 DEF Part
<1>11. \A n : n \in ModulesNamed(text) <=> \E k \in DOMAIN text : n = plain[k].from
  <2>1. \A n : n \in ModulesNamed(text) <=>
          \E k \in DOMAIN text : n \in IF text[k].how = "*" THEN ModuleBits ELSE {Letter[text[k].how]}
    BY DEF ModulesNamed
  <2> QED
    BY <1>9, <2>1
<1>12. ASSUME Apart(modules)
       PROVE  /\ ReadableMembers(text) /\ ModulesNamed(text) = modules
              /\ modules # {} => Letters(text) /\ Len(text) <= 6
  <2>1. \A n \in modules : n \in {4, 5, 6} /\ n + 1 \notin modules /\ n - 1 \notin modules
    <3> SUFFICES ASSUME NEW n \in modules
                 PROVE  n \in {4, 5, 6} /\ n + 1 \notin modules /\ n - 1 \notin modules
      OBVIOUS
    <3>1. n \in {4, 5, 6} /\ n + 1 \notin modules
      BY <1>1, <1>12 DEF Apart
    <3>2. ASSUME n - 1 \in modules PROVE FALSE
      <4>1. (n - 1) + 1 \notin modules
        BY <1>12, <3>2 DEF Apart
      <4>2. (n - 1) + 1 = n
        BY <3>1
      <4> QED
        BY <4>1, <4>2
    <3> QED
      BY <3>1, <3>2
  <2>2. \A n \in modules : n \in begun
    BY <2>1 DEF Begun, BegunIn
  <2>3. \A k \in DOMAIN text : ~text[k].dash
    BY <1>6, <1>8, <1>9, <2>1 DEF More
  <2>4. ReadableMembers(text)
    BY <1>9, <2>3, LetterValues DEF ReadableMembers, OneCharacter, BadMember, Plain
  <2>5. \A n \in modules : \E k \in DOMAIN text : n = plain[k].from
    <3> SUFFICES ASSUME NEW n \in modules PROVE \E k \in DOMAIN text : n = plain[k].from
      OBVIOUS
    <3>1. PICK k \in DOMAIN plain : IsRun(plain[k], modules, n, 6)
      BY <1>3, <2>2
    <3> QED
      BY <1>8, <3>1 DEF IsRun
  <2>6. ModulesNamed(text) = modules
    <3>1. \A n : n \in ModulesNamed(text) => n \in modules
      BY <1>9, <1>11
    <3>2. \A n : n \in modules => n \in ModulesNamed(text)
      BY <1>11, <2>5
    <3> QED
      BY <3>1, <3>2
  <2>7. modules # {} => text # <<>>
    <3>1. modules # {} => DOMAIN text # {}
      BY <2>5
    <3> QED
      BY <3>1
  <2>8. modules # {} => Letters(text)
    BY <1>9, <2>3, <2>7 DEF Letters
  <2>9. Len(text) <= 6
    BY <1>4, <1>8
  <2> QED
    BY <2>4, <2>6, <2>8, <2>9
<1>13. ModulesNamed(text) \subseteq modules
  BY <1>9, <1>11
<1> QED
  BY <1>10, <1>12, <1>13

\* The ports of a mask: the list names them all, by runs or by *, and is read back.
LEMMA PortsWritten ==
  ASSUME NEW ports \in [1 .. 4 -> SUBSET Bits], NEW text, text = PortsText(ports),
         NEW members, members = {n \in 1 .. PortLimit : PortSet(ports, n)}
  PROVE  /\ text \in Part /\ (text = <<Star>> \/ \A k \in DOMAIN text : Plain(text[k]))
         /\ ~RefusedPorts(text) /\ PortsNamed(text) = members
<1>1. PortLimit \in Nat /\ PortLimit = 2 * WordSize /\ WordSize \in Nat /\ WordSize > 0
  BY Widths, StarAssumption
<1>2. CASE ports[1] = Bits /\ ports[2] = Bits
  <2>1. text = <<Star>>
    BY <1>2 DEF PortsText
  <2>2. DOMAIN text = {1} /\ text[1] = Star /\ Star \in Elements
    BY <2>1 DEF Star, Elem, Elements
  <2>3. text \in Part
    BY <2>1, <2>2 DEF Part
  <2>4. ~RefusedPorts(text)
    BY <2>2 DEF RefusedPorts, BadPorts, Star, Elem
  <2>5. PortsNamed(text) = 1 .. 2 * WordSize
    <3>1. text[1].how = "*"
      BY <2>2 DEF Star, Elem
    <3> QED
      BY <2>2, <3>1, ZenonT(40) DEF PortsNamed
  <2>6. \A n \in 1 .. PortLimit : PortSet(ports, n)
    <3> SUFFICES ASSUME NEW n \in 1 .. PortLimit PROVE PortSet(ports, n)
      OBVIOUS
    <3>1. n \in 1 .. 4 * WordSize /\ n <= 2 * WordSize
      BY <1>1
    <3>2. (n - 1) % WordSize \in Bits /\ (n - 1) \div WordSize \in {0, 1}
      BY <3>1, Place
    <3>3. ports[(n - 1) \div WordSize + 1] = Bits
      BY <1>2, <3>2
    <3> QED
      BY <3>2, <3>3 DEF PortSet
  <2> QED
    BY <1>1, <2>1, <2>3, <2>4, <2>5, <2>6
<1>3. CASE ~(ports[1] = Bits /\ ports[2] = Bits)
  <2> DEFINE all == {n \in 1 .. PortLimit + 1 : PortSet(ports, n)}
             begun == BegunIn(all, 1, PortLimit)
  <2>1. text = Scan(all, 1, PortLimit)
    BY <1>3 DEF PortsText
  <2>2. members \subseteq all /\ \A n \in all : n \in 1 .. PortLimit => n \in members
    BY <1>1
  <2> HIDE DEF all
  <2>3. /\ text \in Part
        /\ \A n \in begun : n \in all /\ n \in 1 .. PortLimit
        /\ \A k \in DOMAIN text : \E n \in begun : IsRun(text[k], all, n, PortLimit)
        /\ \A n \in begun : \E k \in DOMAIN text : IsRun(text[k], all, n, PortLimit)
    <3>1. 1 \in Nat /\ PortLimit \in Nat
      BY <1>1
    <3>2. ListsRuns(text, all, 1, PortLimit)
      BY <2>1, <3>1, ScanRuns, Zenon
    <3> QED
      BY <3>2, Zenon DEF ListsRuns
  <2>4. ASSUME NEW k \in DOMAIN text
        PROVE  /\ text[k].how = "plain" /\ ~BadPorts(text[k])
               /\ PortRange(text[k]) \subseteq members
    <3>1. PICK n \in begun : IsRun(text[k], all, n, PortLimit)
      BY <2>3
    <3>2. n \in Nat /\ n \in 1 .. PortLimit /\ text[k].to \in n .. PortLimit
      BY <2>3, <3>1 DEF IsRun
    <3>3. text[k].how = "plain" /\ text[k].from = n /\ n .. text[k].to \subseteq all
          /\ PortRange(text[k]) = n .. text[k].to
      BY <3>1 DEF IsRun
    <3>4. ~BadPorts(text[k])
      BY <1>1, <3>2, <3>3 DEF BadPorts
    <3>5. n .. text[k].to \subseteq 1 .. PortLimit
      BY <1>1, <3>2
    <3> QED
      BY <2>2, <3>3, <3>4, <3>5
  <2>5. ASSUME NEW m \in members
        PROVE  \E k \in DOMAIN text : m \in PortRange(text[k])
    <3> DEFINE L == {l \in 1 .. m : l .. m \subseteq all}
    <3>1. m \in Nat /\ m \in 1 .. PortLimit /\ m \in all
      BY <2>2
    <3>2. m \in L /\ L \subseteq Nat
      BY <3>1
    <3>3. PICK l \in L : \A x \in L : l <= x
      BY <3>2, LeastNumber
    <3>4. l \in Nat /\ l \in 1 .. m /\ l \in 1 .. PortLimit /\ l .. m \subseteq all /\ l \in all
      <4>1. l \in 1 .. m /\ l .. m \subseteq all
        BY <3>3
      <4>2. l \in Nat /\ l <= m /\ 1 <= l
        BY <3>1, <4>1
      <4>3. l \in l .. m /\ l \in 1 .. PortLimit
        BY <1>1, <3>1, <4>2
      <4> QED
        BY <4>1, <4>2, <4>3
    <3>5. Begun(all, l)
      <4> SUFFICES ASSUME l > 1, l - 1 \in all PROVE FALSE
        BY <3>4 DEF Begun
      <4>1. l - 1 \in 1 .. m /\ l - 1 < l
        BY <3>1, <3>4
      <4>2. (l - 1) .. m \subseteq all
        <5> SUFFICES ASSUME NEW x \in (l - 1) .. m PROVE x \in all
          OBVIOUS
        <5>1. x = l - 1 \/ x \in l .. m
          BY <3>1, <3>4
        <5> QED
          BY <3>4, <5>1
      <4> QED
        BY <3>3, <3>4, <4>1, <4>2
    <3>6. PICK k \in DOMAIN text : IsRun(text[k], all, l, PortLimit)
      BY <2>3, <3>4, <3>5 DEF BegunIn
    <3>7. /\ text[k].to \in l .. PortLimit
          /\ PortRange(text[k]) = l .. text[k].to
      BY <3>6 DEF IsRun
    <3>8. m <= text[k].to
      <4> SUFFICES ASSUME text[k].to < m PROVE FALSE
        BY <1>1, <3>1, <3>4, <3>7
      <4>1. text[k].to \in Nat /\ l <= text[k].to /\ text[k].to + 1 \in l .. m /\ text[k].to + 1 \in all
            /\ text[k].to + 1 <= PortLimit
        <5>1. text[k].to \in Nat /\ l <= text[k].to
          BY <1>1, <3>4, <3>7
        <5>2. text[k].to + 1 \in l .. m /\ text[k].to + 1 <= PortLimit
          BY <1>1, <3>1, <3>4, <5>1
        <5> QED
          BY <3>4, <5>1, <5>2
      <4>2. text[k].to = PortLimit \/ text[k].to + 1 \notin all
        BY <3>4, <3>6 DEF IsRun
      <4> QED
        BY <1>1, <4>1, <4>2
    <3>9. m \in l .. text[k].to
      BY <1>1, <3>1, <3>4, <3>7, <3>8
    <3> QED
      BY <3>7, <3>9
  <2>6. ~RefusedPorts(text)
    BY <2>4 DEF RefusedPorts
  <2>7. \A n : n \in PortsNamed(text) <=> \E k \in DOMAIN text : n \in PortRange(text[k])
    <3>1. \A n : n \in PortsNamed(text) <=>
            \E k \in DOMAIN text : n \in IF text[k].how = "*" THEN 1 .. 2 * WordSize ELSE PortRange(text[k])
      BY DEF PortsNamed
    <3> QED
      BY <2>4, <3>1
  <2>8. PortsNamed(text) = members
    BY <2>4, <2>5, <2>7
  <2> QED
    BY <2>3, <2>4, <2>6, <2>8 DEF Plain
<1> QED
  BY <1>2, <1>3

\* What an answer shows is typed: whatever was typed before, it selects only the
\* interfaces it stood for, and all of them if it can be read.
MaskType == [slots : SUBSET SlotBits, modules : SUBSET ModuleBits, ports : [1 .. 4 -> SUBSET Bits]]

LEMMA TextType ==
  ASSUME NEW mask \in MaskType
  PROVE  /\ TextOf(mask) \in Sentence /\ Len(TextOf(mask)) = 3
         /\ TextOf(mask)[1] = SlotsText(mask.slots)
         /\ TextOf(mask)[2] = ModulesText(mask.modules)
         /\ TextOf(mask)[3] = PortsText(mask.ports)
         /\ mask.slots \in SUBSET SlotBits /\ mask.modules \in SUBSET ModuleBits
         /\ mask.ports \in [1 .. 4 -> SUBSET Bits]
<1> DEFINE s == SlotsText(mask.slots)
           m == ModulesText(mask.modules)
           p == PortsText(mask.ports)
<1>1. /\ mask.slots \in SUBSET SlotBits /\ mask.modules \in SUBSET ModuleBits
      /\ mask.ports \in [1 .. 4 -> SUBSET Bits]
  BY DEF MaskType
<1>2. s \in Part /\ m \in Part /\ p \in Part
  BY <1>1, SlotsWritten, ModulesWritten, PortsWritten
<1>3. TextOf(mask) = <<s, m, p>>
  BY DEF TextOf, SlotsText, Numbers
<1> HIDE DEF s, m, p
<1>4. TextOf(mask) \in Sentence /\ Len(TextOf(mask)) = 3
      /\ TextOf(mask)[1] = s /\ TextOf(mask)[2] = m /\ TextOf(mask)[3] = p
  BY <1>2, <1>3 DEF Sentence
<1> QED
  BY <1>1, <1>4 DEF s, m, p

\* The text of a mask that can be read is one word.
LEMMA OneWord ==
  ASSUME NEW mask \in MaskType, ReadableMask(mask), MaskSet(mask) # {}
  PROVE  SmpsData(TextOf(mask))
<1> DEFINE w == TextOf(mask)
           ports == {n \in 1 .. PortLimit : PortSet(mask.ports, n)}
<1>1. Len(w) = 3
  BY TextType
<1>2. mask.slots # {} /\ mask.modules # {} /\ ports # {}
  BY DEF MaskSet
<1>3. w[1] \in Part /\ w[1] # <<>> /\ \A k \in DOMAIN w[1] : Plain(w[1][k])
  BY <1>2, TextType, SlotsWritten DEF ReadableMask
<1>4. w[2] \in Part /\ Letters(w[2]) /\ Len(w[2]) <= 6
  BY <1>2, TextType, ModulesWritten DEF ReadableMask
<1>5. /\ w[3] \in Part /\ (w[3] = <<Star>> \/ \A k \in DOMAIN w[3] : Plain(w[3][k]))
      /\ PortsNamed(w[3]) = ports
  BY TextType, PortsWritten
<1> HIDE DEF w, ports
<1>6. w[3] # <<>>
  <2>1. w[3] = <<>> => PortsNamed(w[3]) = {}
    BY DEF PortsNamed
  <2> QED
    BY <1>2, <1>5, <2>1
<1>7. SmpElem(w[1]) /\ SmpM3(w[2]) /\ SmpElem(w[3])
  BY <1>3, <1>4, <1>5, <1>6 DEF SmpElem, SmpM3, Nums
<1>8. SmpsData(w)
  BY <1>1, <1>7 DEF SmpsData
<1> QED
  BY <1>8 DEF w

LEMMA TypedBack ==
  ASSUME NEW mask \in MaskType, NEW w \in Sentence, w = TextOf(mask), yylval \in Union,
         yylval' = Reading(w), token' = TokenOf(w), word' = w, ~overrun'
  PROVE  /\ Selected' \subseteq MaskSet(mask)
         /\ ReadableMask(mask) => Selected' = MaskSet(mask)
<1> DEFINE slots == Numbers(mask.slots)
           ports == {n \in 1 .. PortLimit : PortSet(mask.ports, n)}
           apart == ReadableMask(mask)
<1>1. Len(w) = 3
  BY TextType
<1>2. MaskSet(mask) = slots \X mask.modules \X ports
  BY DEF MaskSet, Numbers
<1>3. /\ w[1] \in Part /\ \A k \in DOMAIN w[1] : Plain(w[1][k])
      /\ SlotsNamed(w[1]) \subseteq slots
      /\ apart => ReadableMembers(w[1]) /\ SlotsNamed(w[1]) = slots
  BY TextType, SlotsWritten DEF ReadableMask
<1>4. /\ w[2] \in Part /\ ModulesNamed(w[2]) \subseteq mask.modules
      /\ apart => ReadableMembers(w[2]) /\ ModulesNamed(w[2]) = mask.modules
  BY TextType, ModulesWritten DEF ReadableMask
<1>5. /\ w[3] \in Part /\ (w[3] = <<Star>> \/ \A k \in DOMAIN w[3] : Plain(w[3][k]))
      /\ ~RefusedPorts(w[3]) /\ PortsNamed(w[3]) = ports
  BY TextType, PortsWritten
<1>6. apart /\ MaskSet(mask) # {} => SmpsData(w)
  BY OneWord
<1> HIDE DEF slots, ports, apart
<1>7. SelectsOnlyNamed' /\ ReadableIsSelected'
  BY Read
<1>8. token' # "_MPS_" /\ token' # "_PS_"
  <2>1. ~MpsData(w) /\ ~PortsData(w)
    BY <1>1 DEF MpsData, PortsData
  <2>2. TokenOf(w) # "_MPS_" /\ TokenOf(w) # "_PS_"
    BY <2>1, Shapes, Zenon
  <2> QED
    BY <2>2
<1>9. Selected' \subseteq MaskSet(mask)
  <2>1. CASE token' = "_SMPS_"
    <3>1. Named' = SlotsNamed(w[1]) \X ModulesNamed(w[2]) \X PortsNamed(w[3])
      BY <2>1 DEF Named
    <3>2. Named' \subseteq MaskSet(mask)
      BY <1>2, <1>3, <1>4, <1>5, <3>1
    <3> QED
      BY <1>7, <3>2 DEF SelectsOnlyNamed
  <2>2. CASE token' # "_SMPS_"
    BY <1>8, <2>2 DEF Selected
  <2> QED
    BY <2>1, <2>2
<1>10. ASSUME apart PROVE Selected' = MaskSet(mask)
  <2>1. CASE MaskSet(mask) # {}
    <3>4. token' = "_SMPS_"
      BY <1>6, <1>10, <2>1, Shapes
    <3>5. Readable'
      <4>1. Len(w) - 1 = 2
        BY <1>1
      <4>2. ReadableMembers(w[1]) /\ ReadableMembers(w[Len(w) - 1]) /\ ~RefusedPorts(w[Len(w)])
        BY <1>1, <1>3, <1>4, <1>5, <1>10, <4>1
      <4> QED
        BY <4>2 DEF Readable
    <3>6. Selected' = Named'
      BY <1>7, <3>4, <3>5 DEF ReadableIsSelected
    <3>7. Named' = SlotsNamed(w[1]) \X ModulesNamed(w[2]) \X PortsNamed(w[3])
      BY <3>4 DEF Named
    <3> QED
      BY <1>2, <1>3, <1>4, <1>5, <1>10, <3>6, <3>7
  <2>2. CASE MaskSet(mask) = {}
    BY <1>9, <2>2
  <2> QED
    BY <2>1, <2>2
<1> QED
  BY <1>9, <1>10 DEF apart

-----------------------------------------------------------------------------
(* An identifier. *)

\* A word that is an identifier has characters, which are looked up in the table.
LEMMA Spelled ==
  ASSUME NEW w \in Sentence, Ident(w)
  PROVE  Characters(w) \in Spelling /\ Characters(w) # <<>>
<1>1. w[1] \in Part /\ w[1] # <<>>
  BY DEF Ident, Sentence
<1>2. DOMAIN w[1] = 1 .. Len(w[1]) /\ Len(w[1]) \in Nat \ {0}
  BY <1>1 DEF Part
<1>3. \A k \in DOMAIN w[1] : w[1][k].from \in Nat
  BY <1>1, ElementType
<1>4. Characters(w) = [k \in 1 .. Len(w[1]) |-> w[1][k].from]
  BY <1>2 DEF Characters
<1>5. Characters(w) \in Seq(Nat) /\ Len(Characters(w)) = Len(w[1])
  BY <1>2, <1>3, <1>4
<1> QED
  BY <1>2, <1>5 DEF Spelling

LEMMA KeywordLookup ==
  ASSUME NEW w \in Sentence, token_table = Table
  PROVE  /\ KeywordOf(w) \in Keywords \cup {NoWord} /\ NoWord \notin Keywords
         /\ Ident(w) =>
              /\ Characters(w) \in Keywords => KeywordOf(w) = Characters(w)
              /\ Characters(w) \notin Keywords =>
                   /\ \A k \in Keywords : BegunBy(Characters(w)) = {k} => KeywordOf(w) = k
                   /\ (\A k \in Keywords : BegunBy(Characters(w)) # {k}) => KeywordOf(w) = NoWord
<1>1. NoWord \notin Keywords
  BY KeywordsAssumption DEF NoWord
<1>2. CASE ~Ident(w)
  BY <1>1, <1>2 DEF KeywordOf
<1>3. CASE Ident(w)
  <2> DEFINE p == Characters(w)
  <2>1. p \in Spelling /\ p # <<>>
    BY <1>3, Spelled
  <2>2. KeywordOf(w) = FindToken(Table, p)
    BY <1>3 DEF KeywordOf
  <2> HIDE DEF p
  <2>3. /\ p \in Keywords => KeywordOf(w) = p
        /\ p \notin Keywords =>
             /\ \A k \in Keywords : BegunBy(p) = {k} => KeywordOf(w) = k
             /\ (\A k \in Keywords : BegunBy(p) # {k}) => KeywordOf(w) = NoWord
    BY <2>1, <2>2, AbbreviationsAreExact DEF NoWord
  <2> QED
    BY <1>1, <1>3, <2>3 DEF p
<1> QED
  BY <1>2, <1>3

\* A set of keywords with one element is the set of that keyword.
LEMMA OneOf ==
  ASSUME NEW begun \in SUBSET Keywords
  PROVE  Cardinality(begun) = 1 <=> \E k \in Keywords : begun = {k}
<1>1. IsFiniteSet(begun)
  BY KeywordsAssumption, FS_Subset
<1>2. \A k : Cardinality({k}) = 1
  BY FS_Singleton
<1>3. Cardinality(begun) = 1 => \E k : begun = {k}
  BY <1>1, FS_Singleton
<1> QED
  BY <1>2, <1>3

LEMMA NamesOne ==
  ASSUME NEW w \in Sentence, token_table = Table,
         token' = TokenOf(w), keyword' = KeywordOf(w), word' = w
  PROVE  AbbreviationNamesOne'
<1> DEFINE p == Characters(w)
           begun == {k \in Keywords : IsPrefix(p, k)}
           own == IF p \in Keywords THEN {p} ELSE begun
<1> SUFFICES ASSUME Ident(w)
             PROVE  IF Cardinality(own) = 1 THEN keyword' \in own ELSE token' = "_NAME_"
  BY DEF AbbreviationNamesOne, Begins
<1>1. begun = BegunBy(p)
  BY DEF BegunBy
<1>2. KeywordOf(w) = NoWord => token' = "_NAME_"
  BY Shapes
<1>3. CASE p \in Keywords
  <2>1. own = {p} /\ keyword' = p
    BY <1>3, KeywordLookup
  <2>2. Cardinality({p}) = 1
    BY FS_Singleton
  <2> HIDE DEF own
  <2> QED
    BY <2>1, <2>2
<1>4. CASE p \notin Keywords
  <2>1. own = begun /\ begun \in SUBSET Keywords
    BY <1>4
  <2> HIDE DEF own, begun
  <2>2. CASE Cardinality(own) = 1
    <3>1. PICK k \in Keywords : begun = {k}
      BY <2>1, <2>2, OneOf
    <3>2. keyword' = k
      BY <1>1, <1>4, <3>1, KeywordLookup
    <3> QED
      BY <2>1, <2>2, <3>1, <3>2
  <2>3. CASE Cardinality(own) # 1
    <3>1. \A k \in Keywords : begun # {k}
      BY <2>1, <2>3, OneOf
    <3>2. KeywordOf(w) = NoWord
      BY <1>1, <1>4, <3>1, KeywordLookup
    <3> QED
      BY <1>2, <2>3, <3>2
  <2> QED
    BY <2>2, <2>3
<1> QED
  BY <1>3, <1>4

-----------------------------------------------------------------------------
(* The invariant. *)
LexerInv ==
  /\ TypeOK /\ token_table = Table /\ yylval \in Union
  /\ SelectsOnlyNamed /\ ReadableIsSelected /\ ShownTypesBack /\ AbbreviationNamesOne

LEMMA LexerInit == Init => LexerInv
<1> SUFFICES ASSUME Init PROVE LexerInv
  OBVIOUS
<1>1. token_table = Table /\ token_table \in Seq([name : Keywords, match_len : Nat \ {0}])
  BY TableRows DEF Init
<1>2. yylval = [j \in 1 .. 6 |-> {}] /\ yylval \in Union
  BY DEF Init, Union
<1>3. token = "" /\ keyword = NoWord /\ word = NoWord /\ shown \in Masks \cup {NoMask}
  BY DEF Init
<1>4. overrun \in BOOLEAN
  BY DEF Init
<1>5. TypeOK
  BY <1>1, <1>2, <1>3, <1>4 DEF TypeOK, Union
<1>6. Selected = {} /\ token \notin Interfaces
  BY <1>3 DEF Selected, Interfaces
<1>7. SelectsOnlyNamed /\ ReadableIsSelected
  BY <1>6 DEF SelectsOnlyNamed, ReadableIsSelected, Interfaces
<1>8. ~Ident(word)
  <2>1. Len(word) = 0
    BY <1>3 DEF NoWord
  <2> QED
    BY <2>1 DEF Ident
<1>9. AbbreviationNamesOne
  BY <1>8 DEF AbbreviationNamesOne
<1>10. ShownTypesBack
  <2>1. shown # NoMask => shown \in MaskType
    BY <1>3, MasksAssumption DEF MaskType
  <2>2. shown # NoMask /\ ReadableMask(shown) /\ MaskSet(shown) # {} => SmpsData(TextOf(shown))
    BY <2>1, OneWord
  <2> QED
    BY <1>3, <2>2 DEF ShownTypesBack
<1> QED
  BY <1>1, <1>2, <1>5, <1>7, <1>9, <1>10 DEF LexerInv

\* What a word leaves behind in the union, overrun or not.
LEMMA Storing ==
  ASSUME NEW w \in Sentence, yylval \in Union, ~overrun,
         Stored(w), token' = TokenOf(w), word' = w
  PROVE  /\ yylval' \in Union /\ overrun' \in BOOLEAN
         /\ SelectsOnlyNamed' /\ ReadableIsSelected'
         /\ ~overrun' => yylval' = Reading(w)
<1>1. overrun' = Overruns(w) /\ overrun' \in BOOLEAN
  BY DEF Stored, Overruns
<1>2. CASE Overruns(w)
  <2>1. yylval' \in Overwritten /\ overrun'
    BY <1>1, <1>2 DEF Stored
  <2>2. yylval' \in Union
    BY <2>1, OverwrittenAssumption DEF Union
  <2> QED
    BY <1>1, <2>1, <2>2 DEF SelectsOnlyNamed, ReadableIsSelected
<1>3. CASE ~Overruns(w)
  <2>1. yylval' = Reading(w)
    BY <1>3 DEF Stored
  <2> QED
    BY <1>1, <2>1, Read
<1> QED
  BY <1>2, <1>3

LEMMA LexerStep == LexerInv /\ [Next]_vars => LexerInv'
<1> SUFFICES ASSUME LexerInv, [Next]_vars PROVE LexerInv'
  OBVIOUS
<1>1. /\ token_table = Table /\ token_table \in Seq([name : Keywords, match_len : Nat \ {0}])
      /\ yylval \in Union /\ shown \in Masks \cup {NoMask}
  BY DEF LexerInv, TypeOK
<1>2. ASSUME NEW w \in Words, Type(w) PROVE LexerInv'
  <2>1. w \in Sentence
    BY WordsAssumption DEF Sentence, Part
  <2>2. /\ ~overrun /\ Stored(w) /\ token' = TokenOf(w) /\ keyword' = KeywordOf(w) /\ word' = w
        /\ shown' = NoMask /\ token_table' = token_table
    BY <1>2 DEF Type
  <2>3. yylval' \in Union /\ overrun' \in BOOLEAN /\ SelectsOnlyNamed' /\ ReadableIsSelected'
    BY <1>1, <2>1, <2>2, Storing
  <2>4. AbbreviationNamesOne'
    BY <1>1, <2>1, <2>2, NamesOne
  <2>5. /\ keyword' \in Keywords \cup {NoWord} /\ (keyword' # NoWord <=> token' = "keyword")
        /\ token' \in {"_SMPS_", "_MPS_", "_PS_", "_INT_", "_NAME_", "keyword", "characters"}
    BY <1>1, <2>1, <2>2, KeywordLookup, Shapes
  <2>6. TypeOK'
    BY <1>1, <1>2, <2>2, <2>3, <2>5 DEF TypeOK, Union
  <2>7. ShownTypesBack'
    BY <2>2 DEF ShownTypesBack
  <2> QED
    BY <1>1, <2>2, <2>3, <2>4, <2>6, <2>7 DEF LexerInv
<1>3. ASSUME TypeShown PROVE LexerInv'
  <2> DEFINE w == TextOf(shown)
  <2>1. shown \in MaskType /\ shown # NoMask
    BY <1>1, <1>3, MasksAssumption DEF TypeShown, MaskType
  <2>2. w \in Sentence /\ Len(w) = 3
    BY <2>1, TextType
  <2>3. /\ ~overrun /\ Stored(w) /\ token' = TokenOf(w) /\ keyword' = NoWord /\ word' = w
        /\ shown' = shown /\ token_table' = token_table
    BY <1>3 DEF TypeShown
  <2> HIDE DEF w
  <2>4. /\ yylval' \in Union /\ overrun' \in BOOLEAN /\ SelectsOnlyNamed' /\ ReadableIsSelected'
        /\ ~overrun' => yylval' = Reading(w)
    BY <1>1, <2>2, <2>3, Storing
  <2>5. ~Ident(w) /\ KeywordOf(w) = NoWord
    BY <2>2 DEF Ident, KeywordOf
  <2>6. /\ token' \in {"_SMPS_", "_MPS_", "_PS_", "_INT_", "_NAME_", "keyword", "characters"}
        /\ token' # "keyword"
    BY <2>2, <2>3, <2>5, Shapes
  <2>7. TypeOK'
    BY <1>1, <2>1, <2>3, <2>4, <2>6 DEF TypeOK, Union
  <2>8. AbbreviationNamesOne'
    BY <2>3, <2>5 DEF AbbreviationNamesOne
  <2>9. ASSUME ~overrun'
        PROVE  /\ Selected' \subseteq MaskSet(shown)
               /\ ReadableMask(shown) => Selected' = MaskSet(shown)
    BY <1>1, <2>1, <2>2, <2>3, <2>4, <2>9, TypedBack DEF w
  <2>10. ReadableMask(shown) /\ MaskSet(shown) # {} => SmpsData(TextOf(shown))
    BY <2>1, OneWord
  <2>11. ShownTypesBack'
    <3> SUFFICES ASSUME ~overrun'
                 PROVE  /\ ReadableMask(shown) /\ MaskSet(shown) # {} => SmpsData(TextOf(shown))
                        /\ Selected' \subseteq MaskSet(shown)
                        /\ ReadableMask(shown) => Selected' = MaskSet(shown)
      BY <2>3 DEF ShownTypesBack
    <3> QED
      BY <2>9, <2>10
  <2> QED
    BY <1>1, <2>3, <2>4, <2>7, <2>8, <2>11 DEF LexerInv
<1>4. ASSUME UNCHANGED vars PROVE LexerInv'
  <2>1. /\ token_table' = token_table /\ yylval' = yylval /\ token' = token
        /\ keyword' = keyword /\ word' = word /\ shown' = shown /\ overrun' = overrun
    BY <1>4 DEF vars
  <2>2. TypeOK'
    BY <2>1 DEF LexerInv, TypeOK
  <2>3. Selected' = Selected /\ Named' = Named /\ Readable' = Readable
    BY <2>1 DEF Selected, Named, PortsFrom, Readable
  <2>4. SelectsOnlyNamed' /\ ReadableIsSelected' /\ ShownTypesBack'
    BY <2>1, <2>3 DEF LexerInv, SelectsOnlyNamed, ReadableIsSelected, ShownTypesBack
  <2>5. AbbreviationNamesOne'
    BY <2>1 DEF LexerInv, AbbreviationNamesOne, Begins
  <2> QED
    BY <2>1, <2>2, <2>4, <2>5 DEF LexerInv
<1>5. ASSUME Undefined PROVE LexerInv'
  BY <1>4, <1>5 DEF Undefined
<1> QED
  BY <1>2, <1>3, <1>4, <1>5 DEF Next

LEMMA LexerInvariant == Spec => []LexerInv
<1> QED
  BY LexerInit, LexerStep, PTL DEF Spec

\* The table of keywords, the union, the token and the keyword keep their types,
\* whatever lists and identifiers are typed.
THEOREM LexerTypeCorrect == Spec => []TypeOK
<1>1. LexerInv => TypeOK
  BY DEF LexerInv
<1> QED
  BY <1>1, LexerInvariant, PTL

\* For words of one token with numbers that fit an int, as long as neither buf of
\* str2map_slot_module and str2map_ports nor the buffers of _print_smp_buf_new were
\* overrun: no token selects an interface that its word does not name, so the words
\* of the union that an earlier token has left are never taken for those of this one.
THEOREM SelectingNamed == Spec => []SelectsOnlyNamed
<1>1. LexerInv => SelectsOnlyNamed
  BY DEF LexerInv
<1> QED
  BY <1>1, LexerInvariant, PTL

\* Under the same limits, a list that the lexer can read selects everything it
\* names.
THEOREM SelectingAll == Spec => []ReadableIsSelected
<1>1. LexerInv => ReadableIsSelected
  BY DEF LexerInv
<1> QED
  BY <1>1, LexerInvariant, PTL

\* A list whose text fits port_buf where it is shown and buf where it is typed back
\* selects no interface it did not stand for, and is one word and selects all of
\* them if no slots or modules are neighbours and no slot is beyond 9.
THEOREM TypingBack == Spec => []ShownTypesBack
<1>1. LexerInv => ShownTypesBack
  BY DEF LexerInv
<1> QED
  BY <1>1, LexerInvariant, PTL

\* An identifier is the one keyword that it spells or begins, and else a name.
THEOREM Abbreviating == Spec => []AbbreviationNamesOne
<1>1. LexerInv => AbbreviationNamesOne
  BY DEF LexerInv
<1> QED
  BY <1>1, LexerInvariant, PTL
=============================================================================
