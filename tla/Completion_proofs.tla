-------------------------- MODULE Completion_proofs ---------------------------
(***************************************************************************)
(* Proofs about the Tab key: for every table of commands and every line,   *)
(* the candidates continue the line, none comes twice, and none is missing.*)
(***************************************************************************)
EXTENDS Completion, WordFacts

AWord == Seq(Chars)

-----------------------------------------------------------------------------
(* The table and the line. *)

LEMMA RowType ==
  ASSUME NEW r \in DOMAIN helplist
  PROVE  /\ helplist[r] \in Seq(AWord) /\ Len(helplist[r]) \in Nat \ {0}
         /\ \A k \in 1..Len(helplist[r]) : /\ helplist[r][k] \in AWord /\ helplist[r][k] # <<>>
                                           /\ helplist[r][k] \in Words
         /\ Last(helplist[r]) = helplist[r][Len(helplist[r])]
<1>1. helplist \in Seq(Seq(AWord)) /\ helplist[r] # <<>>
  BY CompletionAssumption DEF AWord
<1>2. helplist[r] \in Seq(AWord)
  BY <1>1
<1>3. DOMAIN helplist[r] = 1..Len(helplist[r]) /\ DOMAIN helplist = 1..Len(helplist)
  BY <1>1, <1>2
<1>4. Len(helplist[r]) \in Nat \ {0}
  BY <1>1, <1>2
<1>5. \A k \in 1..Len(helplist[r]) : /\ helplist[r][k] \in AWord /\ helplist[r][k] # <<>>
                                     /\ helplist[r][k] \in Words
  <2> TAKE k \in 1..Len(helplist[r])
  <2>1. helplist[r][k] \in AWord /\ helplist[r][k] # <<>>
    BY <1>2, <1>3, CompletionAssumption
  <2>2. helplist[r][k] \in Range(helplist[r])
    BY <1>3 DEF Range
  <2>3. r \in 1..Len(helplist)
    BY <1>3
  <2> QED
    BY <2>1, <2>2, <2>3 DEF Words
<1> QED
  BY <1>2, <1>4, <1>5 DEF Last

LEMMA WordsType == Words \subseteq AWord
<1>1. SUFFICES ASSUME NEW r \in 1..Len(helplist), NEW w \in Range(helplist[r])
               PROVE  w \in AWord
  BY DEF Words
<1>2. r \in DOMAIN helplist
  BY <1>1, CompletionAssumption
<1>3. DOMAIN helplist[r] = 1..Len(helplist[r])
  BY <1>2, RowType
<1> QED
  BY <1>1, <1>2, <1>3, RowType DEF Range

LEMMA LineType ==
  ASSUME TypeOK
  PROVE  /\ line \in Seq(AWord) /\ Len(line) \in Nat /\ DOMAIN line = 1..Len(line)
         /\ Text \in AWord
         /\ list_index = IF Text = <<>> THEN Len(line) + 1 ELSE Len(line)
         /\ Text # <<>> => ~blank /\ Len(line) > 0 /\ Text = line[Len(line)]
<1>1. <<>> \in Seq(AWord) /\ <<>> \in AWord
  BY DEF AWord
<1>2. line \in Seq(AWord)
  BY <1>1, CompletionAssumption DEF TypeOK, AWord
<1>3. Len(line) \in Nat /\ DOMAIN line = 1..Len(line) /\ (line # <<>> => Len(line) > 0)
  BY <1>2
<1>4. line # <<>> => Last(line) = line[Len(line)] /\ line[Len(line)] \in AWord
  BY <1>2, <1>3 DEF Last
<1> QED
  BY <1>1, <1>2, <1>3, <1>4 DEF Text, list_index

\* Every typed word is counted exactly when every one can stand where it is.
LEMMA MatchedAll ==
  ASSUME TypeOK, NEW row
  PROVE  /\ Matched(row) \in 0..Len(line)
         /\ Matched(row) = Len(line) <=> \A i \in 1..Len(line) : CanStand(line[i], row[i])
<1> DEFINE D == DOMAIN line
           C == {i \in D : \/ KeywordMatch(line[i], row[i]) \/ PartlyMatch(line[i], row[i])
                           \/ \A j \in 1..i : CanStand(line[j], row[j])}
<1>1. D = 1..Len(line) /\ Len(line) \in Nat
  BY LineType
<1>2. IsFiniteSet(D) /\ Cardinality(D) = Len(line)
  <2>1. IsFiniteSet(1..Len(line)) /\ Cardinality(1..Len(line)) = Len(line)
    BY <1>1, UpToCount
  <2> QED
    BY <1>1, <2>1
<1>3. /\ IsFiniteSet(C) /\ Cardinality(C) <= Cardinality(D)
      /\ Cardinality(C) = Cardinality(D) => D = C
  <2>1. C \in SUBSET D
    OBVIOUS
  <2> HIDE DEF C, D
  <2> QED
    BY <1>2, <2>1, FS_Subset
<1>4. Cardinality(C) \in Nat
  BY <1>3, FS_CardinalityType
<1>5. ASSUME D = C, NEW i \in 1..Len(line) PROVE CanStand(line[i], row[i])
  <2>1. i \in C
    BY <1>1, <1>5
  <2>2. CASE KeywordMatch(line[i], row[i]) \/ PartlyMatch(line[i], row[i])
    BY <2>2 DEF CanStand
  <2>3. CASE \A j \in 1..i : CanStand(line[j], row[j])
    BY <2>3
  <2> QED
    BY <2>1, <2>2, <2>3
<1>6. (\A i \in 1..Len(line) : CanStand(line[i], row[i])) => C = D
  BY <1>1
<1>7. Matched(row) = Cardinality(C)
  BY DEF Matched
<1> HIDE DEF C, D
<1> QED
  BY <1>1, <1>2, <1>3, <1>4, <1>5, <1>6, <1>7

LEMMA FitsIsMatched ==
  ASSUME TypeOK, NEW row
  PROVE  Fits(row) <=> Len(row) >= Len(line) /\ Matched(row) = Len(line)
BY MatchedAll DEF Fits

\* What the program takes for the end of a command is one.
LEMMA UsedUpExhausts ==
  ASSUME TypeOK, Looking, UsedUp
  PROVE  /\ index \in DOMAIN helplist
         /\ Fits(Row) /\ Exhausted(Row) /\ Len(Row) = Len(line) /\ Len(line) > 0
<1>1. index \in DOMAIN helplist
  BY CompletionAssumption DEF TypeOK, Looking
<1>2. Len(Row) \in Nat \ {0}
  BY <1>1, RowType DEF Row
<1>3. Len(Row) = Len(line) /\ Matched(Row) = Len(line)
  BY <1>2, MatchedAll, LineType DEF UsedUp
<1> QED
  BY <1>1, <1>2, <1>3, LineType, FitsIsMatched DEF UsedUp, Exhausted

-----------------------------------------------------------------------------
(* The inductive invariant. *)

\* Nothing is offered before Tab is pressed.
Idle == mode = "edit" => offered = <<>>

\* The matches come from the place that is to be completed.
Origin ==
  mode = "call" =>
    \A h \in Range(help_matched_list) :
      \E q \in DOMAIN helplist : list_index <= Len(helplist[q]) /\ h = helplist[q][list_index]

\* Until the search has met its end, what was offered is among the matches.
Kept ==
  mode = "call" /\ ~end => Range(offered) \subseteq Range(help_matched_list) \cup {<<>>}

\* The matches that could be spelled out were offered.
Spelled ==
  mode = "call" =>
    \A h \in Range(help_matched_list) :
      Text = <<>> \/ ~token_is_variable(h) => h \in Range(offered)

\* The search has ended at a row that the line uses up, and has offered something.
Stopped == mode = "call" /\ end => Looking /\ UsedUp /\ offered # <<>>

\* A row in front of the first exhausted one whose next word must be offered.
Due(r) ==
  /\ Fits(helplist[r]) /\ \A q \in 1..r : ~Exhausted(helplist[q])
  /\ blank \/ (~token_is_variable(helplist[r][list_index])
                 /\ IsPrefix(Text, helplist[r][list_index]))

\* The rows that were passed have given what they had to give.
Passed ==
  mode = "call" =>
    \A r \in 1..(index - 1) : Due(r) => helplist[r][list_index] \in Range(offered)

IInv ==
  /\ TypeOK /\ OffersContinue /\ NoneTwice /\ NothingHidden
  /\ Idle /\ Origin /\ Kept /\ Spelled /\ Stopped /\ Passed

-----------------------------------------------------------------------------
(* What the actions have in common. *)

\* The line is read only through these.
LEMMA SameLine ==
  ASSUME UNCHANGED <<line, blank>>
  PROVE  /\ Text' = Text /\ list_index' = list_index
         /\ \A row : Fits(row)' = Fits(row)
         /\ \A row : Exhausted(row)' = Exhausted(row)
         /\ \A row, w : FollowsIn(row, w)' = FollowsIn(row, w)
         /\ \A r : Due(r)' = Due(r)
<1>1. Text' = Text /\ list_index' = list_index
  BY DEF Text, list_index
<1>2. \A row : Fits(row)' = Fits(row)
  BY DEF Fits, CanStand, BeginsToken
<1>3. \A row : Exhausted(row)' = Exhausted(row)
  BY <1>1, <1>2 DEF Exhausted, AtEnd, Matched, CanStand, BeginsToken
<1>4. \A row, w : FollowsIn(row, w)' = FollowsIn(row, w)
  BY <1>1, <1>2 DEF FollowsIn
<1> QED
  BY <1>1, <1>2, <1>3, <1>4 DEF Due

\* A candidate that continues the line and is new keeps the properties of what
\* is offered; an empty one always does.
LEMMA ReturnKeeps ==
  ASSUME TypeOK, OffersContinue, NoneTwice, NEW w \in AWord, Return(w),
         w # <<>> => /\ w \notin Range(offered) /\ IsPrefix(Text, w)
                     /\ \E r \in 1..Len(helplist) : FollowsIn(helplist[r], w)
  PROVE  /\ offered' \in Seq(AWord) /\ offered' # <<>>
         /\ Range(offered') = Range(offered) \cup {w}
         /\ OffersContinue' /\ NoneTwice'
<1>1. offered \in Seq(AWord)
  BY DEF TypeOK, AWord
<1>2. /\ offered' = Append(offered, w) /\ offered' \in Seq(AWord) /\ offered' # <<>>
      /\ Range(offered') = Range(offered) \cup {w}
  BY <1>1, RangeAppend DEF Return
<1>3. OffersContinue'
  <2>1. UNCHANGED <<line, blank>>
    BY DEF Return
  <2>2. Text' = Text /\ \A r, x :
          FollowsIn(helplist[r], x)' = FollowsIn(helplist[r], x)
    BY <2>1, SameLine
  <2>3. SUFFICES ASSUME NEW x \in Range(offered) \cup {w}, x # <<>>
                 PROVE  /\ IsPrefix(Text, x)
                        /\ \E r \in 1..Len(helplist) : FollowsIn(helplist[r], x)
    BY <1>2, <2>2 DEF OffersContinue
  <2> QED
    BY <2>3 DEF OffersContinue
<1>4. NoneTwice'
  <2>1. /\ Len(offered) \in Nat /\ DOMAIN offered = 1..Len(offered)
        /\ Len(offered') = Len(offered) + 1 /\ offered'[Len(offered) + 1] = w
        /\ \A i \in 1..Len(offered) : offered'[i] = offered[i]
    BY <1>1, <1>2
  <2>2. \A i \in 1..Len(offered) : offered[i] \in Range(offered)
    BY <2>1 DEF Range
  <2>3. SUFFICES ASSUME NEW i \in 1..Len(offered'), NEW j \in 1..Len(offered'), i # j,
                        offered'[i] = offered'[j], offered'[i] # <<>>
                 PROVE  FALSE
    BY DEF NoneTwice
  <2>4. CASE i \in 1..Len(offered) /\ j \in 1..Len(offered)
    BY <2>1, <2>3, <2>4 DEF NoneTwice
  <2>5. CASE i = Len(offered) + 1
    BY <2>1, <2>2, <2>3, <2>5
  <2>6. CASE j = Len(offered) + 1
    BY <2>1, <2>2, <2>3, <2>6
  <2> QED
    BY <2>1, <2>4, <2>5, <2>6
<1> QED
  BY <1>2, <1>3, <1>4

\* NULL ends the calls; the answer is complete if every row that is not passed
\* stands behind an exhausted one.
LEMMA NullKeeps ==
  ASSUME IInv, mode = "call", ReturnNull,
         \A r \in index..Len(helplist) : ~Due(r)
  PROVE  IInv'
<1>0. UNCHANGED <<line, blank, offered>>
  BY DEF ReturnNull
<1>1. /\ Text' = Text /\ list_index' = list_index
      /\ \A r, x : FollowsIn(helplist[r], x)' = FollowsIn(helplist[r], x)
      /\ \A r : Due(r)' = Due(r)
  BY <1>0, SameLine
<1>2. NoneTwice'
  BY <1>0 DEF IInv, NoneTwice
<1>3. OffersContinue'
  BY <1>0, SameLine DEF IInv, OffersContinue
<1>4. CASE offered = <<>> /\ ~again
  <2>1. /\ again' = TRUE /\ index' = 1 /\ end' = FALSE /\ help_matched_list' = <<>> /\ mode' = mode
    BY <1>4 DEF ReturnNull, Start
  <2>2. Range(<<>>) = {} /\ <<>> \in Seq(Words) /\ Len(<<>>) = 0
    BY DEF Range
  <2>3. 1 \in 1..(Len(helplist) + 1)
    BY CompletionAssumption
  <2>4. TypeOK'
    <3>1. help_matched_list' \in Seq(Words) /\ Len(help_matched_list') < index'
      BY <2>1, <2>2
    <3> QED
      BY <1>0, <2>1, <2>3, <3>1 DEF IInv, TypeOK
  <2>5. Idle' /\ NothingHidden'
    BY <2>1 DEF Idle, NothingHidden
  <2>6. Origin' /\ Kept' /\ Spelled' /\ Stopped' /\ Passed'
    BY <1>0, <1>4, <2>1, <2>2 DEF Origin, Kept, Spelled, Stopped, Passed
  <2> QED
    BY <1>2, <1>3, <2>4, <2>5, <2>6 DEF IInv
<1>5. CASE ~(offered = <<>> /\ ~again)
  <2>1. mode' = "answered" /\ UNCHANGED <<again, index, end, help_matched_list>>
    BY <1>5 DEF ReturnNull, statics
  <2>2. TypeOK'
    BY <1>0, <2>1 DEF IInv, TypeOK
  <2>3. Idle' /\ Origin' /\ Kept' /\ Spelled' /\ Stopped' /\ Passed'
    BY <2>1 DEF Idle, Origin, Kept, Spelled, Stopped, Passed
  <2>4. ASSUME NEW r \in 1..Len(helplist), Due(r)
        PROVE  helplist[r][list_index] \in Range(offered)
    <3>1. index \in Nat /\ Len(helplist) \in Nat
      BY CompletionAssumption DEF IInv, TypeOK
    <3>2. r \in 1..(index - 1)
      BY <2>4, <3>1
    <3> QED
      BY <2>4, <3>2 DEF IInv, Passed
  <2>5. NothingHidden'
    BY <1>0, <1>1, <2>4 DEF NothingHidden, Due
  <2> QED
    BY <1>2, <1>3, <2>2, <2>3, <2>5 DEF IInv
<1> QED
  BY <1>4, <1>5

\* Behind an exhausted row nothing is due.
LEMMA ExhaustedEnds ==
  ASSUME NEW q \in Nat \ {0}, Exhausted(helplist[q])
  PROVE  \A r \in q..Len(helplist) : ~Due(r)
BY CompletionAssumption DEF Due

-----------------------------------------------------------------------------
(* The actions. *)

LEMMA InitInv == Init => IInv
<1> SUFFICES ASSUME Init PROVE IInv
  OBVIOUS
<1>1. /\ Range(<<>>) = {} /\ Len(<<>>) = 0 /\ <<>> \in Seq(Words) /\ <<>> \in Seq(Seq(Chars))
      /\ 1 \in 1..(Len(helplist) + 1)
  BY CompletionAssumption DEF Range
<1>2. TypeOK
  <2>1. help_matched_list \in Seq(Words) /\ Len(help_matched_list) < index
    BY <1>1 DEF Init
  <2> QED
    BY <1>1, <2>1 DEF Init, TypeOK
<1>3. OffersContinue /\ NoneTwice /\ NothingHidden
  BY <1>1 DEF Init, OffersContinue, NoneTwice, NothingHidden
<1>4. Idle /\ Origin /\ Kept /\ Spelled /\ Stopped /\ Passed
  BY DEF Init, Idle, Origin, Kept, Spelled, Stopped, Passed
<1> QED
  BY <1>2, <1>3, <1>4 DEF IInv

\* For a new Tab the statics are as if there had been none before.
LEMMA TabKeeps ==
  ASSUME IInv, NEW l \in Lines, NEW b \in BOOLEAN, Tab(l, b)
  PROVE  IInv'
<1>1. /\ mode' = "call" /\ line' = l /\ blank' = b /\ index' = 1 /\ end' = FALSE
      /\ help_matched_list' = <<>> /\ again' = again /\ offered' = <<>> /\ offered' = offered
  BY DEF Tab, Start, IInv, Idle
<1>2. /\ Range(<<>>) = {} /\ Len(<<>>) = 0 /\ <<>> \in Seq(Words)
      /\ 1 \in 1..(Len(helplist) + 1)
  BY CompletionAssumption DEF Range
<1>3. TypeOK'
  <2>1. help_matched_list' \in Seq(Words) /\ Len(help_matched_list') < index'
    BY <1>1, <1>2
  <2> QED
    BY <1>1, <1>2, <2>1 DEF IInv, TypeOK
<1>4. OffersContinue'
  BY <1>1, <1>2 DEF OffersContinue
<1>5. NoneTwice' /\ NothingHidden'
  BY <1>1 DEF IInv, NoneTwice, NothingHidden
<1>6. Idle' /\ Origin' /\ Kept' /\ Spelled' /\ Stopped' /\ Passed'
  BY <1>1, <1>2 DEF Idle, Origin, Kept, Spelled, Stopped, Passed
<1> QED
  BY <1>3, <1>4, <1>5, <1>6 DEF IInv

LEMMA EditKeeps == ASSUME IInv, Edit PROVE IInv'
<1>1. /\ mode' = "edit" /\ line' = <<>> /\ blank' = FALSE /\ again' = FALSE /\ offered' = <<>>
      /\ UNCHANGED <<index, end, help_matched_list>>
  BY DEF Edit, statics
<1>2. Range(<<>>) = {} /\ Len(<<>>) = 0 /\ <<>> \in Seq(Seq(Chars))
  BY DEF Range
<1>3. TypeOK'
  BY <1>1, <1>2 DEF IInv, TypeOK
<1>4. OffersContinue' /\ NoneTwice' /\ NothingHidden'
  BY <1>1, <1>2 DEF OffersContinue, NoneTwice, NothingHidden
<1>5. Idle' /\ Origin' /\ Kept' /\ Spelled' /\ Stopped' /\ Passed'
  BY <1>1 DEF Idle, Origin, Kept, Spelled, Stopped, Passed
<1> QED
  BY <1>3, <1>4, <1>5 DEF IInv

\* A row is passed when its next word need not be offered or has been.
LEMMA OnwardKeeps ==
  ASSUME IInv, Looking, Onward, end => ~UsedUp,
         Due(index) => Row[list_index] \in Range(offered)
  PROVE  IInv'
<1>1. /\ mode = "call" /\ index' = index + 1
      /\ UNCHANGED <<mode, line, blank, again, end, help_matched_list, offered>>
  BY DEF Onward, Looking
<1>2. index \in Nat /\ index <= Len(helplist) /\ Len(helplist) \in Nat
  BY CompletionAssumption DEF IInv, TypeOK, Looking
<1>3. /\ Text' = Text /\ list_index' = list_index
      /\ \A r : Due(r)' = Due(r)
  BY <1>1, SameLine
<1>4. TypeOK'
  <2>1. help_matched_list' \in Seq(Words) /\ Len(help_matched_list') < index'
    BY <1>1, <1>2 DEF IInv, TypeOK
  <2> QED
    BY <1>1, <1>2, <2>1 DEF IInv, TypeOK
<1>5. OffersContinue'
  BY <1>1, SameLine DEF IInv, OffersContinue
<1>6. NoneTwice' /\ NothingHidden' /\ Idle'
  BY <1>1 DEF IInv, NoneTwice, NothingHidden, Idle
<1>7. Origin' /\ Kept' /\ Spelled'
  BY <1>1, <1>3 DEF IInv, Origin, Kept, Spelled
<1>8. Stopped'
  BY <1>1 DEF IInv, Stopped
<1>9. Passed'
  <2>1. SUFFICES ASSUME NEW r \in 1..index, Due(r)
                 PROVE  helplist[r][list_index] \in Range(offered)
    BY <1>1, <1>2, <1>3 DEF Passed
  <2>2. CASE r = index
    BY <2>1, <2>2 DEF Row
  <2>3. CASE r \in 1..(index - 1)
    BY <1>1, <2>1, <2>3 DEF IInv, Passed
  <2> QED
    BY <1>2, <2>2, <2>3
<1> QED
  BY <1>4, <1>5, <1>6, <1>7, <1>8, <1>9 DEF IInv

LEMMA TooShortKeeps == ASSUME IInv, TooShort PROVE IInv'
<1>1. Looking /\ Onward /\ ~(Len(Row) >= Len(line))
  <2>1. Len(Row) \in Nat /\ Len(line) \in Nat
    BY RowType, LineType, CompletionAssumption DEF IInv, TypeOK, TooShort, Looking, Row
  <2> QED
    BY <2>1 DEF TooShort
<1>2. ~UsedUp /\ ~Fits(Row)
  BY <1>1 DEF UsedUp, Fits
<1>3. ~Due(index)
  BY <1>2 DEF Due, Row
<1> QED
  BY <1>1, <1>2, <1>3, OnwardKeeps

\* The row that is looked at, and what it can give.
LEMMA CloseRow ==
  ASSUME TypeOK, Looking
  PROVE  /\ index \in DOMAIN helplist /\ index \in 1..Len(helplist) /\ Row = helplist[index]
         /\ Len(Row) \in Nat \ {0} /\ list_index \in Nat \ {0}
         /\ list_index <= Len(Row) =>
              Candidate \in AWord /\ Candidate # <<>> /\ Candidate \in Words
<1>1. index \in DOMAIN helplist /\ index \in 1..Len(helplist)
  BY CompletionAssumption DEF TypeOK, Looking
<1>2. list_index \in Nat \ {0}
  BY LineType
<1> QED
  BY <1>1, <1>2, RowType DEF Row, Candidate

\* Where the text begins a word in either case, so it does in small letters.
LEMMA LowerPrefix ==
  ASSUME NEW a \in AWord, NEW b \in AWord
  PROVE  /\ IsPrefix(a, b) => IsPrefix(Lower(a), Lower(b))
         /\ IsPrefix(Lower(a), Lower(b)) => Len(a) <= Len(b)
<1> DEFINE S == Chars \cup {Upper[c] : c \in DOMAIN Upper}
<1>1. ASSUME NEW w \in AWord
      PROVE  /\ Lower(w) \in Seq(S) /\ Len(Lower(w)) = Len(w) /\ Len(w) \in Nat
             /\ \A i \in 1..Len(w) :
                  Lower(w)[i] = IF w[i] \in DOMAIN Upper THEN Upper[w[i]] ELSE w[i]
  <2>1. Len(w) \in Nat /\ \A i \in 1..Len(w) : w[i] \in Chars
    BY DEF AWord
  <2>2. \A i \in 1..Len(w) : (IF w[i] \in DOMAIN Upper THEN Upper[w[i]] ELSE w[i]) \in S
    BY <2>1
  <2> HIDE DEF S
  <2> QED
    BY <2>1, <2>2 DEF Lower
<1>2. IsPrefix(a, b) <=> Len(a) <= Len(b) /\ \A i \in 1..Len(a) : a[i] = b[i]
  BY PrefixIff DEF AWord
<1>3. IsPrefix(Lower(a), Lower(b)) <=>
        Len(a) <= Len(b) /\ \A i \in 1..Len(a) : Lower(a)[i] = Lower(b)[i]
  <2> HIDE DEF S
  <2> QED
    BY <1>1, PrefixIff
<1>4. ASSUME Len(a) <= Len(b), NEW i \in 1..Len(a), a[i] = b[i]
      PROVE  Lower(a)[i] = Lower(b)[i]
  <2>1. i \in 1..Len(b)
    BY <1>4 DEF AWord
  <2> HIDE DEF S
  <2> QED
    BY <1>1, <1>4, <2>1
<1> QED
  BY <1>2, <1>3, <1>4

LEMMA PassRowKeeps == ASSUME IInv, PassRow PROVE IInv'
<1>0. TypeOK /\ Looking /\ Onward /\ mode = "call"
  BY DEF IInv, PassRow, Looking
<1>1. Len(Row) >= Len(line) /\ ~UsedUp
  BY DEF PassRow
<1>2. Close => list_index <= Len(Row) /\ ~Offerable /\ ~Acceptable
  BY DEF PassRow
<1>3. ASSUME Due(index) PROVE Row[list_index] \in Range(offered)
  <2>1. Fits(Row) /\ Matched(Row) = Len(line) /\ ~Exhausted(Row)
    BY <1>0, <1>3, CloseRow, FitsIsMatched DEF Due
  <2>2. Close
    BY <1>0, <1>1, <2>1, LineType DEF Close
  <2>3. /\ Candidate = Row[list_index] /\ Candidate \in AWord /\ list_index <= Len(Row)
        /\ ~Offerable
    BY <1>0, <1>2, <2>2, CloseRow DEF Candidate
  <2>4. Text = <<>> \/ (~token_is_variable(Candidate) /\ IsPrefix(Text, Candidate))
    BY <1>0, <1>3, <2>3, CloseRow DEF Due, Text
  <2>5. IsPrefix(Text, Candidate)
    BY <1>0, <2>3, <2>4, EmptyPrefix DEF AWord
  <2>6. IsPrefix(Lower(Text), Lower(Candidate))
    BY <1>0, <2>3, <2>5, LowerPrefix, LineType
  <2>7. ~IsNew(Candidate)
    BY <2>1, <2>2, <2>3, <2>4, <2>6 DEF Offerable, Fresh
  <2>8. Candidate \in Range(help_matched_list)
    BY <2>4, <2>7 DEF IsNew
  <2> QED
    BY <1>0, <2>3, <2>4, <2>8 DEF IInv, Spelled
<1> QED
  BY <1>0, <1>1, <1>3, OnwardKeeps

LEMMA EndOfTableKeeps == ASSUME IInv, EndOfTable PROVE IInv'
<1>1. mode = "call" /\ ReturnNull /\ index > Len(helplist)
  BY DEF EndOfTable
<1>2. index..Len(helplist) = {}
  BY <1>1, CompletionAssumption DEF IInv, TypeOK
<1> QED
  BY <1>1, <1>2, NullKeeps

LEMMA NoWordKeeps == ASSUME IInv, NoWord PROVE IInv'
<1>1. TypeOK /\ Looking /\ mode = "call" /\ Close /\ list_index > Len(Row) /\ ReturnNull
  BY DEF IInv, NoWord, Close, Looking
<1>2. Len(Row) \in Nat /\ index \in Nat \ {0} /\ Row = helplist[index]
  BY <1>1, CloseRow
<1>3. Len(Row) >= Len(line) /\ Matched(Row) = Len(line)
  BY <1>1, <1>2, LineType, MatchedAll DEF Close
<1>4. Exhausted(Row)
  BY <1>1, <1>2, <1>3, FitsIsMatched, LineType DEF Exhausted
<1> QED
  BY <1>1, <1>2, <1>4, ExhaustedEnds, NullKeeps

\* A candidate stands in the place that is completed and continues the line, and
\* it was not offered before.
LEMMA OfferedIsNew ==
  ASSUME IInv, Looking, Offerable
  PROVE  /\ Candidate \in AWord /\ Candidate \notin Range(offered)
         /\ IsPrefix(Text, Candidate) /\ FollowsIn(Row, Candidate)
<1>0. TypeOK /\ mode = "call"
  BY DEF IInv, Looking
<1>1. Fresh /\ Close /\ list_index <= Len(Row) /\ IsNew(Candidate) /\ Matched(Row) = Len(line)
  BY DEF Offerable, Fresh
<1>2. Candidate = Row[list_index] /\ Candidate \in AWord /\ Candidate # <<>>
  BY <1>0, <1>1, CloseRow DEF Candidate
<1>3. Fits(Row)
  BY <1>0, <1>1, FitsIsMatched DEF Close
<1>4. FollowsIn(Row, Candidate)
  BY <1>1, <1>2, <1>3 DEF FollowsIn
<1>5. ~end
  BY <1>0, <1>1 DEF IInv, Stopped, Close
<1>6. Candidate \notin Range(help_matched_list)
  BY <1>1 DEF IsNew
<1>7. Candidate \notin Range(offered)
  BY <1>0, <1>2, <1>5, <1>6 DEF IInv, Kept
<1>8. IsPrefix(Text, Candidate)
  <2>1. CASE Text = <<>>
    BY <1>2, <2>1, EmptyPrefix DEF AWord
  <2>2. CASE Text # <<>>
    <3>1. /\ list_index = Len(line) /\ Text = line[Len(line)] /\ Text \in AWord
          /\ Len(line) \in 1..Len(line)
      BY <1>0, <2>2, LineType
    <3>2. CanStand(Text, Candidate) /\ ~token_is_variable(Candidate)
          /\ IsPrefix(Lower(Text), Lower(Candidate))
      BY <1>2, <1>3, <2>2, <3>1 DEF Fits, Offerable
    <3>3. Len(Text) <= Len(Candidate)
      BY <1>2, <3>1, <3>2, LowerPrefix
    <3>4. CASE PartlyMatch(Text, Candidate)
      BY <3>4 DEF PartlyMatch
    <3>5. CASE KeywordMatch(Text, Candidate)
      BY <1>2, <3>1, <3>3, <3>5, PrefixIff DEF KeywordMatch, AWord
    <3> QED
      BY <3>2, <3>4, <3>5 DEF CanStand
  <2> QED
    BY <2>1, <2>2
<1> QED
  BY <1>2, <1>4, <1>7, <1>8

LEMMA OfferKeeps == ASSUME IInv, Offer PROVE IInv'
<1>0. TypeOK /\ Looking /\ mode = "call" /\ Close /\ list_index <= Len(Row)
  BY DEF IInv, Offer, Offerable, Acceptable, Fresh, Close, Looking
<1> DEFINE w == IF Acceptable THEN <<>> ELSE Candidate
<1>1. /\ index' = index + 1 /\ help_matched_list' = Append(help_matched_list, Candidate)
      /\ end' = end /\ Return(w) /\ UNCHANGED <<mode, line, blank, again>>
  BY DEF Offer, Return
<1>2. /\ index \in DOMAIN helplist /\ index \in 1..Len(helplist) /\ Row = helplist[index]
      /\ Candidate = Row[list_index] /\ Candidate \in AWord /\ Candidate # <<>>
      /\ Candidate \in Words /\ Len(helplist) \in Nat
  BY <1>0, CloseRow, CompletionAssumption DEF Candidate
<1>3. /\ Text' = Text /\ list_index' = list_index
      /\ \A r : Due(r)' = Due(r)
  BY <1>1, SameLine
<1>4. /\ help_matched_list' \in Seq(Words) /\ Len(help_matched_list') = Len(help_matched_list) + 1
      /\ Range(help_matched_list') = Range(help_matched_list) \cup {Candidate}
  BY <1>0, <1>1, <1>2, RangeAppend DEF TypeOK
<1>5. ~Acceptable => Offerable
  BY DEF Offer
<1>6. <<>> \in AWord
  BY DEF AWord
<1>7. /\ offered' \in Seq(AWord) /\ offered' # <<>> /\ Range(offered') = Range(offered) \cup {w}
      /\ OffersContinue' /\ NoneTwice'
  <2>1. w # <<>> => /\ w \notin Range(offered) /\ IsPrefix(Text, w)
                    /\ \E r \in 1..Len(helplist) : FollowsIn(helplist[r], w)
    BY <1>0, <1>2, <1>5, OfferedIsNew
  <2>2. w \in AWord
    BY <1>2, <1>6
  <2> HIDE DEF w
  <2> QED
    BY <1>0, <1>1, <2>1, <2>2, ReturnKeeps DEF IInv
<1>8. TypeOK'
  BY <1>0, <1>1, <1>2, <1>4, <1>7, SMTT(30) DEF TypeOK, AWord
<1>9. NothingHidden' /\ Idle'
  BY <1>0, <1>1 DEF NothingHidden, Idle
<1>10. Origin'
  BY <1>0, <1>1, <1>2, <1>3, <1>4 DEF IInv, Origin
<1>11. ~end
  BY <1>0 DEF IInv, Stopped, Close
<1>12. Kept'
  BY <1>0, <1>1, <1>4, <1>7, <1>11 DEF IInv, Kept
<1>13. Stopped'
  BY <1>1, <1>11 DEF Stopped
<1>14. Acceptable => Text # <<>> /\ token_is_variable(Candidate)
  BY DEF Acceptable
<1>15. Spelled'
  BY <1>0, <1>1, <1>3, <1>4, <1>7, <1>14 DEF IInv, Spelled
<1>16. Passed'
  <2>1. SUFFICES ASSUME NEW r \in 1..index, Due(r)
                 PROVE  helplist[r][list_index] \in Range(offered')
    BY <1>1, <1>2, <1>3 DEF Passed
  <2>2. CASE r = index
    <3>1. Text = <<>> \/ ~token_is_variable(Candidate)
      BY <1>2, <2>1, <2>2 DEF Due, Text
    <3>2. w = Candidate
      BY <1>14, <3>1
    <3> QED
      BY <1>2, <1>7, <2>2, <3>2
  <2>3. CASE r \in 1..(index - 1)
    BY <1>0, <1>7, <2>1, <2>3 DEF IInv, Passed
  <2> QED
    BY <1>2, <2>2, <2>3
<1> QED
  BY <1>7, <1>8, <1>9, <1>10, <1>12, <1>13, <1>15, <1>16 DEF IInv

\* The word that may be left out: it was not offered as a keyword, for then the
\* text would begin a keyword and could not stand for it.
LEMMA UnbracketedIsNew ==
  ASSUME IInv, Looking, UsedUp, LastTaken(Last(Row)), Optional(Last(Row))
  PROVE  LET w == Unbracketed(Last(Row)) IN
           /\ w \in AWord /\ w \notin Range(offered) \ {<<>>} /\ IsPrefix(Text, w)
           /\ FollowsIn(Row, w)
<1> DEFINE last == Last(Row)
           w == Unbracketed(last)
           n == Len(Row)
<1>0. TypeOK /\ mode = "call" /\ ~end /\ Text # <<>>
  BY DEF IInv, Looking, LastTaken
<1>1. /\ index \in DOMAIN helplist /\ Row = helplist[index] /\ last = Row[n] /\ last \in AWord
      /\ n \in Nat \ {0} /\ n = Len(line) /\ Fits(Row) /\ last = helplist[index][n]
  BY <1>0, UsedUpExhausts, RowType DEF Row
<1>2. list_index = n /\ Text = line[n] /\ Text \in AWord
  BY <1>0, <1>1, LineType
<1>3. w \in AWord /\ Len(w) < Len(last)
  <2>1. Len(last) \in Nat \ {0} /\ \A i \in 1..Len(last) : last[i] \in Chars
    BY <1>1, RowType DEF AWord
  <2>2. \A i \in 2..(Len(last) - 1) : last[i] \in Chars
    BY <2>1
  <2>3. /\ w \in Seq(Chars)
        /\ Len(w) = IF 2 <= Len(last) - 1 THEN Len(last) - 1 - 2 + 1 ELSE 0
    <3> HIDE DEF last
    <3> QED
      BY <2>1, <2>2, SubSeqProperties DEF Unbracketed
  <2> QED
    BY <2>1, <2>3 DEF AWord
<1>4. IsPrefix(Text, w)
  BY DEF LastTaken
<1>5. FollowsIn(Row, w)
  BY <1>1, <1>2 DEF FollowsIn
<1>6. ASSUME w \in Range(offered), w # <<>> PROVE FALSE
  <2>1. w \in Range(help_matched_list)
    BY <1>0, <1>6 DEF IInv, Kept
  <2>2. PICK q \in DOMAIN helplist : n <= Len(helplist[q]) /\ w = helplist[q][n]
    BY <1>0, <1>2, <2>1 DEF IInv, Origin
  <2>3. w \in tokenlist[n]
    BY <1>1, <2>2, OptionalAssumption
  <2>4. BeginsToken(Text)
    BY <1>1, <1>4, <2>3 DEF BeginsToken
  <2>5. CanStand(Text, last)
    BY <1>1, <1>2 DEF Fits
  <2>6. Len(Text) <= Len(w)
    BY <1>4 DEF IsPrefix
  <2>7. ~KeywordMatch(Text, last)
    <3>1. Len(Text) \in Nat /\ Len(w) \in Nat /\ Len(last) \in Nat
      BY <1>1, <1>2, <1>3 DEF AWord
    <3> QED
      BY <1>3, <2>6, <3>1 DEF KeywordMatch, IsPrefix
  <2>8. PartlyMatch(Text, last)
    BY <2>4, <2>5, <2>7 DEF CanStand
  <2>9. Last(line) = Text
    BY <1>1, <1>2 DEF Last
  <2>10. AtEnd(Row)
    BY <2>7, <2>8, <2>9 DEF AtEnd, UsedUp
  <2> QED
    BY <2>10 DEF UsedUp
<1> QED
  BY <1>3, <1>4, <1>5, <1>6

LEMMA CompleteKeeps == ASSUME IInv, Complete PROVE IInv'
<1>0. TypeOK /\ Looking /\ UsedUp /\ mode = "call"
  BY DEF IInv, Complete, Looking
<1>1. /\ index \in DOMAIN helplist /\ index \in 1..Len(helplist) /\ Row = helplist[index]
      /\ Exhausted(Row)
  BY <1>0, UsedUpExhausts, CloseRow
<1>2. CASE ~LastTaken(Last(Row))
  BY <1>0, <1>1, <1>2, ExhaustedEnds, NullKeeps DEF Complete
<1>3. CASE LastTaken(Last(Row))
  <2> DEFINE w == IF Optional(Last(Row)) THEN Unbracketed(Last(Row)) ELSE <<>>
  <2>1. /\ end' = TRUE /\ UNCHANGED <<index, help_matched_list>> /\ Return(w)
        /\ UNCHANGED <<mode, line, blank, again>>
    BY <1>3 DEF Complete, Return
  <2>2. <<>> \in AWord
    BY DEF AWord
  <2>3. /\ w \in AWord
        /\ w # <<>> => /\ w \notin Range(offered) /\ IsPrefix(Text, w)
                       /\ \E r \in 1..Len(helplist) : FollowsIn(helplist[r], w)
    BY <1>0, <1>1, <1>3, <2>2, UnbracketedIsNew
  <2>4. /\ offered' \in Seq(AWord) /\ offered' # <<>> /\ Range(offered') = Range(offered) \cup {w}
        /\ OffersContinue' /\ NoneTwice'
    <3> HIDE DEF w
    <3> QED
      BY <1>0, <2>1, <2>3, ReturnKeeps DEF IInv
  <2>5. /\ Text' = Text /\ list_index' = list_index
        /\ \A r : Due(r)' = Due(r)
    BY <2>1, SameLine
  <2>6. TypeOK'
    BY <1>0, <2>1, <2>4 DEF TypeOK, AWord
  <2>7. NothingHidden' /\ Idle'
    BY <1>0, <2>1 DEF NothingHidden, Idle
  <2>8. Origin' /\ Kept'
    BY <1>0, <2>1, <2>5 DEF IInv, Origin, Kept
  <2>9. Spelled' /\ Passed'
    BY <1>0, <2>1, <2>4, <2>5 DEF IInv, Spelled, Passed
  <2>10. Stopped'
    BY <1>0, <2>1, <2>4 DEF Stopped, Looking, UsedUp, AtEnd, Matched, CanStand, BeginsToken, Row
  <2> QED
    BY <2>4, <2>6, <2>7, <2>8, <2>9, <2>10 DEF IInv
<1> QED
  BY <1>2, <1>3

LEMMA StepInv == IInv /\ [Next]_vars => IInv'
<1> SUFFICES ASSUME IInv, [Next]_vars PROVE IInv'
  OBVIOUS
<1>1. CASE TooShort
  BY <1>1, TooShortKeeps
<1>2. CASE Complete
  BY <1>2, CompleteKeeps
<1>3. CASE NoWord
  BY <1>3, NoWordKeeps
<1>4. CASE Offer
  BY <1>4, OfferKeeps
<1>5. CASE PassRow
  BY <1>5, PassRowKeeps
<1>6. CASE EndOfTable
  BY <1>6, EndOfTableKeeps
<1>7. CASE Edit
  BY <1>7, EditKeeps
<1>8. CASE \E l \in Lines, b \in BOOLEAN : Tab(l, b)
  BY <1>8, TabKeeps
<1>9. CASE UNCHANGED vars
  <2>1. UNCHANGED <<mode, line, blank, again, index, end, help_matched_list, offered>>
    BY <1>9 DEF vars, statics
  <2>2. /\ Text' = Text /\ list_index' = list_index
        /\ \A r : Due(r)' = Due(r)
    BY <2>1, SameLine
  <2>3. TypeOK' /\ NoneTwice' /\ Idle' /\ Kept'
    BY <2>1 DEF IInv, TypeOK, NoneTwice, Idle, Kept
  <2>4. OffersContinue' /\ Origin' /\ Spelled' /\ Passed'
    BY <2>1, <2>2, SameLine DEF IInv, OffersContinue, Origin, Spelled, Passed
  <2>5. NothingHidden'
    BY <2>1, <2>2, SameLine DEF IInv, NothingHidden
  <2>6. Stopped'
    BY <2>1 DEF IInv, Stopped, Looking, UsedUp, AtEnd, Matched, CanStand, BeginsToken, Row
  <2> QED
    BY <2>3, <2>4, <2>5, <2>6 DEF IInv
<1> QED
  BY <1>1, <1>2, <1>3, <1>4, <1>5, <1>6, <1>7, <1>8, <1>9 DEF Next, Call

LEMMA Invariance == Spec => []IInv
BY InitInv, StepInv, PTL DEF Spec

-----------------------------------------------------------------------------
(* The theorems. *)

\* Types; the statics never leave the table of commands, however Tabs follow
\* one another (helplist and help_matched_list are arrays of fixed size).
THEOREM CompletionTypeCorrect == Spec => []TypeOK
BY Invariance, PTL DEF IInv

\* Every candidate continues the whole line, in a row of the table.
THEOREM Continuing == Spec => []OffersContinue
BY Invariance, PTL DEF IInv

\* No candidate is returned twice for one Tab, for any table that keeps
\* OptionalAssumption: a word that may be left out is known to tokenlist wherever
\* another row has it as a plain word.
THEOREM Distinct == Spec => []NoneTwice
BY Invariance, PTL DEF IInv

\* Every row in front of the first exhausted one that goes on is represented.
THEOREM Exhaustive == Spec => []NothingHidden
BY Invariance, PTL DEF IInv
=============================================================================
