--------------------------- MODULE Exchange_proofs ---------------------------
(***************************************************************************)
(* What holds of one request for any number of slots, whatever they answer *)
(* and in whatever order.                                                  *)
(***************************************************************************)
EXTENDS Exchange, SequenceTheorems, TLAPS

-----------------------------------------------------------------------------
(* Types. *)

\* An answer that comes in makes the array one longer and changes no other.
LEMMA AppendAnswer ==
  ASSUME NEW s \in Seq(Answers), NEW a \in Answers
  PROVE  /\ Append(s, a) \in Seq(Answers)
         /\ Len(Append(s, a)) = Len(s) + 1
         /\ \A k \in 1..Len(s) : Append(s, a)[k] = s[k]
         /\ Append(s, a)[Len(s) + 1] = a
  BY AppendProperties

LEMMA AppendLine ==
  ASSUME NEW s \in Seq(Lines), NEW l \in Lines
  PROVE  /\ Append(s, l) \in Seq(Lines)
         /\ Len(Append(s, l)) = Len(s) + 1
         /\ \A k \in 1..Len(s) : Append(s, l)[k] = s[k]
         /\ Append(s, l)[Len(s) + 1] = l
  BY AppendProperties

LEMMA Empty ==
  <<>> \in Seq(Answers) /\ <<>> \in Seq(Lines) /\ Len(<<>>) = 0 /\ 1 \in 1..(Len(<<>>) + 1)
  BY EmptySeq

\* The answer a walk looks at.
LEMMA Looking ==
  ASSUME ExchangeTypeOK, i <= Len(res)
  PROVE  /\ i \in 1..Len(res) /\ Len(res) \in Nat /\ i + 1 \in 1..(Len(res) + 1)
         /\ res[i] \in Answers /\ res[i].slot \in Slots
         /\ res[i].rv \in {"ok", "refused"} /\ res[i].content \in Contents
<1>1. res \in Seq(Answers) /\ i \in 1..(Len(res) + 1)
  BY DEF ExchangeTypeOK
<1>2. Len(res) \in Nat
  BY <1>1, LenProperties
<1>3. i \in 1..Len(res) /\ i + 1 \in 1..(Len(res) + 1)
  BY <1>1, <1>2
<1>4. res[i] \in Answers
  BY <1>1, <1>3, ElementOfSeq
<1> QED
  BY <1>2, <1>3, <1>4 DEF Answers

LEMMA InitType == Init => ExchangeTypeOK
<1> SUFFICES ASSUME Init PROVE ExchangeTypeOK
  OBVIOUS
<1>1. res \in Seq(Answers) /\ told \in Seq(Lines) /\ i \in 1..(Len(res) + 1)
  BY Empty DEF Init
<1> QED
  BY <1>1 DEF Init, ExchangeTypeOK, Callers, Cli, Codes

LEMMA StepType == ExchangeTypeOK /\ [Next]_vars => ExchangeTypeOK'
<1> SUFFICES ASSUME ExchangeTypeOK, [Next]_vars
             PROVE  ExchangeTypeOK'
  OBVIOUS
<1>0. Len(res) \in Nat /\ Len(told) \in Nat
  BY LenProperties DEF ExchangeTypeOK
<1>1. ASSUME NEW c \in Callers, Request(c)
      PROVE  ExchangeTypeOK'
  <2>1. res' \in Seq(Answers) /\ told' \in Seq(Lines) /\ i' \in 1..(Len(res') + 1)
    BY <1>1, Empty DEF Request
  <2> QED
    BY <1>1, <2>1 DEF Request, ExchangeTypeOK, Codes
<1>2. ASSUME NEW a \in Answers, Answer(a)
      PROVE  ExchangeTypeOK'
  <2>1. res' \in Seq(Answers) /\ Len(res') = Len(res) + 1
    <3>1. res \in Seq(Answers) /\ res' = Append(res, a)
      BY <1>2 DEF Answer, ExchangeTypeOK
    <3> QED
      BY <3>1, AppendAnswer
  <2>3. i' \in 1..(Len(res') + 1)
    <3>1. i' = i /\ i \in 1..(Len(res) + 1)
      BY <1>2 DEF Answer, ExchangeTypeOK
    <3> QED
      BY <3>1, <2>1, <1>0
  <2>2. held' \subseteq Slots
    BY <1>2 DEF Answer, ExchangeTypeOK, Answers
  <2> QED
    BY <1>2, <2>1, <2>2, <2>3 DEF Answer, ExchangeTypeOK, structure
<1>3. ASSUME NEW code \in {"ok", "lost"}, Returned(code)
      PROVE  ExchangeTypeOK'
  BY <1>3 DEF Returned, ExchangeTypeOK, structure, Codes
<1>4. CASE ShowAnswer
  <2>1. /\ i \in 1..Len(res) /\ i + 1 \in 1..(Len(res) + 1) /\ res[i].slot \in Slots
    BY <1>4, Looking DEF ShowAnswer, Walking
  <2>2. told' \in Seq(Lines)
    <3>1. \A l \in {"table", "set ok", "error"} : [slot |-> res[i].slot, line |-> l] \in Lines
      BY <2>1 DEF Lines
    <3> QED
      BY <1>4, <3>1, AppendLine, ZenonT(40) DEF ShowAnswer, ExchangeTypeOK
  <2>3. i' \in 1..(Len(res') + 1) /\ rv' \in Codes /\ held' \subseteq Slots
        /\ phase' \in {"idle", "wait", "walk", "back"}
    BY <1>4, <2>1 DEF ShowAnswer, ExchangeTypeOK, Codes, Free
  <2> QED
    BY <1>4, <2>2, <2>3 DEF ShowAnswer, ExchangeTypeOK, structure
<1>5. CASE GetAnswer
  <2>1. /\ i + 1 \in 1..(Len(res) + 1) /\ res[i].slot \in Slots
    BY <1>5, Looking DEF GetAnswer, Walking
  <2>2. rv' \in Codes
    BY <1>5 DEF GetAnswer, ExchangeTypeOK, Merge, Decoded, Unreadable, Codes
  <2>3. held' \subseteq Slots
    BY <1>5 DEF GetAnswer, ExchangeTypeOK, Free
  <2>4. body' \in Slots \cup {None, Torn} /\ temps' \in Slots \cup {None, Torn}
    BY <1>5, <2>1 DEF GetAnswer, ExchangeTypeOK, Fill, Unreadable, structure
  <2> QED
    BY <1>5, <2>1, <2>2, <2>3, <2>4 DEF GetAnswer, ExchangeTypeOK
<1>6. CASE CheckAnswer
  <2>1. /\ i \in 1..(Len(res) + 1) /\ i + 1 \in 1..(Len(res) + 1) /\ res[i].rv \in {"ok", "refused"}
    BY <1>6, Looking DEF CheckAnswer, Walking, ExchangeTypeOK
  <2> QED
    BY <1>6, <2>1 DEF CheckAnswer, ExchangeTypeOK, Free, structure, Codes
<1>7. CASE ClearAnswers
  BY <1>7 DEF ClearAnswers, ExchangeTypeOK, structure
<1>8. CASE EndOfWalk
  BY <1>8 DEF EndOfWalk, ExchangeTypeOK, structure
<1>9. CASE Return
  BY <1>9 DEF Return, ExchangeTypeOK, structure
<1>10. CASE UNCHANGED vars
  BY <1>10 DEF vars, structure, ExchangeTypeOK
<1> QED
  BY <1>1, <1>2, <1>3, <1>4, <1>5, <1>6, <1>7, <1>8, <1>9, <1>10 DEF Next, Walk

\* Every variable keeps its type; in particular no walk leaves the array.
THEOREM ExchangeTypeCorrect == Spec => []ExchangeTypeOK
  BY InitType, StepType, PTL DEF Spec
-----------------------------------------------------------------------------
(* The inductive invariant: what the walk has done up to its place i. *)

\* There is one answer of each slot at most, and what is allocated is the
\* content of an answer.
ArrayInv ==
  /\ held \subseteq {res[k].slot : k \in 1..Len(res)}
  /\ \A j, k \in 1..Len(res) : res[j].slot = res[k].slot => j = k
  /\ \A k \in 1..Len(res) : res[k].slot \in held => res[k].content # "none"

Fresh == phase = "wait" => i = 1 /\ told = <<>> /\ body = None

\* A walk that ends at a failed answer has met none before.
NoneFailed ==
  phase = "walk" /\ caller \in Cli \cup {"set_port_mode"} =>
    \A k \in 1..(i - 1) : k \notin Refusals

\* What is behind the walk is told.
Told ==
  phase = "walk" /\ caller \in Cli =>
    /\ Len(told) = i - 1
    /\ \A k \in 1..(i - 1) : told[k].slot = res[k].slot /\ told[k].line # "error"

\* What is behind the walk is freed, but for the failed answers of a getter.
Freed ==
  phase = "walk" /\ caller \in Callers \ {"get_config", "clear_interface_counter"} =>
    \A k \in 1..(i - 1) : res[k].slot \in held => caller \in Getters /\ k \in Refusals

\* While a getter's return value is 0, its structure is what the last content
\* behind the walk has left.
Filled ==
  phase = "walk" /\ caller \in Getters /\ rv = "ok" =>
    \/ body = None
    \/ \E k \in 1..(i - 1) :
         /\ body = res[k].slot /\ res[k].content \in {"whole", "short"}
         /\ \A j \in (k + 1)..(i - 1) : j \in Refusals \/ res[j].content = "none"

HollowFillNothing == caller \in Hollow => body = None

IInv ==
  /\ ExchangeTypeOK
  /\ ArrayInv /\ Fresh /\ NoneFailed /\ Told /\ Freed /\ Filled /\ HollowFillNothing
  /\ ToldUpToFailure /\ HeldOnlyByFailure /\ ZeroMeansWhole /\ ModeSetEverywhere

LEMMA InitInv == Init => IInv
<1> SUFFICES ASSUME Init PROVE IInv
  OBVIOUS
<1>1. ExchangeTypeOK
  BY InitType
<1>2. phase = "idle" /\ res = <<>> /\ caller \notin Hollow
  BY DEF Init, Hollow
<1>3. ArrayInv
  <2>1. \A k \in 1..Len(res) : FALSE
    BY <1>2, Empty
  <2>2. held = {}
    BY DEF Init
  <2> QED
    BY <2>1, <2>2 DEF ArrayInv
<1> QED
  BY <1>1, <1>2, <1>3 DEF IInv, Fresh, NoneFailed, Told, Freed, Filled, HollowFillNothing,
     ToldUpToFailure, HeldOnlyByFailure, ZeroMeansWhole, ModeSetEverywhere

\* A step outside the walk that leaves "walk" and "back" alone, or is not there
\* yet, has nothing to show but the array.
LEMMA NotWalking ==
  ASSUME ExchangeTypeOK', ArrayInv', Fresh', HollowFillNothing',
         phase' \in {"idle", "wait"}
  PROVE  IInv'
  BY DEF IInv, NoneFailed, Told, Freed, Filled,
     ToldUpToFailure, HeldOnlyByFailure, ZeroMeansWhole, ModeSetEverywhere

LEMMA RequestInv ==
  ASSUME IInv, NEW c \in Callers, Request(c), ExchangeTypeOK'
  PROVE  IInv'
<1>1. ArrayInv'
  <2>1. \A k \in 1..Len(res') : FALSE
    <3>1. res' = <<>>
      BY DEF Request
    <3> QED
      BY <3>1, Empty
  <2>2. held' = {}
    BY DEF Request
  <2> QED
    BY <2>1, <2>2 DEF ArrayInv
<1>2. Fresh' /\ HollowFillNothing' /\ phase' = "wait"
  BY DEF Request, Fresh, HollowFillNothing
<1> QED
  BY <1>1, <1>2, NotWalking

LEMMA AnswerInv ==
  ASSUME IInv, NEW a \in Answers, Answer(a), ExchangeTypeOK'
  PROVE  IInv'
<1>1. /\ res \in Seq(Answers) /\ res' = Append(res, a)
      /\ \A k \in 1..Len(res) : res[k].slot # a.slot
      /\ held' = IF a.content = "none" THEN held ELSE held \cup {a.slot}
      /\ phase' = "wait"
  BY DEF IInv, ExchangeTypeOK, Answer
<1>2. /\ Len(res') = Len(res) + 1 /\ Len(res) \in Nat
      /\ \A k \in 1..Len(res) : res'[k] = res[k]
      /\ res'[Len(res) + 1] = a
  BY <1>1, AppendAnswer, LenProperties
<1>3. \A k \in 1..Len(res') : k \in 1..Len(res) \/ k = Len(res) + 1
  BY <1>2
<1>4. ASSUME NEW j \in 1..Len(res'), NEW k \in 1..Len(res'), res'[j].slot = res'[k].slot
      PROVE  j = k
  BY <1>1, <1>2, <1>3, <1>4 DEF IInv, ArrayInv
<1>5. held \subseteq {res[k].slot : k \in 1..Len(res)}
  BY DEF IInv, ArrayInv
<1>6. ASSUME NEW k \in 1..Len(res'), res'[k].slot \in held'
      PROVE  res'[k].content # "none"
  BY <1>1, <1>2, <1>3, <1>5, <1>6 DEF IInv, ArrayInv
<1>7. held' \subseteq {res'[k].slot : k \in 1..Len(res')}
  <2>1. ASSUME NEW s \in held'
        PROVE  \E k \in 1..Len(res') : res'[k].slot = s
    <3>1. CASE s = a.slot
      BY <1>2, <3>1
    <3>2. CASE s # a.slot
      <4>1. PICK k \in 1..Len(res) : res[k].slot = s
        BY <1>1, <1>5, <3>2
      <4>2. k \in 1..Len(res') /\ res'[k].slot = s
        BY <4>1, <1>2
      <4> QED
        BY <4>2
    <3> QED
      BY <3>1, <3>2
  <2> QED
    BY <2>1
<1>8. ArrayInv'
  BY <1>4, <1>6, <1>7 DEF ArrayInv
<1>9. Fresh' /\ HollowFillNothing'
  BY DEF Fresh, HollowFillNothing, IInv, Answer, structure
<1> QED
  BY <1>1, <1>8, <1>9, NotWalking

\* Behind the walk the array stays as it came, and contents only go.
LEMMA KeepArray ==
  ASSUME ArrayInv, res' = res, held' \subseteq held
  PROVE  ArrayInv' /\ Refusals' = Refusals
  BY DEF ArrayInv, Refusals

LEMMA ReturnedInv ==
  ASSUME IInv, NEW code \in {"ok", "lost"}, Returned(code), ExchangeTypeOK'
  PROVE  IInv'
<1>1. ArrayInv' /\ Refusals' = Refusals
  BY KeepArray DEF IInv, Returned
<1>2. /\ i' = 1 /\ told' = <<>> /\ body' = None /\ caller' = caller /\ rv' = code
      /\ \/ phase' = "walk"
         \/ phase' = "back" /\ code = "lost" /\ caller \in Getters \cup {"set_port_mode"}
  BY DEF IInv, Fresh, Returned, structure
<1>3. \A k \in 1..(i' - 1) : FALSE
  BY <1>2
<1>4. NoneFailed' /\ Freed'
  BY <1>3 DEF NoneFailed, Freed
<1>5. Told'
  <2>1. Len(told') = i' - 1
    BY <1>2, Empty
  <2> QED
    BY <2>1, <1>3 DEF Told
<1>6. Fresh' /\ Filled' /\ HollowFillNothing'
  BY <1>2 DEF Fresh, Filled, HollowFillNothing
<1>7. ToldUpToFailure' /\ HeldOnlyByFailure' /\ ZeroMeansWhole' /\ ModeSetEverywhere'
  <2>1. caller \in Getters \cup {"set_port_mode"} => caller \notin Cli
    BY DEF Getters, Keeping, Replacing, Hollow, Cli
  <2> QED
    BY <1>2, <2>1 DEF ToldUpToFailure, HeldOnlyByFailure, ZeroMeansWhole, ModeSetEverywhere
<1> QED
  BY <1>1, <1>4, <1>5, <1>6, <1>7 DEF IInv

\* The callers of the four walks are different ones.
LEMMA CallersDiffer ==
  /\ Cli \cap Getters = {} /\ Hollow \subseteq Getters /\ Hollow \cap Keeping = {}
  /\ "set_port_mode" \notin Cli \cup Getters
  /\ "clear_interface_counter" \notin Cli \cup Getters
  /\ "get_config" \notin Cli \cup Getters
  BY DEF Getters, Keeping, Replacing, Hollow, Cli

\* The place the walk has reached, and what it leaves behind by its next step.
LEMMA Behind ==
  ASSUME ExchangeTypeOK, i <= Len(res)
  PROVE  /\ i \in 1..Len(res) /\ (i + 1) - 1 = i
         /\ \A k \in 1..i : k \in 1..Len(res) /\ (k \in 1..(i - 1) \/ k = i)
         /\ \A k \in 1..(i - 1) : k \in 1..Len(res) /\ k # i /\ k < i
  BY Looking

LEMMA ShowAnswerInv ==
  ASSUME IInv, ShowAnswer, ExchangeTypeOK'
  PROVE  IInv'
<1>1. /\ phase = "walk" /\ caller \in Cli /\ i <= Len(res) /\ res' = res /\ caller' = caller
      /\ body' = body /\ held' \subseteq held
  BY DEF ShowAnswer, Walking, Free, structure
<1>2. ExchangeTypeOK /\ ArrayInv /\ NoneFailed /\ Told /\ Freed /\ HollowFillNothing
  BY DEF IInv
<1>3. ArrayInv' /\ Refusals' = Refusals
  BY <1>1, <1>2, KeepArray
<1>4. caller \notin Getters /\ caller # "set_port_mode" /\ caller \notin Hollow
      /\ caller # "get_config" /\ caller # "clear_interface_counter"
  BY <1>1, CallersDiffer
<1>5. /\ i \in 1..Len(res) /\ (i + 1) - 1 = i
      /\ \A k \in 1..i : k \in 1..Len(res) /\ (k \in 1..(i - 1) \/ k = i)
      /\ \A k \in 1..(i - 1) : k \in 1..Len(res) /\ k # i /\ k < i
      /\ res[i].slot \in Slots /\ Len(res) \in Nat
  BY <1>1, <1>2, Behind, Looking
<1>6. \A l \in {"table", "set ok", "error"} : [slot |-> res[i].slot, line |-> l] \in Lines
  BY <1>5 DEF Lines
<1>7. /\ told \in Seq(Lines) /\ Len(told) = i - 1
      /\ \A k \in 1..(i - 1) : told[k].slot = res[k].slot /\ told[k].line # "error"
      /\ \A k \in 1..(i - 1) : k \notin Refusals /\ res[k].slot \notin held
  BY <1>1, <1>2, <1>4 DEF ExchangeTypeOK, Told, NoneFailed, Freed
<1>8. Len(told) + 1 = i
  <2>1. Len(told) = i - 1
    BY <1>7
  <2>2. i \in 1..Len(res) /\ Len(res) \in Nat
    BY <1>5
  <2>3. i \in Nat
    BY <2>2
  <2> QED
    BY <2>1, <2>3
<1>9. ASSUME NEW l \in {"table", "set ok", "error"},
             told' = Append(told, [slot |-> res[i].slot, line |-> l])
      PROVE  /\ Len(told') = i
             /\ \A k \in 1..(i - 1) : told'[k].slot = res[k].slot /\ told'[k].line # "error"
             /\ told'[i].slot = res[i].slot /\ told'[i].line = l
  <2> DEFINE t == [slot |-> res[i].slot, line |-> l]
  <2>1. /\ Len(told') = Len(told) + 1
        /\ \A k \in 1..Len(told) : told'[k] = told[k]
        /\ told'[Len(told) + 1] = t
    BY <1>6, <1>7, <1>9, AppendLine
  <2>3. t.slot = res[i].slot /\ t.line = l
    OBVIOUS
  <2> QED
    BY <2>1, <2>3, <1>7, <1>8
<1>10. CASE res[i].rv = "ok"
  <2>1. /\ phase' = "walk" /\ i' = i + 1 /\ res[i].slot \notin held'
        /\ \E l \in {"table", "set ok"} :
             told' = Append(told, [slot |-> res[i].slot, line |-> l])
    BY <1>1, <1>2, <1>5, <1>10 DEF ShowAnswer, Free, ArrayInv
  <2>2. PICK l \in {"table", "set ok"} :
          told' = Append(told, [slot |-> res[i].slot, line |-> l])
    BY <2>1
  <2>3. i \notin Refusals /\ i' - 1 = i
    BY <1>5, <1>10, <2>1 DEF Refusals
  <2>4. NoneFailed'
    BY <1>3, <1>5, <1>7, <2>3 DEF NoneFailed
  <2>5. Told'
    <3>1. /\ Len(told') = i
          /\ \A k \in 1..i : told'[k].slot = res[k].slot /\ told'[k].line # "error"
      BY <1>5, <1>9, <2>2
    <3> QED
      BY <3>1, <1>1, <2>3 DEF Told
  <2>6. Freed'
    BY <1>1, <1>5, <1>7, <2>1, <2>3 DEF Freed
  <2>7. Fresh' /\ Filled' /\ HollowFillNothing'
    BY <1>1, <1>4, <2>1 DEF Fresh, Filled, HollowFillNothing
  <2>8. ToldUpToFailure' /\ HeldOnlyByFailure' /\ ZeroMeansWhole' /\ ModeSetEverywhere'
    BY <2>1 DEF ToldUpToFailure, HeldOnlyByFailure, ZeroMeansWhole, ModeSetEverywhere
  <2> QED
    BY <1>3, <2>4, <2>5, <2>6, <2>7, <2>8 DEF IInv
<1>11. CASE res[i].rv # "ok"
  <2>1. /\ phase' = "back" /\ i \in Refusals
        /\ told' = Append(told, [slot |-> res[i].slot, line |-> "error"])
    BY <1>5, <1>11 DEF ShowAnswer, Refusals
  <2>2. /\ Len(told') = i
        /\ \A k \in 1..(i - 1) : told'[k].slot = res[k].slot /\ told'[k].line # "error"
        /\ told'[i].slot = res[i].slot /\ told'[i].line = "error"
    BY <1>9, <2>1
  <2>3. ToldUpToFailure'
    <3>1. ASSUME NEW k \in 1..Len(res)
          PROVE  k <= i <=> \A j \in Refusals : k <= j
      <4>1. \A j \in Refusals : j \in 1..Len(res) /\ i <= j
        BY <1>5, <1>7 DEF Refusals
      <4> QED
        BY <4>1, <2>1, <1>5
    <3>2. ASSUME NEW k \in 1..i
          PROVE  told'[k].slot = res[k].slot /\ (told'[k].line = "error" <=> k \in Refusals)
      BY <1>5, <1>7, <2>1, <2>2
    <3> QED
      BY <1>1, <1>3, <2>2, <3>1, <3>2 DEF ToldUpToFailure
  <2>4. HeldOnlyByFailure'
    <3>1. ASSUME NEW k \in 1..Len(res), res[k].slot \in held'
          PROVE  \E j \in Refusals : j <= k
      <4>1. k \notin 1..(i - 1)
        BY <1>1, <1>7, <3>1
      <4> QED
        BY <4>1, <1>5, <2>1
    <3> QED
      BY <1>1, <1>3, <1>4, <3>1 DEF HeldOnlyByFailure
  <2>5. Fresh' /\ NoneFailed' /\ Told' /\ Freed' /\ Filled' /\ HollowFillNothing'
    BY <1>1, <1>4, <2>1 DEF Fresh, NoneFailed, Told, Freed, Filled, HollowFillNothing
  <2>6. ZeroMeansWhole' /\ ModeSetEverywhere'
    BY <1>1, <1>4 DEF ZeroMeansWhole, ModeSetEverywhere
  <2> QED
    BY <1>3, <2>3, <2>4, <2>5, <2>6 DEF IInv
<1> QED
  BY <1>10, <1>11

LEMMA GetAnswerInv ==
  ASSUME IInv, GetAnswer, ExchangeTypeOK'
  PROVE  IInv'
<1>1. /\ phase = "walk" /\ phase' = "walk" /\ caller \in Getters /\ i <= Len(res)
      /\ res' = res /\ caller' = caller /\ i' = i + 1 /\ held' \subseteq held
  BY DEF GetAnswer, Walking, Free
<1>2. ExchangeTypeOK /\ ArrayInv /\ Freed /\ Filled /\ HollowFillNothing
  BY DEF IInv
<1>3. ArrayInv' /\ Refusals' = Refusals
  BY <1>1, <1>2, KeepArray
<1>4. caller \notin Cli /\ caller # "set_port_mode"
  BY <1>1, CallersDiffer
<1>5. /\ i \in 1..Len(res) /\ i' - 1 = i
      /\ \A k \in 1..i : k \in 1..Len(res) /\ (k \in 1..(i - 1) \/ k = i)
      /\ \A k \in 1..(i - 1) : k \in 1..Len(res) /\ k # i /\ k < i
      /\ res[i].content \in Contents
  BY <1>1, <1>2, Behind, Looking
<1>6. Freed'
  <2>1. res[i].slot \in held' => i \in Refusals
    BY <1>1, <1>2, <1>5 DEF GetAnswer, Free, Refusals, ArrayInv
  <2>2. \A k \in 1..(i - 1) : res[k].slot \in held' => k \in Refusals
    BY <1>1, <1>2, CallersDiffer DEF Freed, Callers
  <2> QED
    BY <1>1, <1>3, <1>5, <2>1, <2>2 DEF Freed
<1>7. HollowFillNothing'
  BY <1>1, <1>2 DEF GetAnswer, Fill, HollowFillNothing, structure
<1>8. Filled'
  <2> SUFFICES ASSUME rv' = "ok", body' # None
               PROVE  \E k \in 1..i :
                        /\ body' = res[k].slot /\ res[k].content \in {"whole", "short"}
                        /\ \A j \in (k + 1)..i : j \in Refusals \/ res[j].content = "none"
    BY <1>1, <1>3, <1>5 DEF Filled
  <2>0. caller \notin Hollow
    BY <1>1, <1>7 DEF HollowFillNothing
  <2>1. CASE res[i].rv = "ok" /\ res[i].content # "none"
    <3>1. rv' = Merge(res[i]) /\ Fill(res[i])
      BY <2>1 DEF GetAnswer
    <3>2. ~Unreadable(res[i]) /\ res[i].content # "bad"
      BY <3>1, <2>0 DEF Merge, Decoded, Unreadable
    <3>3. body' = res[i].slot /\ res[i].content \in {"whole", "short"}
      BY <2>0, <2>1, <3>1, <3>2, <1>5 DEF Fill, Contents
    <3>4. i \in 1..i /\ \A j \in (i + 1)..i : FALSE
      BY <1>5
    <3> QED
      BY <3>3, <3>4
  <2>2. CASE ~(res[i].rv = "ok" /\ res[i].content # "none")
    <3>1. rv = "ok" /\ body' = body /\ body # None
      BY <2>2 DEF GetAnswer, structure
    <3>2. PICK k \in 1..(i - 1) :
            /\ body = res[k].slot /\ res[k].content \in {"whole", "short"}
            /\ \A j \in (k + 1)..(i - 1) : j \in Refusals \/ res[j].content = "none"
      BY <1>1, <1>2, <3>1 DEF Filled
    <3>3. i \in Refusals \/ res[i].content = "none"
      BY <2>2, <1>5 DEF Refusals
    <3>4. k \in 1..i /\ \A j \in (k + 1)..i : j \in (k + 1)..(i - 1) \/ j = i
      BY <1>5
    <3> QED
      BY <3>1, <3>2, <3>3, <3>4
  <2> QED
    BY <2>1, <2>2
<1>9. Fresh' /\ NoneFailed' /\ Told'
  BY <1>1, <1>4 DEF Fresh, NoneFailed, Told
<1>10. ToldUpToFailure' /\ HeldOnlyByFailure' /\ ZeroMeansWhole' /\ ModeSetEverywhere'
  BY <1>1 DEF ToldUpToFailure, HeldOnlyByFailure, ZeroMeansWhole, ModeSetEverywhere
<1> QED
  BY <1>3, <1>6, <1>7, <1>8, <1>9, <1>10 DEF IInv

LEMMA CheckAnswerInv ==
  ASSUME IInv, CheckAnswer, ExchangeTypeOK'
  PROVE  IInv'
<1>1. /\ phase = "walk" /\ caller = "set_port_mode" /\ i <= Len(res)
      /\ res' = res /\ caller' = caller /\ body' = body
      /\ held' = held \ {res[i].slot} /\ rv' = res[i].rv
  BY DEF CheckAnswer, Walking, Free, structure
<1>2. ExchangeTypeOK /\ ArrayInv /\ NoneFailed /\ Freed /\ HollowFillNothing
  BY DEF IInv
<1>3. ArrayInv' /\ Refusals' = Refusals
  <2>1. held' \subseteq held
    BY <1>1
  <2> QED
    BY <1>1, <1>2, <2>1, KeepArray
<1>4. caller \notin Cli /\ caller \notin Getters /\ caller \in Callers
      /\ caller \in Callers \ {"get_config", "clear_interface_counter"}
  BY <1>1, CallersDiffer DEF Callers
<1>5. /\ i \in 1..Len(res) /\ (i + 1) - 1 = i
      /\ \A k \in 1..i : k \in 1..Len(res) /\ (k \in 1..(i - 1) \/ k = i)
      /\ \A k \in 1..(i - 1) : k \in 1..Len(res) /\ k # i /\ k < i
  BY <1>1, <1>2, Behind
<1>6. \A k \in 1..(i - 1) : k \notin Refusals /\ res[k].slot \notin held
  BY <1>1, <1>2, <1>4 DEF NoneFailed, Freed
<1>7. Fresh' /\ Told' /\ Filled' /\ HollowFillNothing' /\ ToldUpToFailure' /\ ZeroMeansWhole'
  <2>1. phase' # "wait"
    BY <1>1 DEF CheckAnswer
  <2> QED
    BY <1>1, <1>2, <1>4, <2>1
    DEF Fresh, Told, Filled, HollowFillNothing, ToldUpToFailure, ZeroMeansWhole
<1>8. CASE res[i].rv = "ok"
  <2>1. phase' = "walk" /\ i' = i + 1
    BY <1>1, <1>8 DEF CheckAnswer
  <2>2. i \notin Refusals /\ res[i].slot \notin held' /\ i' - 1 = i
    BY <1>1, <1>5, <1>8, <2>1 DEF Refusals
  <2>3. NoneFailed' /\ Freed'
    BY <1>1, <1>3, <1>5, <1>6, <2>2 DEF NoneFailed, Freed
  <2>4. HeldOnlyByFailure' /\ ModeSetEverywhere'
    BY <2>1 DEF HeldOnlyByFailure, ModeSetEverywhere
  <2> QED
    BY <1>3, <1>7, <2>3, <2>4 DEF IInv
<1>9. CASE res[i].rv # "ok"
  <2>1. phase' = "back" /\ rv' # "ok" /\ i \in Refusals
    BY <1>1, <1>5, <1>9 DEF CheckAnswer, Refusals
  <2>2. HeldOnlyByFailure'
    <3>1. ASSUME NEW k \in 1..Len(res), res[k].slot \in held'
          PROVE  \E j \in Refusals : j < k
      <4>1. k \notin 1..(i - 1) /\ k # i
        BY <1>1, <1>6, <3>1
      <4>2. i < k
        BY <4>1, <1>5
      <4> QED
        BY <4>2, <2>1
    <3> QED
      BY <1>1, <1>3, <1>4, <3>1 DEF HeldOnlyByFailure
  <2>3. NoneFailed' /\ Freed' /\ ModeSetEverywhere'
    BY <2>1 DEF NoneFailed, Freed, ModeSetEverywhere
  <2> QED
    BY <1>3, <1>7, <2>2, <2>3 DEF IInv
<1> QED
  BY <1>8, <1>9

LEMMA ClearAnswersInv ==
  ASSUME IInv, ClearAnswers, ExchangeTypeOK'
  PROVE  IInv'
<1>1. /\ phase' = "back" /\ caller' = "clear_interface_counter" /\ held' = {}
      /\ caller' = caller /\ body' = body
  BY DEF ClearAnswers, structure
<1>2. ArrayInv' /\ Refusals' = Refusals
  BY KeepArray DEF IInv, ClearAnswers
<1>3. HollowFillNothing'
  BY <1>1 DEF IInv, HollowFillNothing
<1>4. Fresh' /\ NoneFailed' /\ Told' /\ Freed' /\ Filled'
  BY <1>1 DEF Fresh, NoneFailed, Told, Freed, Filled
<1>5. ToldUpToFailure' /\ HeldOnlyByFailure' /\ ZeroMeansWhole' /\ ModeSetEverywhere'
  BY <1>1, CallersDiffer
  DEF ToldUpToFailure, HeldOnlyByFailure, ZeroMeansWhole, ModeSetEverywhere
<1> QED
  BY <1>2, <1>3, <1>4, <1>5 DEF IInv

LEMMA EndOfWalkInv ==
  ASSUME IInv, EndOfWalk, ExchangeTypeOK'
  PROVE  IInv'
<1>1. /\ phase = "walk" /\ phase' = "back" /\ res' = res /\ caller' = caller /\ rv' = rv
      /\ held' = held /\ body' = body /\ told' = told
      /\ caller \in Callers /\ caller # "clear_interface_counter"
  BY DEF EndOfWalk, IInv, ExchangeTypeOK, structure
<1>2. ArrayInv' /\ Refusals' = Refusals
  BY <1>1, KeepArray DEF IInv
<1>3. HollowFillNothing'
  BY <1>1 DEF IInv, HollowFillNothing
<1>4. Fresh' /\ NoneFailed' /\ Told' /\ Freed' /\ Filled'
  BY <1>1 DEF Fresh, NoneFailed, Told, Freed, Filled
<1>5. CASE caller = "get_config"
  <2>1. ToldUpToFailure' /\ HeldOnlyByFailure' /\ ZeroMeansWhole' /\ ModeSetEverywhere'
    BY <1>1, <1>5, CallersDiffer
    DEF ToldUpToFailure, HeldOnlyByFailure, ZeroMeansWhole, ModeSetEverywhere
  <2> QED
    BY <1>2, <1>3, <1>4, <2>1 DEF IInv
<1>6. CASE caller # "get_config"
  <2>1. i - 1 = Len(res) /\ Len(res) \in Nat
    <3>1. i \in 1..(Len(res) + 1) /\ Len(res) \in Nat
      BY LenProperties DEF IInv, ExchangeTypeOK
    <3>2. i > Len(res)
      BY <1>1, <1>6 DEF EndOfWalk
    <3> QED
      BY <3>1, <3>2
  <2>2. caller \in Cli \cup {"set_port_mode"} => Refusals = {}
    BY <1>1, <2>1 DEF IInv, NoneFailed, Refusals
  <2>3. ToldUpToFailure'
    <3> SUFFICES ASSUME caller \in Cli
                 PROVE  ToldUpToFailure'
      BY <1>1 DEF ToldUpToFailure
    <3>1. Len(told) = Len(res)
          /\ \A k \in 1..Len(res) : told[k].slot = res[k].slot /\ told[k].line # "error"
      BY <1>1, <2>1 DEF IInv, Told
    <3>2. \A k \in 1..Len(res) : k <= Len(res)
      BY <2>1
    <3> QED
      BY <1>1, <1>2, <2>2, <3>1, <3>2 DEF ToldUpToFailure
  <2>4. HeldOnlyByFailure'
    <3>1. \A k \in 1..Len(res) : res[k].slot \in held => caller \in Getters /\ k \in Refusals
      BY <1>1, <1>6, <2>1 DEF IInv, Freed
    <3> QED
      BY <1>1, <1>2, <3>1 DEF HeldOnlyByFailure
  <2>5. ZeroMeansWhole'
    BY <1>1, <1>2, <2>1 DEF IInv, Filled, ZeroMeansWhole
  <2>6. ModeSetEverywhere'
    BY <1>1, <1>2, <2>2 DEF ModeSetEverywhere
  <2> QED
    BY <1>2, <1>3, <1>4, <2>3, <2>4, <2>5, <2>6 DEF IInv
<1> QED
  BY <1>5, <1>6

LEMMA ReturnInv ==
  ASSUME IInv, Return, ExchangeTypeOK'
  PROVE  IInv'
<1>1. ArrayInv' /\ Refusals' = Refusals
  BY KeepArray DEF IInv, Return
<1>2. Fresh' /\ HollowFillNothing' /\ phase' = "idle"
  BY DEF IInv, Return, Fresh, HollowFillNothing, structure
<1> QED
  BY <1>1, <1>2, NotWalking

LEMMA StepInv == IInv /\ [Next]_vars => IInv'
<1> SUFFICES ASSUME IInv, [Next]_vars
             PROVE  IInv'
  OBVIOUS
<1>1. ExchangeTypeOK'
  BY StepType DEF IInv
<1>2. CASE UNCHANGED vars
  <2>1. /\ caller' = caller /\ phase' = phase /\ res' = res /\ i' = i /\ rv' = rv
        /\ held' = held /\ body' = body /\ told' = told
    BY <1>2 DEF vars, structure
  <2>2. ArrayInv' /\ Refusals' = Refusals
    BY <2>1, KeepArray DEF IInv
  <2>3. Fresh' /\ NoneFailed' /\ Told' /\ HollowFillNothing'
    BY <2>1, <2>2 DEF IInv, Fresh, NoneFailed, Told, HollowFillNothing
  <2>4. Freed' /\ Filled'
    BY <2>1, <2>2 DEF IInv, Freed, Filled
  <2>5. ToldUpToFailure' /\ HeldOnlyByFailure'
    BY <2>1, <2>2 DEF IInv, ToldUpToFailure, HeldOnlyByFailure
  <2>6. ZeroMeansWhole' /\ ModeSetEverywhere'
    BY <2>1, <2>2 DEF IInv, ZeroMeansWhole, ModeSetEverywhere
  <2> QED
    BY <1>1, <2>2, <2>3, <2>4, <2>5, <2>6 DEF IInv
<1> QED
  BY <1>1, <1>2, RequestInv, AnswerInv, ReturnedInv, ShowAnswerInv, GetAnswerInv,
     CheckAnswerInv, ClearAnswersInv, EndOfWalkInv, ReturnInv DEF Next, Walk

\* The invariant of one request, for any slots.
THEOREM ExchangeInvariance == Spec => []IInv
  BY InitInv, StepInv, PTL DEF Spec

\* Every answer up to the first failed one is told, in order, and nothing
\* behind it (process_msg).
THEOREM Telling == Spec => []ToldUpToFailure
<1>1. IInv => ToldUpToFailure
  BY DEF IInv
<1> QED
  BY <1>1, ExchangeInvariance, PTL

\* Only failures leave contents allocated (all walks).
THEOREM Freeing == Spec => []HeldOnlyByFailure
<1>1. IInv => HeldOnlyByFailure
  BY DEF IInv
<1> QED
  BY <1>1, ExchangeInvariance, PTL

\* A getter that returns 0 never leaves the remains of a content that did not
\* decode (the getters of the rpc library).
THEOREM Merging == Spec => []ZeroMeansWhole
<1>1. IInv => ZeroMeansWhole
  BY DEF IInv
<1> QED
  BY <1>1, ExchangeInvariance, PTL

\* No refusal is lost behind a later answer (rpc_oe_set_port_mode).
THEOREM Setting == Spec => []ModeSetEverywhere
<1>1. IInv => ModeSetEverywhere
  BY DEF IInv
<1> QED
  BY <1>1, ExchangeInvariance, PTL
=============================================================================
