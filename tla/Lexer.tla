------------------------------- MODULE Lexer --------------------------------
(***************************************************************************)
(* How a word becomes a token: the rules of lexer.l for slot/module/port   *)
(* lists, numbers and identifiers with str2map_slot_module, str2map_ports  *)
(* and find_token, and the functions of cli_trans.c that write the masks   *)
(* of an answer as such a list.                                            *)
(*                                                                         *)
(* A word is a sequence of parts, what stands between slashes; a part is a *)
(* sequence of elements, what stands between commas.  yylval is a union:   *)
(* smps, mps, ps, ival and sptr are views of the same words, which one     *)
(* token leaves to the next.  A word of yylval is the set of its bits.     *)
(*                                                                         *)
(* Parts are copied, and masks written, into buffers of fixed size, which  *)
(* nothing compares with what is put there.  The behaviour of the program  *)
(* behind an overrun is undefined: the model sets overrun and ends.        *)
(***************************************************************************)
EXTENDS TokenTable

CONSTANTS
  Words,       \* what users type
  Masks,       \* what devices send for an interface list
  SlotLimit,   \* SLOT_NUMBER_PER_SYSTEM
  PortLimit,   \* MAX_PORT_NUMBER
  WordSize,    \* bits of a word
  IntMax,      \* INT_MAX, the largest number that %d reads
  PartSize,    \* the size of buf, which a part is copied to (80)
  TextSize,    \* the size of slot_buf, module_buf and port_buf (128)
  Overwritten, \* what an overrun may leave in the union
  Pointer      \* the bits of an address in the table of names

\* Every port has a bit in the four words of a mask, and so has every slot and module.
ASSUME WidthAssumption ==
  /\ WordSize \in Nat /\ WordSize > 6
  /\ SlotLimit \in 1 .. WordSize /\ PortLimit \in 1 .. 4 * WordSize - 1
  /\ Pointer \subseteq 0 .. WordSize - 1
  /\ IntMax \in Nat /\ PartSize \in Nat /\ TextSize \in Nat

\* The two words that stand for all ports, where lists are read and where they
\* are written, hold a bit for each of them and no others.
ASSUME StarAssumption == PortLimit = 2 * WordSize

Bits == 0 .. WordSize - 1
SlotBits == 0 .. SlotLimit - 1
ModuleBits == {4, 5, 6}
Letter == [r |-> 4, f |-> 5, b |-> 6]

\* An element: a number, a range, a letter or *.  A number is spelled plainly,
\* with a zero in front, or with 0x.  An identifier is a part by itself, with its
\* characters for elements; so is a mark, any character that no other rule takes.
Elem(how, from, to, dash) == [how |-> how, from |-> from, to |-> to, dash |-> dash]
Star == Elem("*", 0, 0, FALSE)
Elements ==
  [how : {"plain", "zero", "0x", "character", "mark", "*"} \cup DOMAIN Letter,
   from : Nat, to : Nat, dash : BOOLEAN]

ASSUME MasksAssumption ==
  Masks \subseteq
    [slots : SUBSET SlotBits, modules : SUBSET ModuleBits, ports : [1 .. 4 -> SUBSET Bits]]
ASSUME OverwrittenAssumption == Overwritten \subseteq [1 .. 6 -> SUBSET Bits]

VARIABLES
  token_table, \* the keywords, from the build of the program
  yylval,      \* the six words of the union
  token,       \* the token that was returned last
  keyword,     \* the keyword it is, if it is one
  word,        \* the word it was read from
  shown,       \* history: the mask that an answer has shown, until something is typed
  overrun      \* history: a buffer was written beyond its end

vars == <<token_table, yylval, token, keyword, word, shown, overrun>>
NoWord == <<>>
NoMask == [slots |-> {}, modules |-> {}, ports |-> <<{}, {}, {}, {}>>]

TypeOK ==
  /\ token_table \in Seq([name : Keywords, match_len : Nat \ {0}])
  /\ yylval \in [1 .. 6 -> SUBSET Bits]
  /\ token \in {"", "_SMPS_", "_MPS_", "_PS_", "_INT_", "_NAME_", "keyword", "characters"}
  /\ keyword \in Keywords \cup {NoWord} /\ (keyword # NoWord <=> token = "keyword")
  /\ shown \in Masks \cup {NoMask}
  /\ word \in Words \cup {NoWord} \/ shown # NoMask
  /\ overrun \in BOOLEAN

-----------------------------------------------------------------------------
(* The patterns. *)
Plain(e) == e.how = "plain"
Nums(part) == part # <<>> /\ \A k \in DOMAIN part : Plain(part[k])
SmpElem(part) == Nums(part) \/ part = <<Star>>
Letters(part) == part # <<>> /\ \A k \in DOMAIN part : part[k].how \in DOMAIN Letter /\ ~part[k].dash
SmpM2(part) == Letters(part) /\ Len(part) <= 3
SmpM3(part) == (Letters(part) /\ Len(part) <= 6) \/ part = <<Star>>

SmpsData(w) == Len(w) = 3 /\ SmpElem(w[1]) /\ SmpM3(w[2]) /\ SmpElem(w[3])
MpsData(w) == Len(w) = 2 /\ SmpM2(w[1]) /\ SmpElem(w[2])
PortsData(w) == Len(w) = 1 /\ Nums(w[1]) /\ Len(w[1]) <= 2
Integer(w) == Len(w) = 1 /\ Len(w[1]) = 1 /\ ~w[1][1].dash /\ w[1][1].how \in {"plain", "zero", "0x"}

Ident(w) == Len(w) = 1 /\ w[1] # <<>> /\ \A k \in DOMAIN w[1] : w[1][k].how = "character"
Characters(w) == [k \in DOMAIN w[1] |-> w[1][k].from]
Mark(w) == Len(w) = 1 /\ Len(w[1]) = 1 /\ w[1][1].how = "mark"

\* A word is what one rule matches as a whole.  Anything else that users type, as
\* 1,2,3 where no slash is, the scanner cuts into such words and reads one after
\* the other.  The numbers are those that fit an int.
OneToken(w) ==
  SmpsData(w) \/ MpsData(w) \/ PortsData(w) \/ Integer(w) \/ Ident(w) \/ Mark(w)
ASSUME WordsAssumption ==
  /\ Words \subseteq Seq(Seq(Elements))
  /\ \A w \in Words :
       /\ OneToken(w)
       /\ \A j \in DOMAIN w : \A k \in DOMAIN w[j] : w[j][k].from <= IntMax /\ w[j][k].to <= IntMax

\* What find_token makes of a word.
KeywordOf(w) == IF Ident(w) THEN FindToken(token_table, Characters(w)) ELSE NoWord

\* All of these match the whole word, so the rule that stands first wins.
TokenOf(w) ==
  IF SmpsData(w) THEN "_SMPS_" ELSE IF MpsData(w) THEN "_MPS_"
  ELSE IF PortsData(w) THEN "_PS_" ELSE IF Integer(w) THEN "_INT_"
  ELSE IF ~Ident(w) THEN "characters"
  ELSE IF KeywordOf(w) # NoWord THEN "keyword" ELSE "_NAME_"

-----------------------------------------------------------------------------
(* str2map_slot_module: only elements of one character are looked at. *)
OneCharacter(e) == ~e.dash /\ (e.how # "plain" \/ e.from < 10)
MemberBits(e) ==
  IF ~OneCharacter(e) THEN {}
  ELSE IF e.how = "*" THEN Bits
  ELSE IF e.how \in DOMAIN Letter THEN {Letter[e.how]} ELSE {e.from - 1}
BadMember(e) == OneCharacter(e) /\ Plain(e) /\ e.from \notin 1 .. SlotLimit
Members(part) == UNION {MemberBits(part[k]) : k \in DOMAIN part}
\* A list is refused for an element, or for a bit beyond the mask.
Refused(part, mask) ==
  (\E k \in DOMAIN part : BadMember(part[k])) \/ ~(Members(part) \subseteq mask)

\* str2map_ports, with insert_port_to_p.
PortRange(e) == IF e.dash THEN e.from .. e.to ELSE {e.from}
BadPorts(e) ==
  IF e.dash THEN e.from > e.to \/ e.to > PortLimit \/ e.from < 1
  ELSE e.how # "*" /\ e.from \notin 1 .. PortLimit
RefusedPorts(part) == \E k \in DOMAIN part : BadPorts(part[k])
\* Faulty variant: the bit of port n is bit n.
PortWordFrom1(part, j) ==
  {b \in Bits : \E k \in DOMAIN part :
     \/ part[k].how = "*" /\ j \in {1, 2}
     \/ part[k].how # "*" /\ (j - 1) * WordSize + b \in PortRange(part[k])}
PortWord(part, j) ==
  {b \in Bits : \E k \in DOMAIN part :
     \/ part[k].how = "*" /\ j \in {1, 2}
     \/ part[k].how # "*" /\ (j - 1) * WordSize + b + 1 \in PortRange(part[k])}

\* Faulty variant: the union ends behind the ports.
StorePortsShort(y, first, part) ==
  [j \in 1 .. first + 3 |-> IF j < first THEN y[j] ELSE PortWord(part, j - first + 1)]
\* The ports go to yylval from word first on.  The clearing is longer than the
\* mask and reaches the end of the union; a refused list leaves the mask empty.
StorePorts(y, first, part) ==
  [j \in 1 .. 6 |-> IF j < first THEN y[j]
                    ELSE IF j > first + 3 \/ RefusedPorts(part) THEN {}
                    ELSE PortWord(part, j - first + 1)]

\* Faulty variant: the refused slots stay.
ReadSmpsUncleared(w) ==
  LET slots == [yylval EXCEPT ![1] = Members(w[1])]
      both == [slots EXCEPT ![2] = Members(w[2])]
  IN  IF Refused(w[1], SlotBits) THEN slots
      ELSE IF Refused(w[2], ModuleBits) THEN [slots EXCEPT ![2] = {}]
      ELSE StorePorts(both, 3, w[3])
\* A refused part leaves those behind it as an earlier token has left them.
ReadSmps(w) ==
  LET slots == [yylval EXCEPT ![1] = Members(w[1])]
      both == [slots EXCEPT ![2] = Members(w[2])]
  IN  IF Refused(w[1], SlotBits) THEN [yylval EXCEPT ![1] = {}]
      ELSE IF Refused(w[2], ModuleBits) THEN [slots EXCEPT ![2] = {}]
      ELSE StorePorts(both, 3, w[3])
ReadMps(w) ==
  IF Refused(w[1], ModuleBits) THEN [yylval EXCEPT ![1] = {}]
  ELSE StorePorts([yylval EXCEPT ![1] = Members(w[1])], 2, w[2])

BitsOf(n) == {b \in Bits : (n \div 2 ^ b) % 2 = 1}

Reading(w) ==
  CASE TokenOf(w) = "_SMPS_" -> ReadSmps(w)
    [] TokenOf(w) = "_MPS_" -> ReadMps(w)
    [] TokenOf(w) = "_PS_" -> StorePorts(yylval, 1, w[1])
    [] TokenOf(w) = "_INT_" -> [yylval EXCEPT ![1] = BitsOf(w[1][1].from)]
    [] TokenOf(w) = "_NAME_" -> [yylval EXCEPT ![1] = Pointer]
    [] OTHER -> yylval

\* strcpy(buf, s): the characters of every element and one more behind it, a comma
\* or the zero at the end.
Digits[n \in Nat] == IF n < 10 THEN 1 ELSE 1 + Digits[n \div 10]
Width(e) == Digits[e.from] + IF e.dash THEN 1 + Digits[e.to] ELSE 0
Length(part) == MapThenSumSet(LAMBDA k : Width(part[k]) + 1, DOMAIN part)

\* The parts that are copied: none behind a refused one.
CopiedParts(w) ==
  IF SmpsData(w) THEN
    IF Refused(w[1], SlotBits) THEN {1} ELSE IF Refused(w[2], ModuleBits) THEN {1, 2} ELSE 1 .. 3
  ELSE IF MpsData(w) THEN IF Refused(w[1], ModuleBits) THEN {1} ELSE {1, 2}
  ELSE IF PortsData(w) THEN {1} ELSE {}
Overruns(w) == \E k \in CopiedParts(w) : Length(w[k]) > PartSize

-----------------------------------------------------------------------------
(* Writing: _Sprint_Members_From_Mask, _Sprint_Ports_From_Mask and          *)
(* _print_smp_buf_new.  A run is written as its first number where it begins *)
(* and is completed where it ends; range is the number that began it.        *)

\* A run begins behind a gap.  One that begins at 0 is forgotten: range is 0 then.
Begun(members, n) == n \in members /\ (n <= 1 \/ n - 1 \notin members)
\* What is written at the first number, by a look ahead, that a run has more.
More(members, n) == n # 0 /\ n + 1 \in members
\* Faulty variant: a run is completed with the number behind it.
CompletedPast(members, n, high) ==
  1 + CHOOSE m \in n .. high : n .. m \subseteq members /\ (m = high \/ m + 1 \notin members)
\* The number that completes a run: the last one in front of a gap, or high, the
\* last one that is looked at.
Completed(members, n, high) ==
  CHOOSE m \in n .. high : n .. m \subseteq members /\ (m = high \/ m + 1 \notin members)
RunText(members, n, high) ==
  Elem("plain", n, IF More(members, n) THEN Completed(members, n, high) ELSE n, More(members, n))
\* The members from low to high; the look ahead goes one further.
Scan(members, low, high) ==
  LET begun == {n \in low .. high : Begun(members, n)}
      first == Ordered(begun, <)
  IN  [k \in 1 .. Cardinality(begun) |-> RunText(members, first[k], high)]
MembersText(bits, max) == Scan(bits, 0, max - 1)
\* _check_port_in_ports is asked for ports up to PortLimit, and has a bit for it.
PortSet(ports, n) == (n - 1) % WordSize \in ports[(n - 1) \div WordSize + 1]
PortsText(ports) ==
  IF ports[1] = Bits /\ ports[2] = Bits THEN <<Star>>
  ELSE Scan({n \in 1 .. PortLimit + 1 : PortSet(ports, n)}, 1, PortLimit)

\* Each digit of a module becomes its letter.
LetterOf(n) == IF n \in ModuleBits THEN CHOOSE c \in DOMAIN Letter : Letter[c] = n ELSE "plain"
ModulesText(modules) ==
  LET text == MembersText(modules, 7) IN
  [k \in DOMAIN text |-> [text[k] EXCEPT !.how = LetterOf(text[k].from)]]
TextOf(mask) ==
  <<MembersText({b + 1 : b \in mask.slots}, SlotLimit + 1), ModulesText(mask.modules),
    PortsText(mask.ports)>>
\* The three texts are written into buffers.  All ports are written as one range
\* before * takes its place.
TextFits(mask) == \A k \in 1 .. 3 : Length(TextOf(mask)[k]) <= TextSize

-----------------------------------------------------------------------------
Init ==
  /\ token_table = Table /\ yylval = [j \in 1 .. 6 |-> {}] /\ token = "" /\ keyword = NoWord /\ word = NoWord
  /\ shown \in Masks \cup {NoMask} /\ overrun = (shown # NoMask /\ ~TextFits(shown))

\* The union behind a word.
Stored(w) == yylval' \in (IF Overruns(w) THEN Overwritten ELSE {Reading(w)}) /\ overrun' = Overruns(w)

\* A word is read and its token handed to the parser.
Type(w) ==
  /\ ~overrun
  /\ Stored(w) /\ token' = TokenOf(w) /\ keyword' = KeywordOf(w) /\ word' = w
  /\ shown' = NoMask /\ UNCHANGED token_table

\* What an answer has shown is typed as it stands, if it is one word: a range of
\* modules, or a part without anything, is not.
TypeShown ==
  /\ ~overrun /\ shown # NoMask /\ word = NoWord /\ SmpsData(TextOf(shown))
  /\ Stored(TextOf(shown)) /\ token' = TokenOf(TextOf(shown))
  /\ keyword' = NoWord /\ word' = TextOf(shown) /\ UNCHANGED <<shown, token_table>>

\* Nothing is defined behind an overrun.
Undefined == overrun /\ UNCHANGED vars

Next == TypeShown \/ Undefined \/ \E w \in Words : Type(w)
Spec == Init /\ [][Next]_vars

-----------------------------------------------------------------------------
(* The interfaces that a token gives to the parser, and those that a word   *)
(* names: every number, range, letter and * taken at its word.              *)
PortsFrom(first) ==
  {n \in 1 .. 4 * WordSize : (n - 1) % WordSize \in yylval[first + (n - 1) \div WordSize]}
Selected ==
  CASE token = "_SMPS_" -> {b + 1 : b \in yylval[1]} \X yylval[2] \X PortsFrom(3)
    [] token = "_MPS_" -> {0} \X yylval[1] \X PortsFrom(2)
    [] token = "_PS_" -> {0} \X {0} \X PortsFrom(1)
    [] OTHER -> {}

SlotsNamed(part) ==
  UNION {IF part[k].how = "*" THEN 1 .. SlotLimit ELSE PortRange(part[k]) : k \in DOMAIN part}
ModulesNamed(part) ==
  UNION {IF part[k].how = "*" THEN ModuleBits ELSE {Letter[part[k].how]} : k \in DOMAIN part}
PortsNamed(part) ==
  UNION {IF part[k].how = "*" THEN 1 .. 2 * WordSize ELSE PortRange(part[k]) : k \in DOMAIN part}
Named ==
  CASE token = "_SMPS_" -> SlotsNamed(word[1]) \X ModulesNamed(word[2]) \X PortsNamed(word[3])
    [] token = "_MPS_" -> {0} \X ModulesNamed(word[1]) \X PortsNamed(word[2])
    [] token = "_PS_" -> {0} \X {0} \X PortsNamed(word[1])
    [] OTHER -> {}

\* What the lexer can read of slots, modules and ports.
ReadableMembers(part) == \A k \in DOMAIN part :
  OneCharacter(part[k]) /\ ~BadMember(part[k]) /\ part[k].how # "*"
Readable ==
  LET n == Len(word) IN
  /\ n = 3 => ReadableMembers(word[1])
  /\ n >= 2 => ReadableMembers(word[n - 1])
  /\ ~RefusedPorts(word[n])

\* As long as no buffer was overrun: no token selects an interface that its word
\* does not name, not through the part behind a refused one, which is left over
\* from an earlier word, nor through the bits of a list that is refused half way.
SelectsOnlyNamed == ~overrun => Selected \subseteq Named

\* As long as no buffer was overrun: a word of single slots up to 9, of letters,
\* and of ports within the limit selects everything that it names, whatever was
\* typed before it.
ReadableIsSelected ==
  ~overrun /\ token \in {"_SMPS_", "_MPS_", "_PS_"} /\ Readable => Selected = Named

\* A list that an answer shows can be typed back, as long as its text fits the
\* buffers of both sides.  It is one word and selects the interfaces it stood for,
\* provided that no two slots or modules are neighbours and no slot is beyond 9;
\* and it never selects others.
Apart(bits) == \A b \in bits : b + 1 \notin bits
ReadableMask(mask) == Apart(mask.slots) /\ Apart(mask.modules) /\ mask.slots \subseteq 0 .. 8
MaskSet(mask) ==
  {b + 1 : b \in mask.slots} \X mask.modules \X {n \in 1 .. PortLimit : PortSet(mask.ports, n)}
ShownTypesBack ==
  shown # NoMask /\ ~overrun =>
    /\ ReadableMask(shown) /\ MaskSet(shown) # {} => SmpsData(TextOf(shown))
    /\ word # NoWord => Selected \subseteq MaskSet(shown)
    /\ word # NoWord /\ ReadableMask(shown) => Selected = MaskSet(shown)

\* A word is a keyword if it is spelled out or if it is the beginning of that
\* keyword and of no other, and a name otherwise: no abbreviation is taken for
\* one of several keywords, and none that is enough is turned down.
Begins(k) == IsPrefix(Characters(word), k)
AbbreviationNamesOne ==
  Ident(word) =>
    LET begun == {k \in Keywords : Begins(k)}
        own   == IF Characters(word) \in Keywords THEN {Characters(word)} ELSE begun
    IN  IF Cardinality(own) = 1 THEN keyword \in own ELSE token = "_NAME_"

\* parser.y.footer:950, help of SET INTERFACE: "SPEED {100|1000|10000}".  The
\* grammar takes a number there, and at every id, so a number must be one.
NumberIsInteger == Len(word) = 1 /\ Integer(word) => token = "_INT_"
=============================================================================
