# A verification of the ifworker command line client

ifworker is the client side of a switching system that is built from boards in
slots. `client/cli` is `optiwaycli`, a command line: it turns a typed line into
requests, sends them through a broker to the agents on the boards and shows
what comes back. `client/rpc` is a library with the same requests as C
functions. The agents, the broker library (`nclt_*`), the string buffers, the
message packer and the database are not in the repository.

This directory holds TLA+ modules that model the client, TLC configurations
that check them on small instances, and proofs, checked by TLAPS for every
instance, of what matters most in the parser, the program around it, the
exchange of requests, the display of answers, the lexer with its keywords and
the completion.

## 1. The system

    user -> optiwaycli.c -> lexer -> parser.y -> request builder -> process_msg -> broker -> boards
              |   ^                    |  (globals)                     |
              |   +---- rv ------------+                 answers <------+-> unpack_*, show_*
              +-- readline completion, token table (both from cli.bnf)
    C program -> rpc_*.c -> broker -> boards

| part | state | operations | correct when |
|---|---|---|---|
| program and prompt (`optiwaycli.c`) | how it was started, the line, the answer of the user | `main`, `start_cli`, `read_line`, `is_abnormal_command`, `start_cli_cmd` | every line is parsed and the loop comes back; an unconfirmed command does nothing; a script stops at a line it could not finish |
| lexer (`lexer.l`) | name table, input buffer, lexical values | a rule per kind of token; port, slot and module masks | the masks hold the ports and slots that were typed |
| token table (`bnf_parser.py`, `lookup.c.*`) | a sorted table of keywords with minimal abbreviations | generation, linear search | an abbreviation is found exactly when it stands for one keyword |
| command parser (`parser.y.footer`) | `g_sb`, `g_ud`, `g_range`, `in_list`, `in_map`, `in_pair`, `ud_flag`, `range_flag`, `range_num`, the tcp flags, `outports_num`, `slot_mask`, `EN` | a semantic action per production, `YYERROR`, recovery at `EOS`, `cli_reset_command` | commands do not influence each other; a refused command does nothing; a request is the one that was typed, for the slots that were typed |
| request builder (`convert_*_to_json`, `close_json`) | the flags above | write a value, a pair, a section; close | the text is one complete list |
| request exchange (`cli_trans.c`, `process_msg`) | the answers, one per slot | pack, send, wait ten seconds, look at each answer | every answer is shown or reported, the return value tells of failures |
| answer display (`cli_trans.c`, `unpack_*`, `show_*`) | the packed answer, `port_link_flag` | decode and print | the table shows what was sent |
| completion (`readline.c`, `regex.c`, `ahelp.c`) | static iteration state | Tab, a call per candidate | the candidates are the words that fit, each once, and the calls end |
| rpc library (`client/rpc`) | the callers' structures | getters and setters over the same exchange | the merged answer and the return value fit what the slots returned |

Parts interact by function calls in one thread. There is no concurrency inside
the client: what makes it hard is that the parts share globals which no
function passes on, that `yyparse` can leave a command at any token in four
different ways, that a line holds any number of commands and a session any
number of lines, and that a request reaches several slots of which each may
fail, or keep silent, on its own.

## 2. What is modelled

| module | code | |
|---|---|---|
| `JsonBuilder` | the request builder | the state `[text, in_list, in_map, in_pair]` of `g_sb` and its three flags; one operator per function; the language of well-formed requests |
| `CliGrammar` | every active production | every command as a sequence of the calls its actions make |
| `CliParser` | the globals, `yyparse`, `cli_reset_command` | one action per kind of call and per way to leave a command |
| `CliPayload` | `convert_*_to_json`, `close_json` | a second rendering of a request, from the command alone |
| `RpcRequest` | the request builder of `client/rpc` | the text each function sends, and which commands share its opcode |
| `CliSession` | `optiwaycli.c` | the program around the parser, EXTENDS `CliParser` |
| `SessionPromise` | | what the program promises, without parser, grammar and buffer; `CliSession` implements it |
| `Exchange` | `process_msg`, `SAVE CONFIGURATION`, the functions of `client/rpc` | the answers of the slots and what becomes of them |
| `Display` | `process_show_cmds`, `unpack_*`, `show_*` | a reader over the bytes of an answer and a stack of loops |
| `DisplayEncoding` | the device's side | what an answer is that the display can read: a rule for each kind of part |
| `DisplayAnswers` | the device's side | answers of each layout, put together from samples |
| `Lexer` | `lexer.l`, and `_print_smp_buf_new` of `cli_trans.c` | how a word becomes a token with a value in the union, and how a mask becomes a word |
| `TokenTable` | `bnf_parser.py`, `lookup.c.footer` | how the table of abbreviations is made and searched |
| `Completion` | `command_generator` and what it calls | a Tab, call by call and row by row |
| `MCParser`, `MCSession`, `MCDisplay`, `MCLexer`, `MCCompletion` | | the instances TLC checks; `Exchange` needs none |
| `CliParser_proofs`, `CliSession_proofs`, `Exchange_proofs`, `Completion_proofs`, `Lexer_proofs` (with those of `TokenTable`), `Display_proofs`, `DisplayEncoding_proofs` | | the theorems |
| `WordFacts` | | lemmas they share: beginnings of words, least numbers, sets put in order |

**The grammar.** A production is a sequence of *ops* in the order in which the
generated parser meets them: `tok` and `eos` shift a terminal, `check` is a
test that ends in `YYERROR`, `guard` one that only skips what follows, `slot`
assigns `slot_mask`, `own` names this board's slot or ports and assigns nothing,
`val`, `key`, `ud`, `range`, `flag` and `hash` are the
`convert_*` calls and their kin, `hashvals` the loop over `hash_outports`,
`close` is `close_json`, `send` is `process_msg`, `accept` is `YYACCEPT`. Where
a check stands relative to the shift of the `EOS` matters, and is kept.

**The parser.** `mode`, `cmd` and `pc` say where `yyparse` is; the other
variables are the globals of the code under their own names, `json` being
`g_sb` with its flags. The user decides what is typed, so at every terminal a
wrong one may come (`SyntaxError`) and every test may fail (`Reject`). The
error token swallows terminals up to the next `EOS` (`Resync`); when the
failing command had its `EOS` already, that is the `EOS` of the *next* command,
and at the end of the line there is none: `yyparse` returns 1 without a reset
(`Abort`). `sent`, `assigned` (the masks the command has stored in `slot_mask`) and
`tainted` are history variables.

**The session.** `way` is how the program was started, `phase` where its loop
is. `ReadLine` is the look of `is_abnormal_command` at the first characters of
the line. That look does not notice abbreviations or doubled blanks, which is
why a command of `Confirmed` may go on to `call` without being asked about.
A prompt whose input has ended asks for ever (`EndOfInput`, `Poll`).

**The promise.** `SessionPromise` knows lines, commands and requests as
numbers: a command is carried out or refused, a refused one sends nothing, only
a refused one can break its line off, and that ends a script. `CliSession`
instantiates it with a mapping that reads `stage`, `command`, `requests` and
`broken` off its own state. Most parser steps are stutters of the promise;
`Begin` opens, `Send` issues, `SyntaxError` and `Reject` refuse, `EndCommand`,
`Resync` and `Accept` close, `Abort` breaks off.

**The exchange.** `Request` clears the array of answers and hands the request
to the broker, `Answer` is a slot's answer coming in, `Returned` the end of the
wait: all slots have answered, ten seconds have passed, or the transport has
failed. Then comes the walk over the array, one action per kind of function:
`ShowAnswer` (`process_msg`: print, stop at the first failed answer),
`GetAnswer` (the getters: pass over failed answers, decode the others into one
structure), `CheckAnswer` (`rpc_oe_set_port_mode`: return the first failure)
and `ClearAnswers` (`rpc_oe_clear_interface_counter`: look at nothing).
`Merge` is how a getter combines return values: `get_system` and `get_info`
remember an error, the others return what the last content decoded to. `held`
is the set of slots whose content is allocated, `body` and `temps` name the
slot that filled the structure. The broker is external: that a call may return
an error together with some answers, and 0 without those of silent slots, is an
assumption. `process_msg` is written for both. `rpc_oe_olp_show_status` reads
the text of an answer into a buffer of zero bytes, so that for it every text
that is not empty is `Unreadable`.

**The display.** Nothing in an answer says where a value ends, so each function
must take exactly its own bytes. `Content` is the answer byte by byte, every
tag one byte; `pos` and `err` are the mpack reader, whose error stays and which
gives zeros from then on; `todo` is the stack of loops and calls that the C code
is in; `out` lists the printed cells with their lines. `port_link_flag` is the
static that the link of a row sets and the speed of a row reads. An answer
carries `meant`, the cells that the device put in, with their places.

The devices are outside the repository. `DisplayEncoding` states what they have to
send, layout by layout and format by format as the code reads them: an answer is
a tree of parts, numbered, each with the bytes and the cells it begins and ends
with and the numbers of its kids. A rule (`IsRow`, `IsPair`, ...) looks at one
part, its own bytes and the kinds of its kids, so that it says nothing of how the
reader gets there. `WellEncoded` is an answer whose parts keep their rules,
`Carries` that what a slot handed over is all of such an answer or its beginning,
`Unknown` any other bytes, of which nothing is promised. `DisplayAnswers` builds
such answers, with their parts, from samples of every format.

**The lexer.** A word is what one rule matches as a whole (`OneToken`): flex cuts
anything else, as `1,2,3`, into such words, each of which is typed by itself. Numbers
are those that fit an `int`. A word is parts between slashes of elements between commas;
`yylval` is the union, six words of bits shared by `smps`, `mps`, `ps`, `ival`
and `sptr`, which every token leaves to the next. `TokenOf` is the order of the
rules. `StorePorts` clears and fills the port words, `ReadSmps` keeps what the
early `return`s keep. `TextOf` is the other way: how `cli_trans.c` writes the
mask of an answer, run by run. `Begun` is the number that the loop of
`_Sprint_Members_From_Mask` prints, `More` its look at the next bit, `Completed`
the number in front of the gap that ends the run, or the last one looked at; a
run that begins at 0 is never completed, since `range` is 0 then. An identifier
goes through `FindToken`; what is no keyword writes an address (`Pointer`) into
the union.

Parts are copied to `buf`, of 80 characters (`PartSize`), and masks written to
buffers of 128 (`TextSize`); the code compares neither with what it writes. `Length`
is what a list takes there with its zero, `CopiedParts` the parts that are reached,
`Overruns` and `TextFits` the comparison that the code does not make. Behind an
overrun the C program is undefined: the model sets `overrun`, leaves anything of
`Overwritten` in the union and takes no further step but `Undefined`.

**The token table.** `MatchLen` is what the loop of `bnf_parser.py` prints for a
keyword of the sorted list of its letter, `Carried` the number that it carries
over from the keyword before: one character more than the two have in common,
by whichever branch, and 0 at the first of a letter. `Table` puts the lists of
the letters behind each other. `FindToken` is the walk of `find_token` with its
two ways to end. Keywords are a constant set: the table that this commit
generates has 277 rows and no keyword twice.

**Completion.** `Tab` is the first call that readline makes for a Tab, `Call`
the ones behind it; within a call every row of the table is a step (`PassRow`,
`Offer`, `Complete`, `EndOfTable`). `index`, `end` and `help_matched_list` are
the statics of `command_generator`. `ahelp.c` is data; the constants hold a
table with the same cases.

**The requests of the library.** `RpcRequest` writes them down function by
function, with the library's own builder, as texts; `SameOpcode` lists which
commands send the same opcode.

**Abstractions.** The characters of a value, of a key and of a name are one
symbol. So is a keyword, however it is abbreviated. The range tests on numbers
are nondeterministic. The comma that the code leaves behind the last `ud` or
range entry, and the second one in front of a section, are not part of the
text. `EN` is read only by `SAVE CONFIGURATION`, right after it is assigned
there, and is no variable.

## 3. What TLC checks

Run a configuration with `tlc -config parser.cfg MCParser`.

| run | states | shows |
|---|---|---|
| `parser` | 159 000 | lines of up to three commands from the whole grammar, wrong at every place |
| `session` | 131 000 | the whole program, line after line, started in each of its three ways |
| `exchange` | 400 000 | every function that sends a request, three slots, every combination of answers, refusals and silence |
| `display` | 170 000 | answers of all six layouts and all formats, whole and cut behind every byte, and bytes that are no encoding, from one slot or several |
| `lexer` | 6 500 | interface lists, numbers and abbreviated words one after another, some beyond the buffers, and lists typed back as an answer showed them |
| `completion` | 48 000 | Tab behind Tab at every line of up to three words |
| `session_declined`, `parser_reset_system`, `parser_own_board`, `exchange_save`, `exchange_clear`, `lexer_number` | | contradicted: see the findings |

`parser`:

- `CleanBetweenCommands`: no command inherits a value, a flag or a count from
  an earlier one, wherever that one was given up; the exception is a `yyparse`
  that returned 1.
- `RejectedSendsNothing`: a command that is given up has sent nothing.
- `AddressedAsAssigned`: a command whose slots the parser stores in `slot_mask`
  sends to no others, although `slot_mask` is never reset. Commands that name this
  board's slot or a list of its ports store nothing; `OwnBoardAddressed` says what
  they should do, and is contradicted (finding 3).
- `FirstPayloadWellFormed`: the first request of a command is empty or one
  complete list. The second and later requests of `DELETE RULE a-b` are
  fragments, since `in_list` stays set; they are outside the property.
- `PayloadIsOwn`: that request is, symbol for symbol, the rendering of what this
  command typed, by a definition that does not use the builder's flags.
- `SameTextForOpcode`: where a command and a function of the rpc library send
  the same opcode, they send a list of as many values, although each has a builder
  of its own and the library spells out the four port words that the parser loops
  over. A value is one symbol: which value stands where is not compared.
  Their slot masks do differ: the library sends 0 where a command sends the
  `slot_mask` that is left over (findings 2 and 3 are instances).

`session`:

- `PromptObeysAnswer`: at the prompt a command that was asked about and not
  confirmed sends nothing, nor does the rest of its line.
- `BatchNeverTainted`: scripts never send text that a late rejection left in
  `g_sb`; the prompt does.
- `LineIsServed` (liveness): a line that is taken is parsed to its end and the
  loop comes back or the program is over.
- `KeepsPromise` (refinement): every behaviour of the program is one of
  `SessionPromise!Spec`, step by step and, with `WF(Proceed)`, to the end of
  every line.

`exchange`:

- `ToldUpToFailure`: on the command line every answer up to the first failed
  one is shown, in order of arrival, and nothing behind it, also when the
  transport reported an error.
- `HeldOnlyByFailure`: only a failed answer, or one behind it, leaves its
  content allocated.
- `ZeroMeansWhole`: a getter that returns 0 leaves no remains of a content that
  did not decode, whatever other slots sent before it.
- `ModeSetEverywhere`: the setter loses no refusal behind later answers.
- `CallReturns` (liveness): a call comes back, whoever stays silent.

`display`:

- `ShowsWhatWasSent`: a whole answer is shown cell by cell as it was meant, at
  every moment, and all of it in the end, with no byte left.
- `RowsKeepTheirLines`: cells stand on one line exactly when they belong together.
- `SpeedFollowsOwnLink`: the static link flag never decides for another row: a
  speed and a duplex go by the link that stands in front of them on their line,
  the last one if there are several. Of a row whose link comes behind its speed,
  or not at all, it says nothing; an encoding has the link in front (`IfUp`).
- `NothingMadeUp`, `ArrivedIsShown`: of an answer that is cut, what arrived is
  shown and what did not is not invented. The formats that read for themselves
  do print zeros, and a sparse row without its key reads `head[-1]`; both are
  excepted by name.
- `ShownIsSent`: whatever the bytes are, a cell without a format is a value that
  stands where the cell has its place, and so is a number that a column's format
  is given.
- `InOrder`: whatever the bytes are, values are shown in the order in which they
  stand in the answer.
- `DisplayEnds` (liveness): whatever arrives, the display ends.

`lexer`:

The first three speak of states in which no buffer was overrun.

- `SelectsOnlyNamed`: no token selects an interface that its word does not name,
  whatever earlier tokens have left in the union.
- `ReadableIsSelected`: a word of single slots up to 9, letters and legal ports
  selects all it names. Slots of two digits and ranges of slots are skipped
  without a word by the code; they are outside `Readable`.
- `ShownTypesBack`: a list that an answer shows is one word and selects, typed
  back, the same interfaces, if its text fits the buffers of both sides, no slots or
  modules are neighbours and no slot is beyond 9; it never selects others.
- `AbbreviationNamesOne`: a word is taken for a keyword exactly when it is one or
  begins exactly one.

`completion`:

- `OffersContinue`: a candidate comes from a row that the whole line fits, from
  the place to be completed.
- `NoneTwice`: none is returned twice for a Tab.
- `NothingHidden`: every row in front of the first exhausted one contributes,
  whatever place an earlier Tab stopped at. That the rows behind an exhausted row
  are lost is what the code does.
- `TabEnds` (liveness): readline gets its NULL.

Each of these modules has one type invariant besides.

**Bounds.** `MaxItems`, the commands on a line: 3 in `parser`, enough for a
command that fails, one that the recovery eats and one after it; sessions add
lines without end. `MaxEntries`, the repetitions of a list: 2, the first
and a further entry, which is what the flags tell apart. `MaxIds`: 2 ids in a
loop of requests, the first and a later one. `PortsWidth`: the commands with
port lists send one value per port; 4 (2 for sessions) instead of the real
number. `RangeLimit`: 0 for the 32 of the code, so that the second range meets
the limit: what is compared is the order of test and increment. `SlotMasks`: two masks, the one
named now and the one named before; `OwnMask` is one of them. `MaxResidue`: at the prompt, late
rejections pile up text in `g_sb` without end; the bound, in the guard of
`Reject`, stops following them. It is not reached by a run that does not abort.

`Slots`: three, so that a failed or undecodable answer can stand before, between
and behind good ones.

`display`: tables of two rows and at most three columns, lists of at most one
entry, two answers and a refusal: a first and a later row, cell and answer are
what the reader and the static can confuse. Lines of a block have at most one
element: the code reads a line of n elements n times. `NoiseAnswers` adds, for every
layout, up to three tags in any order. Strings are one character
long. `lexer`: words of 16 bits instead of 64, ports to 32 in two of them, so
that ranges cross a word; 14 slots, with one and two digits; two elements in a
part. `PartSize` is 20 and `TextSize` 32, so that lists of six ports fit and of seven do
not, and that masks of ports are below, between and beyond the two.
Keywords have up to four characters of four letters, with each way two
neighbours can share a beginning: none, some, all of the first, and a longer
share with the one before or the one behind. `completion`: ten rows that have,
between them, a row that another begins with, shared keywords, values with and
without a pattern, and words that may be left out; lines of up to three words,
fitting or not.

**Fairness.** `SessionSpec` asks for weak fairness of `Call \/ Parse \/ Return`
together: the program is one thread that runs whenever it does not wait for its
user. Nothing is assumed of the user: no line has to come (`ReadLine`) and no
answer (`Answer`). In `Exchange` the walk, the return and the end of the wait are
fair, since `nclt_sr_plus` is given ten seconds; no slot has to answer. In
`Display` all of `Next` is fair: it is sequential code that waits for nothing.
In `Completion` only `Call` is: readline calls until it is given NULL, and no
user has to press Tab. `SessionPromise` asks for `Proceed`, what the program
does with a line it has taken.

**Deadlock** is checked everywhere but in `display`, which stops when the last
answer has been shown. A program that has ended takes the stuttering step
`Ended`.

## 4. What is proved

`CliParser_proofs` proves, for all grammars, masks and limits that satisfy
`ParserAssumption`, `RequestAssumption` and `PayloadAssumption`:

| theorem | states |
|---|---|
| `TypeCorrect` | `Spec => []TypeOK`; with it, `range_num` passes its limit by at most one |
| `Isolation` | `Spec => []CleanBetweenCommands` |
| `RejectionIsSilent` | `Spec => []RejectedSendsNothing` |
| `Addressing` | `Spec => []AddressedAsAssigned`; it says nothing of commands that store no slot |
| `FirstRequest` | `Spec => []FirstPayloadWellFormed` |
| `OwnRequest` | `Spec => []PayloadIsOwn` |
| `SameText` | `Spec => []SameTextForOpcode`: as many values, in one list |

`ParserAssumption` says two things of the grammar that the code has to keep:
`YYACCEPT` comes before anything is written, and behind a `process_msg` no
terminal is read and nothing is tested. TLC evaluates it on the real grammar in
every run.

`RequestAssumption`, which only `FirstRequest`, `OwnRequest` and `SameText` need, is about the ops up to the
first `send`: single values come before the first key, a value stands directly
behind each key, ud data, ranges and hash lists only behind a first value, and what was
written is closed once before it is sent. These are the orders in which the
functions of `parser.y.footer` must be called, and nothing in the code enforces
them. `PayloadAssumption`, for `OwnRequest` and `SameText`, adds that the ids of a hash list
are collected before the one loop that writes them, and ids, ud data and ranges
before the request is closed. `SameOpcodeAssumption`, for `SameText` alone, says that
the commands which share an opcode with the library read as many values as its
function writes, and no keys, ids, ud data or ranges. TLC evaluates all three,
too, on the real grammar.

None of the safety invariants is inductive. `IInv` adds:

- `Fresh`: outside commands nothing is sent or assigned yet, and `pc` is 1;
- `CleanWhileReading`: up to the first op that is not `tok` or `eos`, the
  globals are still clean, which is what makes `Accept`, which does not reset,
  harmless;
- `SendIsBehind`: if something was sent, a `send` stands before `pc`, so by the
  assumption no terminal and no check can follow;
- `MaskIsAssigned`: once the command has stored a slot, `slot_mask` is one of those
  it has stored.

`StepInv` then goes through the actions one by one, and `Invariance` is the
temporal conclusion; the three theorems after it are its conjuncts.

For `FirstRequest`, `PayloadInv` says of a command that has sent nothing where the
builder stands in front of each op: `in_list`, `in_map` and `in_pair`, `ud_flag` and
`range_flag` follow from the ops behind, and as long as nothing is closed the
text is `Good` (neighbours fit, no loose value in the map) and ends where the
flags say (`Writing`). `NextSymbol` adds one symbol to a good text; `ValWritten`,
`KeyWritten`, `SectionWritten` and `OutportsWritten` use it for one call each, and
`Closed` shows that what `close_json` completes is `WellFormed`. Hash lists may
be of any length there; TLC looks at two ids.

For `OwnRequest`, `OwnInv` relates the text to counts of the ops behind: `Said` counts
an op, `Paired` the pairs that are complete, `Positional` the values in front of
the map, `InList` those with the hash ids. While nothing is closed, the text is
`Unclosed` with these numbers (`Holds`; behind a key it will be with the value to
come), and after `close_json` it is `OwnText`. `UnclosedGrows` and `UnclosedIds` say
what a call must append to go from one count to the next; `ValHolds`, `KeyHolds`,
`IdsHold` and `CloseHolds` that the calls append that. TLC checked `OwnInv` on the
run `parser` before it was proved. The theorem holds for any number of values,
pairs and ids.

`SameText` needs no invariant of its own: with `SendIsBehind` and `PayloadIsOwn` the
text a command has sent is `OwnText`, which for the commands of
`SameOpcodeAssumption` is a list of values and nothing else, and the function of
the library, writing its values one by one, ends with the same list
(`RpcWritesList`).

`Exchange_proofs` proves, for any set of slots:

| theorem | states |
|---|---|
| `ExchangeTypeCorrect` | `Spec => []ExchangeTypeOK`; no walk leaves the array |
| `Telling` | `Spec => []ToldUpToFailure` |
| `Freeing` | `Spec => []HeldOnlyByFailure` |
| `Merging` | `Spec => []ZeroMeansWhole` |
| `Setting` | `Spec => []ModeSetEverywhere` |

The properties speak of the end of a call, so that the invariant has to say
what a walk has achieved up to its place `i`: `NoneFailed`, `Told`, `Freed` and
`Filled` are the properties restricted to the answers behind `i`. `ArrayInv`
(one answer per slot, and only contents are allocated) is what keeps `Freed`:
freeing one answer must not be the freeing of another. There is a lemma per
action.

`CliSession_proofs` builds on `CliParser_proofs` and proves, for all grammars and
limits:

| theorem | states |
|---|---|
| `SessionTypeCorrect` | `SessionSpec => []SessionTypeOK` |
| `PromptObeys` | `SessionSpec => []PromptObeysAnswer` |
| `BatchClean` | `SessionSpec => []BatchNeverTainted` |
| `PromiseKept` | `SessionSpec => Promise!Safe`: the program implements the safety part of the abstract specification |

`SessionStepsParser` shows that a step of the session is a step of the parser or
leaves it alone, so the parser's invariant `IInv` carries over. `ParserStepKinds`
sorts the parser's steps by what the promise sees of them: opening, issuing,
refusing, closing, breaking off, or nothing. `SInv` adds to `IInv`:

- `ParserWorks`: `yyparse` is running exactly in the phase `parse`;
- `DeclinedIsDropped`: behind a declined line the prompt is reading, or polling;
- `BatchStops`: in a script the parser is clean, unless its last line was broken
  off, and then the program is returning or over.

For `PromiseKept` the step that refuses needs the parser's `SendIsBehind`: without
it a command could be refused after its first request.

`Completion_proofs` proves, for any table of commands, lists of keywords,
patterns and lines:

| theorem | states |
|---|---|
| `CompletionTypeCorrect` | `Spec => []TypeOK`; the place never leaves the table, no more words are kept than rows were passed |
| `Continuing` | `Spec => []OffersContinue` |
| `Distinct` | `Spec => []NoneTwice`, for tables that keep `OptionalAssumption` |
| `Exhaustive` | `Spec => []NothingHidden` |

`CompletionAssumption` gives types and says that no row and no word is empty.
`OptionalAssumption` is needed for `NoneTwice`: a word in brackets is returned
without them at an exhausted row and is not compared with what was returned, so
it would come twice if another row had it as a plain word that `tokenlist` does
not have in that place. The table of `ahelp.c` has it there wherever two rows
share such a word, and TLC evaluates the assumption on the table of the run.
`MatchedAll` is the lemma on which all rests: the count of
`get_history_matched_number` reaches the number of words exactly when each can
stand in its place. The invariant `IInv` adds what the statics mean between
two calls:

- `Origin`: the words kept come from the place that is to be completed, not
  from that of an earlier Tab;
- `Kept`, `Spelled`: until the search has ended, what was returned is among the
  words kept, and the words kept that can be spelled out were returned;
- `Stopped`: `end` is set at a row that the line uses up and nowhere else;
- `Passed`: the rows in front of `index` have given what they had to give. This
  is `NothingHidden` for a part of the table, and what `Start` must reset.

`Lexer_proofs` begins with `AbbreviationsAreExact`: for every finite set of
keywords and every word, `FindToken(Table, word)` is the word itself if it is a
keyword, the keyword if it begins exactly one, and nothing otherwise. The sort
is a list by position (`InOrderLists`), keywords that begin with the same
letters stand together in it (`Between`), so that a word which begins two
keywords begins two neighbours; and `match_len` is longer than what a keyword
has in common with either neighbour, or its whole length (`EnoughAlone`,
`EnoughSpelledOut`), and no longer than it must be (`NotEnough`). `Walk` is the
search: the first row that matches or lies behind the letter of the word.

It goes on to prove, for any words of one token, masks, keywords, widths and sizes
of the buffers:

| theorem | states |
|---|---|
| `LexerTypeCorrect` | `Spec => []TypeOK` |
| `SelectingNamed` | `Spec => []SelectsOnlyNamed`, as long as no buffer was overrun |
| `SelectingAll` | `Spec => []ReadableIsSelected`, with the same limit |
| `TypingBack` | `Spec => []ShownTypesBack`, for masks whose text fits the buffers of both sides |
| `Abbreviating` | `Spec => []AbbreviationNamesOne` |

`LexerInv` is the conjunction of the five with two facts about what stays: the
table of keywords is the one that was built, and the union holds six words of
bits, of which nothing more is known. That is the point of `Read`: whatever the
union holds, a token selects what its word names or nothing. `PortsRead`,
`SlotsRead` and `ModulesRead` are its parts, `Place` the arithmetic that gives a
port its bit. `SlotsWritten`, `ModulesWritten` and `PortsWritten` say of a mask
what its text names and whether it can be read; `TypedBack` joins the two and
`OneWord` says that such a text is one word. `Storing` is the step of the two
actions: without an overrun the union holds what was read, behind one anything.
`WidthAssumption` has a bit for every port, slot and module. `StarAssumption`
says that the ports fill two words: `MAX_PORT_NUMBER` is defined outside the
repository, but `_check_ports_full` looks at two words to print `*`, and
`str2map_ports` sets two words for it. Of the theorems only `TypingBack`
needs it.

`Display_proofs` proves, for any sequence of answers made of any tags and cut
anywhere, and any table of codes:

| theorem | states |
|---|---|
| `DisplayTypeCorrect` | `Spec => []TypeOK`; the reader never leaves the content |
| `ShowingSent` | `Spec => []ShownIsSent` |
| `ShowingInOrder` | `Spec => []InOrder` |
| `ShowingSpeeds` | `Spec => []SpeedFollowsOwnLink` |

`DisplayAssumption` only gives types. `DisplayInv` types the stack: each frame is
a `Frame`, the names of a list stand on the rows they belong to, and entries are
only read for the list formats. `ShowingSent` and `ShowingInOrder` need to know which frames still print
something that was read before. `Waiting` says that it is the one on top, whose
place has nothing printed behind it (`Settled`), while the frames below are
`Quiet`: they read before they print. The exception is a line of a block, where
the frame that is unpacked and the one below it hold the same tag (`Repeats`); `Printout`
says that nothing printed stands behind the reader. `OrderInv` is their
conjunction, and was checked with TLC, `DisplayInv` too, on the answers of the run
and on all short sequences of tags before it was proved. `StillStep` and
`LedStep` carry it over the actions that leave a quiet frame or one that may
print on top; there is a lemma per action.

For `ShowingSpeeds`, `LinkInv` adds to the property what makes it inductive:
`FlagIsLast`, that `port_link_flag` is the value of the link that the answer showed
last, on whatever line. `FlagStep` is what a step may do to the two: print nothing
and leave the flag, or print one cell that goes by it.

`DisplayEncoding_proofs` proves, for any set of encodings, of any length, width and
depth, and any sequence of answers, each the whole or the beginning of an
encoding or bytes that promise nothing, and any table of codes:

| theorem | states |
|---|---|
| `ShowingWhatWasSent` | `Spec => []ShowsWhatWasSent` |
| `ShowingRows` | `Spec => []RowsKeepTheirLines` |
| `ShowingArrived` | `Spec => []ArrivedIsShown` |
| `ShowingNothingMadeUp` | `Spec => []NothingMadeUp` |

`EncodingAssumption` says just that: encodings are `WellEncoded`, and every answer
is `Unknown` or carried by an encoding. TLC evaluates it on the answers of the run,
so the rules of `DisplayEncoding` are kept by answers in all layouts and formats.

The properties compare what is shown with what was meant, cell by cell, and are
far from inductive: that the cells printed so far are right says nothing of
those to come. `Known` keeps the assumption true of the answers that are left. `Following`
says that the stack, read from its top, is a way through the encoding from where
the reader stands to its end. A place (`Place`) is a byte, a number of
cells and whether a new line has been begun; `Fits` says of a frame which parts
of the encoding take the reader from one place to the next, and on which lines;
`Chain` puts the frames of a stack one behind the other; `Leads` adds the
exceptions, the state in front of the first tag and that between the names of a
list and its rows, whose heads are not read yet (`NamesToRows`). `ShownSoFar` says that the
cells printed are those meant up to the place of the reader, line by line, and
that the link flag is the one that the encoding has there, without which a speed
could not be compared. After an error the stack no longer means anything, and
`Arrived` says instead that every cell whose bytes had arrived was printed
before. So an action that finds all its bytes (`AheadIs`) has to put a stack in
place of its frame that leads from the new place to the old end, and one that
does not has to show that the cells behind it end beyond the bytes that arrived
(`Located`). There is a lemma per action.
TLC checked `Following` on some 160000 of the run's 170214 states before it was
proved.

`ShowingNothingMadeUp` is about what is printed behind the end of the bytes, of which
`Following` says nothing. There `PlacesInv` says that every frame which will hand a number to a column's format
knows the place of the tag in the content, and that no sparse frame is there,
whose key is read as 0 beyond the end. `OrderInv` then says that the number was sent.
`Unknown` is needed there: a key of a map that spelled such a format would make the
code read the number for it from zeros.

Induction over data is done where it was needed by the least counterexample:
`WFMin` of the library takes a set and no operator, so the least number with a
property exists (`Least`), and that it is the least contradicts itself one step before
(`RunGrows`: the cells of a run come in their order; `RunQuiet`: a run without cells;
`RpcWritesList`).

Every invariant that a passing run checks is a theorem. Model-checked only are

- all liveness (`DisplayEnds`, `CallReturns` and the others), with the liveness part
  of `KeepsPromise`: fairness and ENABLED are beyond the prover;
- the findings, which are counterexamples;
- that the assumptions hold of the real grammar, the table of commands of the run and
  the answers of `DisplayAnswers`, which are data.

## 5. Findings

1. `session_declined`: `start_cli` ignores the answer to its own question: in a
   script or with `-c`, a declined command is carried out.
2. `parser_reset_system`: `RESET SYSTEM` is sent with whatever `slot_mask` an
   earlier command, even a refused one, has left.
3. `parser_own_board`: `LINK_PROTECT SLOT n` insists that `n` is this board's slot,
   and `SHOW`, `CLEAR` and `SET INTERFACE` with a list of ports write this board's
   slot into the request; both are sent with the `slot_mask` of an earlier command.
4. `exchange_save`: `SAVE CONFIGURATION` prints "save configuration success."
   behind the error of a slot that refused, because `process_msg` returns what
   the transport returned.
5. `exchange_clear`: `rpc_oe_clear_interface_counter` returns `OE_STATUS_OK`
   when slots refused.
6. `lexer_number`: the rule for port lists stands before the one for integers,
   so every plain decimal is a `_PS_` and the grammar's `_INT_` is reached by
   `0100` or `0x64` only.

Seen in the model, and not among the runs: `EXIT` behind a semicolon ends the line
(`Accept`), not the program, which `EXIT` at the beginning of a line does
(`Leaving`).

## 6. Plan

What the plan has left:

1. The name table of the lexer with its limit (`add_name_table`), strings,
   addresses and times.
2. The limit of `hash_outports` (`parser.y.footer:2338`), once the size that the
   external header gives it is known.
3. The layout of the structures that the rpc getters fill, field by field.

## 7. Not modelled

The banner, the help texts and the help data are output. Productions in
comments and under `#if 0` are not part of the program, and neither is most of
`client/rpc`; `start_cli_parser`, `back_token_str` and the library's builders for
keys and strings have no caller. Of `bnf_parser.py` the reading of `cli.bnf` and the
writing of C and yacc text are left out. That a line is cut at `CMD_LEN_MAX`, or
loses its last character when a script ends without a newline, only changes
which line is parsed, and the session takes any. The libraries behind `nclt_*`,
`string_buf_*`, `json2msgpack`, `mpack`, readline and `database_*` are outside the
repository; the modules model how the code uses them.

Hazards that no property covers, with their reasons, are in `PROJECT.json`: the
limit of `hash_outports`, the prompt at the end of its input, the limit of the
name table, temperatures that a structure keeps from another slot, two
places of the display that print memory nobody has set, the lines of blocks of
several elements, which are read n times n times and do not occur in the answers of
the model, and the buffers of the lexer: what an overrun does is undefined, so the
model ends there, and the clearing of `lexer.l:153`, which is longer than the union,
is modelled up to the union's end. The buffers of fixed size in the display
(`key_str`, `head`, `str_buf`) have no counterpart: names, texts and addresses have no
length in the model.
