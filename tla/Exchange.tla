------------------------------ MODULE Exchange ------------------------------
(***************************************************************************)
(* One request and the answers of the slots: process_msg of the command    *)
(* line (cli_trans.c) and the functions of the rpc library, which all send *)
(* with nclt_sr_plus and then walk through an array with one answer for    *)
(* each slot that has answered within ten seconds.                         *)
(*                                                                         *)
(* They share the array and differ in the walk: which answers they look at,*)
(* which of the return values survives, whether a failure ends the walk,   *)
(* and which contents they free.                                           *)
(*                                                                         *)
(* What a content says is abstracted to how it decodes: "whole", "short"   *)
(* (whole, but without the optional temperatures of get_system, or with an *)
(* empty text for olp_show_status) or "bad" (the reader ends in an error,  *)
(* fields behind it are zero).  Code "lost" is any failure of the          *)
(* transport, "refused" any of a slot, "illegal" is OE_ERR_PARAM_ILLEGAL.  *)
(***************************************************************************)
EXTENDS Naturals, Sequences

CONSTANTS
  Slots,    \* the slots the request reaches, at most MAX_SLOT_NUM
  None,     \* no slot has filled this part of the caller's structure
  Torn      \* a content that did not decode was the last to fill it

ASSUME ExchangeAssumption == None # Torn /\ {None, Torn} \cap Slots = {}

\* process_msg, for SAVE CONFIGURATION (which alone looks at what it returns)
\* and for all other commands.
Cli == {"process_msg", "save"}

\* Getters that remember that some content did not decode.
Keeping == {"get_system", "get_info"}

\* Getters that return what the last content decoded to.
Replacing == {"get_board_info", "get_interface_status", "get_snmp_trap_info",
              "olp_show_status", "get_snmp_entry"}

\* Getters whose decoder is compiled out: they fill nothing and return 0.
Hollow == {"get_interface_counter", "get_interface_info"}

Getters == Keeping \cup Replacing \cup Hollow

Callers == Cli \cup Getters \cup {"set_port_mode", "clear_interface_counter", "get_config"}

Codes == {"ok", "lost", "refused", "illegal"}
Contents == {"none", "whole", "short", "bad"}
Answers == [slot: Slots, rv: {"ok", "refused"}, content: Contents]
Lines == [slot: Slots, line: {"table", "set ok", "error"}]

VARIABLES
  caller, phase,
  res, i,       \* the answers and the place of the walk
  rv,
  held,         \* slots whose content is allocated
  body, temps,  \* the slot whose answer fills the caller's structure, and its
                \* optional part
  told,         \* what process_msg has printed
  message       \* what SAVE CONFIGURATION has printed

structure == <<body, temps>>
vars == <<caller, phase, res, i, rv, held, structure, told, message>>

ExchangeTypeOK ==
  /\ caller \in Callers /\ phase \in {"idle", "wait", "walk", "back"}
  /\ res \in Seq(Answers) /\ i \in 1..(Len(res) + 1) /\ rv \in Codes
  /\ held \subseteq Slots
  /\ body \in Slots \cup {None, Torn} /\ temps \in Slots \cup {None, Torn}
  /\ told \in Seq(Lines) /\ message \in {"", "success", "error"}

Init ==
  /\ caller = "process_msg" /\ phase = "idle"
  /\ res = <<>> /\ i = 1 /\ rv = "ok" /\ held = {}
  /\ body = None /\ temps = None /\ told = <<>> /\ message = ""

-----------------------------------------------------------------------------
(* The request and the broker. *)

\* Faulty variant: the index of the walk is not set back.
RequestKeepsIndex(c) ==
  /\ phase = "idle" /\ phase' = "wait" /\ caller' = c
  /\ res' = <<>> /\ rv' = "ok" /\ held' = {}
  /\ body' = None /\ temps' = None /\ told' = <<>> /\ message' = ""
  /\ UNCHANGED i

\* The array is cleared and the request handed to nclt_sr_plus.
Request(c) ==
  /\ phase = "idle" /\ phase' = "wait" /\ caller' = c
  /\ res' = <<>> /\ i' = 1 /\ rv' = "ok" /\ held' = {}
  /\ body' = None /\ temps' = None /\ told' = <<>> /\ message' = ""

\* A slot has done or refused what it was asked and its answer comes in.
Answer(a) ==
  /\ phase = "wait" /\ \A k \in 1..Len(res) : res[k].slot # a.slot
  /\ res' = Append(res, a)
  /\ held' = IF a.content = "none" THEN held ELSE held \cup {a.slot}
  /\ UNCHANGED <<caller, phase, i, rv, structure, told, message>>

\* Faulty variant: the client waits for all slots.
ReturnedWhenAll(code) ==
  /\ phase = "wait" /\ rv' = code
  /\ Slots = {res[k].slot : k \in 1..Len(res)}
  /\ phase' = IF code # "ok" /\ caller \in Getters \cup {"set_port_mode"}
              THEN "back" ELSE "walk"
  /\ UNCHANGED <<caller, res, i, held, structure, told, message>>

\* Every slot has answered, ten seconds are over, or the transport has failed.
\* The getters and set_port_mode look at the answers only when it has not.
Returned(code) ==
  /\ phase = "wait" /\ rv' = code
  /\ phase' = IF code # "ok" /\ caller \in Getters \cup {"set_port_mode"}
              THEN "back" ELSE "walk"
  /\ UNCHANGED <<caller, res, i, held, structure, told, message>>

-----------------------------------------------------------------------------
(* The walks. *)

Walking(callers) == phase = "walk" /\ caller \in callers /\ i <= Len(res)

Free(a) == held' = held \ {a.slot}

\* Faulty variant: process_msg goes on behind a failed answer.
ShowAnswerGoesOn ==
  /\ Walking(Cli)
  /\ LET a == res[i] IN
       /\ told' = Append(told, [slot |-> a.slot, line |->
                    IF a.rv # "ok" THEN "error" ELSE IF a.content = "none" THEN "set ok" ELSE "table"])
       /\ IF a.rv = "ok" THEN Free(a) ELSE UNCHANGED held
  /\ i' = i + 1
  /\ UNCHANGED <<caller, phase, res, rv, structure, message>>

\* process_msg: the first failed answer ends the walk.  process_show_cmds
\* returns 0 for every content, also for one it cannot decode.
ShowAnswer ==
  /\ Walking(Cli)
  /\ LET a == res[i]
         Tell(l) == told' = Append(told, [slot |-> a.slot, line |-> l])
     IN  \/ /\ a.rv = "ok" /\ a.content # "none"
            /\ Tell("table") /\ rv' = "ok" /\ Free(a) /\ i' = i + 1 /\ UNCHANGED phase
         \/ /\ a.rv = "ok" /\ a.content = "none"
            /\ Tell("set ok") /\ i' = i + 1 /\ UNCHANGED <<rv, held, phase>>
         \/ /\ a.rv # "ok"
            /\ Tell("error") /\ phase' = "back" /\ UNCHANGED <<rv, held, i>>
  /\ UNCHANGED <<caller, res, structure, message>>

\* A content the reader ends in an error with.  rpc_oe_olp_show_status reads
\* into a buffer of no bytes, so that only an empty text ("short") decodes.
Unreadable(a) ==
  \/ a.content = "bad"
  \/ caller = "olp_show_status" /\ a.content = "whole"

\* What the decoder of a getter returns.
Decoded(a) == IF Unreadable(a) /\ caller \notin Hollow THEN "illegal" ELSE "ok"

\* Faulty variant: a content that decodes clears the error of an earlier one
\* and one that does not decode leaves the return value alone.
MergeSwapped(a) == IF Decoded(a) = "ok" THEN "ok" ELSE rv

Merge(a) == IF caller \in Keeping /\ Decoded(a) = "ok" THEN rv ELSE Decoded(a)

\* The caller's one structure is filled by every content in turn.
Fill(a) ==
  LET filler == IF Unreadable(a) THEN Torn ELSE a.slot
  IN  /\ body' = IF caller \in Hollow THEN body ELSE filler
      /\ temps' = IF caller = "get_system" /\ a.content # "short" THEN filler ELSE temps

\* A getter passes over failed answers and those without a content.
GetAnswer ==
  /\ Walking(Getters) /\ i' = i + 1
  /\ LET a == res[i]
     IN  \/ a.rv = "ok" /\ a.content # "none" /\ rv' = Merge(a) /\ Fill(a) /\ Free(a)
         \/ (a.rv # "ok" \/ a.content = "none") /\ UNCHANGED <<rv, structure, held>>
  /\ UNCHANGED <<caller, phase, res, told, message>>

\* Faulty variant: set_port_mode looks at all answers and returns the last.
CheckAnswerToTheEnd ==
  /\ Walking({"set_port_mode"})
  /\ rv' = res[i].rv /\ Free(res[i]) /\ i' = i + 1
  /\ UNCHANGED <<caller, phase, res, structure, told, message>>

\* Faulty variant: the content is freed behind the test that ends the walk.
CheckAnswerThenFree ==
  /\ Walking({"set_port_mode"})
  /\ rv' = res[i].rv
  /\ IF res[i].rv = "ok"
     THEN i' = i + 1 /\ Free(res[i]) /\ UNCHANGED phase
     ELSE phase' = "back" /\ UNCHANGED <<i, held>>
  /\ UNCHANGED <<caller, res, structure, told, message>>

\* rpc_oe_set_port_mode: the first failed answer is returned.
CheckAnswer ==
  /\ Walking({"set_port_mode"})
  /\ rv' = res[i].rv /\ Free(res[i])
  /\ IF res[i].rv = "ok" THEN i' = i + 1 /\ UNCHANGED phase
                         ELSE phase' = "back" /\ UNCHANGED i
  /\ UNCHANGED <<caller, res, structure, told, message>>

\* rpc_oe_clear_interface_counter frees every content and looks at no answer.
ClearAnswers ==
  /\ phase = "walk" /\ caller = "clear_interface_counter"
  /\ held' = {} /\ phase' = "back"
  /\ UNCHANGED <<caller, res, i, rv, structure, told, message>>

\* The end of the array; rpc_oe_save_or_get_config hands it over as it is.
EndOfWalk ==
  /\ phase = "walk" /\ phase' = "back"
  /\ caller = "get_config" \/ (caller # "clear_interface_counter" /\ i > Len(res))
  /\ UNCHANGED <<caller, res, i, rv, held, structure, told, message>>

\* Back in the caller.
Return ==
  /\ phase = "back" /\ phase' = "idle"
  /\ message' = IF caller # "save" THEN "" ELSE IF rv = "ok" THEN "success" ELSE "error"
  /\ UNCHANGED <<caller, res, i, rv, held, structure, told>>

Walk == ShowAnswer \/ GetAnswer \/ CheckAnswer \/ ClearAnswers \/ EndOfWalk

Next ==
  \/ \E c \in Callers : Request(c)
  \/ \E a \in Answers : Answer(a)
  \/ \E code \in {"ok", "lost"} : Returned(code)
  \/ Walk \/ Return

\* The ten seconds pass whether slots answer or not, and the walk is
\* sequential code.  No slot has to answer, and no request has to be made.
Spec ==
  /\ Init /\ [][Next]_vars
  /\ WF_vars(Walk \/ Return \/ \E code \in {"ok", "lost"} : Returned(code))

-----------------------------------------------------------------------------
(* Properties. *)

Refusals == {k \in 1..Len(res) : res[k].rv # "ok"}

\* The user of the command line sees, in the order of arrival, every answer up
\* to the first failed one and that failure, and nothing behind it; also when
\* the transport has reported an error but some slots have answered.
ToldUpToFailure ==
  phase = "back" /\ caller \in Cli =>
    /\ \A k \in 1..Len(res) : k <= Len(told) <=> \A j \in Refusals : k <= j
    /\ \A k \in 1..Len(told) :
         told[k].slot = res[k].slot /\ (told[k].line = "error" <=> k \in Refusals)

\* When a function is back, a content that is still allocated came with a
\* failed answer or, in the walks that end there, behind one; set_port_mode
\* frees even the one that made it fail.  (The array of get_config is its
\* caller's; the getters free nothing when the transport failed.)
HeldOnlyByFailure ==
  phase = "back" /\ caller # "get_config" /\ rv # "lost" =>
    \A k \in 1..Len(res) : res[k].slot \in held =>
      \E j \in Refusals : IF caller \in Getters THEN j = k
                          ELSE IF caller = "set_port_mode" THEN j < k ELSE j <= k

\* A getter that returns 0 leaves in its caller's structure what the last slot
\* with a content has sent, all of it but for optional parts, or leaves the
\* structure alone: never the remains of a content that did not decode.
ZeroMeansWhole ==
  phase = "back" /\ caller \in Getters /\ rv = "ok" =>
    \/ body = None
    \/ \E k \in 1..Len(res) :
         /\ body = res[k].slot /\ res[k].content \in {"whole", "short"}
         /\ \A j \in (k + 1)..Len(res) : j \in Refusals \/ res[j].content = "none"

\* rpc_oe_set_port_mode returns 0 only if no slot that answered has refused,
\* wherever in the array the refusal stands.
ModeSetEverywhere ==
  phase = "back" /\ caller = "set_port_mode" /\ rv = "ok" => Refusals = {}

\* A call comes back, whichever slots stay silent and whatever the others say.
CallReturns == phase = "wait" ~> phase = "idle"

\* Contradicted by the code: "save configuration success." is printed only when
\* no slot has refused to save.
SaveSuccessIsTrue == message = "success" => Refusals = {}

\* Contradicted by the code: clearing counters returns OE_STATUS_OK only if no
\* slot that answered has refused.
ClearOkIsTrue ==
  phase = "back" /\ caller = "clear_interface_counter" /\ rv = "ok" => Refusals = {}
=============================================================================
