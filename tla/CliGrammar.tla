----------------------------- MODULE CliGrammar ------------------------------
(***************************************************************************)
(* The productions of parser.y as data.  A command is a name and a sequence*)
(* of ops, the calls its semantic actions make in the order the generated  *)
(* parser makes them:                                                      *)
(*                                                                         *)
(*   "tok"     one terminal or a run of keywords is read                   *)
(*   "eos"     the command's own EOS (a newline or a semicolon) is read    *)
(*   "check"   a test of a value that ends in YYERROR when it fails        *)
(*   "guard"   a test that leaves the action when it fails                 *)
(*   "slot"    slot_mask is assigned                                       *)
(*   "own"     this board's slot or ports are named, and slot_mask is not  *)
(*             assigned                                                    *)
(*   "val" "key"        one call of the convert_* family                   *)
(*   "ud" "range"       one item for the g_ud or g_range section           *)
(*   "flag"             one update of tcpflag                              *)
(*   "hash"             one id stored in hash_outports                     *)
(*   "hashvals"         the loop that writes the stored ids                *)
(*   "close" "send"     close_json and process_msg                         *)
(*   "accept"           YYACCEPT                                           *)
(*                                                                         *)
(* A "check" in front of the command's "eos" fails early, one behind it    *)
(* fails late; the parser recovers from the two in different ways.         *)
(***************************************************************************)
EXTENDS Naturals, Sequences

CONSTANTS
  PortsWidth,   \* MAX_PORTS_WIDTH: 64-bit words in a port mask
  MaxEntries,   \* bound on the class entries of one rule command
  MaxIds        \* bound on the ids of one hash list, and of one deleted range

ASSUME GrammarAssumption ==
  PortsWidth \in Nat \ {0} /\ MaxEntries \in Nat \ {0} /\ MaxIds \in Nat \ {0}

Command(name, ops) == [name |-> name, ops |-> <<"tok">> \o ops]

Times(n, op) == [i \in 1..n |-> op]

\* The usual end of a production: EOS, close_json, process_msg.
Closing == <<"eos", "close", "send">>
\* A production without parameters sends the buffer as it is.
Plain == <<"eos", "send">>

-----------------------------------------------------------------------------
(* Nonterminals: what reading one of them does. *)

OneValue == <<"tok", "val">>                \* a keyword that stands for a number
CheckedValue == <<"tok", "check", "val">>   \* a number with a range test

VlanId == CheckedValue
VlanMask == CheckedValue
InportsId == CheckedValue
OutportsType == OneValue
OutportsId == CheckedValue
RuleId == CheckedValue
IpAddr == CheckedValue
Mask == OneValue
Psc == OneValue
OnOff == OneValue
Able == OneValue
Shutdown == OneValue
Duplex == OneValue
EntryId == OneValue
IfType == OneValue
IfTypeLp == OneValue
\* The empty alternative of verbose writes a zero as well.
Verbose == {<<"val">>, OneValue}
\* QUIET is only read; a command without it takes the empty alternative.
Quiet == <<"tok">>
PwdStr == OneValue
SlotId == <<"tok", "check", "slot", "val">>
\* SLOT n must be the slot the board itself stands in, and is only compared with it.
SlotInfo == {<<>>, <<"tok", "check", "own">>}

\* slots/modules/ports: the platform or the slot is tested, then slot_mask is
\* assigned and the slots, the modules and the words of the port mask written.
Smps == <<"tok", "check", "slot">> \o Times(2 + PortsWidth, "val")
\* A bare port list, or ALL, writes the same values, the fixed EP_SLOT_ID for the
\* slots, and assigns no slot_mask.
Ports == <<"tok", "own">> \o Times(2 + PortsWidth, "val")

\* An id of a hash list is tested as it is read and stored when the attribute
\* it belongs to is complete.  Nothing compares the ends of a range a-b, which
\* stores no id when a > b.
HashOutportsId == <<"tok", "check">>
HashOutportsIdAttr ==
  {HashOutportsId \o <<"hash">>}
    \cup {HashOutportsId \o HashOutportsId \o Times(n, "hash") : n \in 0..MaxIds}
HashOutportsIdList ==
  HashOutportsIdAttr \cup {a \o b : a, b \in HashOutportsIdAttr}

SnmpOp == OneValue
SnmpParam == OneValue
SnmpTriple == <<"tok", "val", "val", "val">>

Olpid == <<"tok", "val", "val">>
OlpProperty ==
  {<<"tok", "val">>, <<"tok", "val", "val">>, <<"tok", "val", "val", "val">>,
   <<"tok", "check", "val", "val", "val", "val">>}
\* Every type of a comma-separated list writes a value when it is reduced.
LinkProtectTypes == {<<"val">>} \cup {<<"tok">> \o Times(n, "val") : n \in 1..MaxIds}

-----------------------------------------------------------------------------
(* Class entries: the fields a rule can match on. *)

CeProtocol == {<<"tok", "key", "val">>, <<"tok", "check", "key", "val">>}
CeEthertype == {<<"tok", "key", "val">>}
CeSip == {<<"tok", "key", "val">>}
CeDip == {<<"tok", "key", "val">>}
CeMac == {<<"tok", "key", "val">>}
CeInnervlan == {<<"tok", "key", "val">>}
CeSport == {<<"tok", "check", "key", "val">>, <<"tok", "check", "range">>}
CeDport == {<<"tok", "check", "key", "val">>, <<"tok", "check", "range">>}
CeTcpflag ==
  {<<"tok", "flag", "key", "val">>, <<"tok", "flag", "tok", "flag", "key", "val">>}
CeUserdata == {<<"tok", "check", "ud">>}
CeRangeOutervlan == {<<"tok", "check", "range">>}
CeRangeL3packetlen == {<<"tok", "check", "range">>}

Ce == UNION {CeProtocol, CeEthertype, CeSip, CeDip, CeMac, CeInnervlan, CeSport,
             CeDport, CeTcpflag, CeUserdata, CeRangeOutervlan, CeRangeL3packetlen}

\* class_entry: one entry or more.
ClassEntry ==
  LET Entries[n \in 1..MaxEntries] ==
        IF n = 1 THEN Ce ELSE {e \o c : e \in Entries[n - 1], c \in Ce}
  IN  UNION {Entries[n] : n \in 1..MaxEntries}

-----------------------------------------------------------------------------
(* The commands, family by family as the grammar groups them. *)

InfoCmds ==
  {Command("SHOW CONFIGURATION", Plain),
   Command("SHOW SYSTEM", Plain),
   Command("SHOW BOARD INFO", <<"tok", "eos", "slot", "val", "close", "send">>),
   Command("SHOW BOARD STATUS", Plain),
   \* The one production that ends without EOS: the request leaves before the
   \* rest of the line is read.
   Command("SET SYSTEM NAME", <<"tok", "check", "val", "close", "send">>),
   Command("SHOW TEST", Plain),
   Command("TEST GET", Plain),
   Command("TEST INIT", Plain)}

IfCmds ==
  {Command("SET INTERFACE AUTONEG", Ports \o OnOff \o Closing),
   Command("SET INTERFACE PAUSE", Smps \o OnOff \o Closing),
   Command("SET INTERFACE SHUTDOWN", Smps \o Shutdown \o Closing),
   Command("SET INTERFACE FORCE UP", Smps \o Able \o Closing),
   Command("SET INTERFACE DUPLEX", Smps \o Duplex \o Closing),
   Command("SET INTERFACE SPEED",
           Smps \o <<"tok", "eos", "guard", "val", "close", "send">>),
   Command("SHOW INTERFACE INFO", Ports \o Closing),
   Command("SHOW INTERFACE STATUS", Ports \o Closing),
   Command("CLEAR INTERFACE COUNTER", Ports \o Closing),
   Command("SET INTERFACE MODE", Smps \o IfTypeLp \o Closing)}
  \cup {Command("SHOW INTERFACE COUNTER", Ports \o v \o Closing) : v \in Verbose}

TrunkCmds ==
  {Command("ADD INPORTS", InportsId \o Smps \o Closing),
   Command("DELETE INPORTS", InportsId \o Smps \o Closing),
   Command("DELETE INPORTS ALL", InportsId \o Closing),
   Command("ADD OUTPORTS",
           OutportsId \o OutportsType \o Smps \o <<"eos", "val", "close", "send">>),
   \* The weight is tested after EOS: this check fails late.
   Command("ADD OUTPORTS WEIGHT",
           OutportsId \o OutportsType \o Smps
             \o <<"tok", "eos", "check", "val", "close", "send">>),
   Command("DELETE OUTPORTS", OutportsId \o Smps \o Closing),
   Command("DELETE OUTPORTS ALL", OutportsId \o Closing),
   Command("SET OUTPORTS LOAD_BALANCE", OutportsId \o Psc \o Closing),
   Command("SET OUTPORTS GLOBAL LOAD_BALANCE", Psc \o Closing),
   Command("SET FAILOVER", Able \o Closing),
   Command("SET FAILOVER INTERVAL", <<"tok", "eos", "val", "close", "send">>),
   Command("SHOW OUTPORTS", OutportsId \o Closing),
   Command("SHOW OUTPORTS ALL", Plain),
   Command("SHOW INPORTS", OutportsId \o Closing),
   Command("SHOW INPORTS ALL", Plain),
   Command("SET INPORTS PVLAN", InportsId \o Able \o Closing),
   Command("SET INPORTS PVLAN ID", InportsId \o VlanId \o Closing),
   Command("SET INPORTS RX_VLANTAG",
           <<"tok", "eos", "val", "val", "close", "send">>),
   Command("SET SLOT INPORTS RX_VLANTAG",
           SlotId \o <<"tok", "eos", "val", "close", "send">>),
   Command("SET OUTPORTS VLAN UNTAG", OutportsId \o Able \o Closing)}

\* DELETE RULE a-b writes, closes and sends once for every id of the range,
\* with no cli_reset_command in between.
DeleteRuleRange ==
  LET Body[n \in 1..MaxIds] ==
        IF n = 1 THEN <<"val", "close", "send">>
        ELSE Body[n - 1] \o <<"val", "close", "send">>
  IN  {Command("DELETE RULE RANGE", <<"tok", "eos", "check">> \o Body[n]) : n \in 1..MaxIds}

\* SET RULE .. FW OUTPORTS: the action pads the missing vlan ids with zeros,
\* writes the number of ids and then the ids.
SetRuleOutports ==
  {Command("SET RULE FW OUTPORTS",
           RuleId \o InportsId \o h \o v
             \o <<"eos">> \o Times(3 - Len(v) \div Len(VlanId), "val")
             \o <<"hashvals", "close", "send">>) :
     h \in HashOutportsIdList, v \in {<<>>, VlanId, VlanId \o VlanId}}

RuleCmds ==
  {Command("SET UD", <<"tok", "eos", "val", "val", "val", "close", "send">>),
   Command("ADD RULE ALL", RuleId \o Closing),
   Command("DELETE RULE ENTRY",
           RuleId \o EntryId \o <<"eos", "val", "close", "send">>),
   Command("DELETE RULE ENTRY RANGE", RuleId \o EntryId \o EntryId \o Closing),
   Command("DELETE RULE", <<"tok", "eos", "val", "close", "send">>),
   Command("SHOW RULE ACTION", RuleId \o <<"eos", "val", "close", "send">>),
   Command("SHOW RULE ENTRY", RuleId \o <<"eos", "val", "val", "close", "send">>),
   Command("SET RULE FW DROP",
           RuleId \o InportsId \o <<"eos", "val", "val", "close", "send">>),
   Command("SET RULE FW DROP OUTERVLAN",
           RuleId \o InportsId \o VlanId \o <<"eos", "val", "close", "send">>),
   Command("SET RULE FW DROP OUTERVLAN RANGE",
           RuleId \o InportsId \o VlanId \o VlanId \o Closing),
   Command("RULE CLEAR", Plain),
   Command("SET INTERFACE VLAN REPLACE",
           Smps \o VlanId \o VlanMask \o VlanId \o <<"eos", "val", "close", "send">>),
   Command("SOC INSTALL", Plain),
   Command("SOC UNINSTALL", Plain)}
  \cup {Command("ADD RULE", RuleId \o c \o Closing) : c \in ClassEntry}
  \cup {Command("DELETE RULE CLASS_ENTRY", RuleId \o c \o Closing) : c \in ClassEntry}
  \cup DeleteRuleRange \cup SetRuleOutports

\* The transfer of a configuration: a string that is empty ends the action.
FtpTransfer == <<"tok", "tok", "eos", "guard">> \o Times(5, "val") \o <<"close", "send">>

SysCmds ==
  {Command("SAVE CONFIGURATION", Plain),
   Command("CLEAR CONFIGURATION", Plain),
   Command("IMPORT CONFIGURATION FTP", FtpTransfer),
   Command("EXPORT CONFIGURATION FTP", FtpTransfer),
   Command("DATETIME", Plain),
   Command("DATETIME SET", SlotId \o <<"tok", "eos", "val", "close", "send">>),
   Command("TIMEZONE", SlotId \o <<"tok", "eos", "val", "close", "send">>),
   Command("RESET BOARD", SlotId \o Closing),
   Command("EXITSHELL", <<"eos">>),
   Command("IPCONFIG", IpAddr \o Mask \o Closing),
   Command("GATEWAY", IpAddr \o Closing),
   Command("PASSWORD", PwdStr \o Closing),
   Command("RESET SYSTEM", Closing),
   Command("RESET SYSTEM QUIET", Quiet \o Closing),
   Command("RESTORE CONFIGURATION DEFAULT", Closing),
   Command("RESTORE CONFIGURATION DEFAULT QUIET", Quiet \o Closing)}

\* Help texts are printed and nothing is sent.
HelpCmds == {Command("HELP", <<"tok", "eos">>)}

SnmpCmds ==
  {Command("SNMP OPERATION", SnmpOp \o Closing),
   Command("SNMP STATUS", Plain),
   Command("SNMP SHOW CONFIGURATION", Plain),
   Command("SNMP SET TYPE OR ACCESS", SnmpTriple \o Closing),
   \* Both values are written before oe_check_snmp_param is asked.
   Command("SNMP SET", SnmpParam \o <<"tok", "eos", "val", "val", "guard", "close", "send">>),
   Command("SNMP TRAP IP", <<"tok", "eos", "val", "val", "val", "close", "send">>),
   Command("SNMP TRAP THRESHOLD",
           <<"tok", "tok", "eos", "guard", "val", "val", "close", "send">>),
   Command("SNMP SHOW TRAP", <<"tok", "tok", "eos", "val", "val", "close", "send">>)}

OlpCommand(name, ops) == {Command(name, s \o ops) : s \in SlotInfo}

OlpCmds ==
  UNION {OlpCommand("LINK_PROTECT CREATE", Olpid \o p \o Closing) : p \in OlpProperty}
  \cup OlpCommand("LINK_PROTECT DESTROY", Olpid \o Closing)
  \cup OlpCommand("LINK_PROTECT INTERFACE", Olpid \o Smps \o Closing)
  \cup OlpCommand("LINK_PROTECT TYPE", Olpid \o IfType \o Closing)
  \cup OlpCommand("LINK_PROTECT TYPE SMPS", Olpid \o Smps \o IfType \o Closing)
  \cup UNION {OlpCommand("LINK_PROTECT MONITOR", Olpid \o t \o OnOff \o Closing) :
                t \in LinkProtectTypes}
  \cup UNION {OlpCommand("LINK_PROTECT MONITOR ALL", t \o OnOff \o Closing) :
                t \in LinkProtectTypes}
  \cup OlpCommand("LINK_PROTECT STATUS", Olpid \o Closing)
  \cup OlpCommand("LINK_PROTECT LIMIT", <<"tok", "eos", "val", "close", "send">>)
  \cup OlpCommand("LINK_PROTECT CONCATENATE",
                  Olpid \o <<"tok", "eos", "val", "close", "send">>)
  \cup {Command("LINK_PROTECT SHOW CONFIGURATION", Plain)}

\* A line without a command, and the end of the session.
EmptyCommand == [name |-> "EMPTY", ops |-> <<"eos">>]
ExitCommand == Command("EXIT", <<"eos", "accept">>)

AllCommands ==
  UNION {InfoCmds, IfCmds, TrunkCmds, RuleCmds, SysCmds, HelpCmds, SnmpCmds, OlpCmds,
         {EmptyCommand, ExitCommand}}
=============================================================================
