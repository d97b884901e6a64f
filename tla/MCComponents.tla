---------------------------- MODULE MCComponents ----------------------------
(***************************************************************************)
(* The components that share no state with one another, side by side on    *)
(* small instances: the initial state picks one of them, which then runs   *)
(* by itself.  The server connection, the capability negotiation and the   *)
(* chats have runs of their own.                                           *)
(***************************************************************************)
EXTENDS ReceiveBuffer, Sending, AlternateNick, Messages, Window, ConfigReload,
        MircColors, UrlPreview, JoinPanel, UserList, MCCommandLine, ConnectPanel,
        InputLine

CONSTANT TextLength  \* longest text of a message, the CTCP ones apart

VARIABLE part  \* the component that runs

componentVars ==
  <<part, receiveVars, incomingVars, sendingVars, nickVars, messageVars,
    windowVars, inputVars, configVars, mircVars, previewVars, joinVars, rankVars,
    commandVars, panelVars>>

-----------------------------------------------------------------------------
(* Instances.                                                              *)

(* Texts, some with a delimiter of CTCP at one of their ends, and the CTCP *)
(* messages a peer may send; values of tags, which are shorter by one.     *)
PlainTexts == UNION {[1..n -> {"w", " ", ":"}] : n \in 0..TextLength}
MCTexts ==
  PlainTexts \cup {<<SOH>>, <<SOH, "w">>, <<"w", SOH>>, <<SOH, " ", "w">>, <<"w", SOH, ":">>,
     <<SOH, "VERSION", SOH>>, <<SOH, "ACTION", " ", "w", SOH>>, <<SOH, "ACTION", " ", SOH>>,
     <<SOH, "ACTION", " ", " ", "w", SOH>>}
MCTagValues ==
  UNION {[1..n -> {"x", ";", " ", BSL}] : n \in 0..1}
    \cup {<<"x", " ">>, <<BSL, ";">>, <<BSL, BSL>>, <<";", "x">>}

(* Servers with fields from the general section, from one or two sections  *)
(* of their own, or without an address, and a server that needs a secret.  *)
MCSystemFile ==
  [order |-> TRUE, server |-> [nickname |-> "user", chat |-> [log |-> TRUE]], list |-> <<>>]
MCUserFiles ==
  {[order |-> TRUE, server |-> [tls |-> TRUE, chat |-> [notify |-> TRUE]],
    list |-> <<[name |-> "alpha", addresses |-> <<"a">>, auto_join |-> TRUE],
               [name |-> "beta", addresses |-> <<"b">>, chat |-> [log |-> FALSE],
                login |-> [method |-> "sasl-ecdsa", certificate |-> "key"]]>>],
   [order |-> TRUE, server |-> [addresses |-> <<"x">>],
    list |-> <<[name |-> "beta", login |-> [method |-> "nickserv"]],
               [name |-> "alpha", login |-> [method |-> "sasl-external"], chat |-> [notify |-> TRUE]]>>],
   [order |-> FALSE, server |-> <<>>,
    list |-> <<[name |-> "alpha", addresses |-> <<"a2">>, login |-> [method |-> "nickserv"]]>>]}
MCOwnConfig == [NewServerConfig EXCEPT !.addrs = <<"p">>, !.nick = "me"]

MCListing == <<"#a", "#b">>
MCConfigured == [n \in {"A"} |-> [host |-> "hostA", nick |-> "nick1"]]
MCBound == << <<"/", "a">>, <<"/", "a", "b">> >>
MCMembers == << <<"A", "b">> >>

-----------------------------------------------------------------------------
(* The others, while p runs. *)
Others(p) ==
  /\ UNCHANGED part
  /\ IF p = "receive" THEN TRUE ELSE UNCHANGED receiveVars
  /\ IF p = "incoming" THEN TRUE ELSE UNCHANGED incomingVars
  /\ IF p = "sending" THEN TRUE ELSE UNCHANGED sendingVars
  /\ IF p = "nick" THEN TRUE ELSE UNCHANGED nickVars
  /\ IF p = "messages" THEN TRUE ELSE UNCHANGED messageVars
  /\ IF p = "window" THEN TRUE ELSE UNCHANGED windowVars
  /\ IF p = "input" THEN TRUE ELSE UNCHANGED inputVars
  /\ IF p = "config" THEN TRUE ELSE UNCHANGED configVars
  /\ IF p = "mirc" THEN TRUE ELSE UNCHANGED mircVars
  /\ IF p = "preview" THEN TRUE ELSE UNCHANGED previewVars
  /\ IF p = "join" THEN TRUE ELSE UNCHANGED joinVars
  /\ IF p = "users" THEN TRUE ELSE UNCHANGED rankVars
  /\ IF p = "command" THEN TRUE ELSE UNCHANGED commandVars
  /\ IF p = "connect" THEN TRUE ELSE UNCHANGED panelVars

ReceiveStep  == part = "receive" /\ ReceiveNext /\ Others("receive")
IncomingStep == part = "incoming" /\ IncomingNext /\ Others("incoming")
SendingStep  == part = "sending" /\ SendingNext /\ Others("sending")
NickStep     == part = "nick" /\ NickNext /\ Others("nick")
MessagesStep == part = "messages" /\ MessagesNext /\ Others("messages")
WindowStep   == part = "window" /\ WindowNext /\ Others("window")
InputStep    == part = "input" /\ InputNext /\ Others("input")
ConfigStep   == part = "config" /\ ConfigNext /\ Others("config")
MircStep     == part = "mirc" /\ MircNext /\ Others("mirc")
PreviewStep  == part = "preview" /\ PreviewNext /\ Others("preview")
JoinStep     == part = "join" /\ JoinNext /\ Others("join")
UserListStep == part = "users" /\ UserListNext /\ Others("users")
CommandStep  == part = "command" /\ CommandNext /\ Others("command")
PanelStep    == part = "connect" /\ PanelNext /\ Others("connect")

(* Of a part that does not run the initial states do not matter. *)
Idle(p, parameter, value) == part # p => parameter = value

ComponentsInit ==
  /\ part \in {"receive", "incoming", "sending", "nick", "messages",
              "window", "input", "config", "mirc", "preview", "join", "users",
              "command", "connect"}
  /\ ReceiveInit /\ IncomingInit /\ SendingInit /\ NickInit /\ MessagesInit
  /\ WindowInit /\ InputInit /\ ConfigInit /\ MircInit /\ PreviewInit /\ JoinInit
  /\ UserListInit /\ CommandInit /\ PanelInit
  /\ Idle("nick", taken, {}) /\ Idle("config", file, Malformed) /\ Idle("preview", auto, FALSE)
  /\ Idle("join", announces, FALSE) /\ Idle("connect", stored, {})
  /\ Idle("messages", chats, {SrvChat})

ComponentsNext ==
  \/ ReceiveStep \/ IncomingStep \/ SendingStep \/ NickStep \/ MessagesStep
  \/ WindowStep \/ InputStep \/ ConfigStep \/ MircStep \/ PreviewStep \/ JoinStep
  \/ UserListStep \/ CommandStep \/ PanelStep

(* The connection that an alternate nick is sought for lasts: what is on   *)
(* its way arrives and is handled.  Nothing else has to happen.            *)
Spec ==
  /\ ComponentsInit /\ [][ComponentsNext]_componentVars
  /\ WF_componentVars(part = "nick" /\ NickSystem /\ Others("nick"))

-----------------------------------------------------------------------------
(* Every component keeps its types. *)
TypeOK ==
  /\ ReceiveTypeOK /\ IncomingTypeOK /\ SendingTypeOK /\ NickTypeOK
  /\ MessagesTypeOK /\ WindowTypeOK /\ InputTypeOK /\ ConfigTypeOK /\ MircTypeOK
  /\ PreviewTypeOK /\ JoinTypeOK /\ UserListTypeOK /\ CommandTypeOK
  /\ PanelTypeOK

(* As long as the configured nick or one of its alternates is free, a      *)
(* connection that lasts is registered in the end (srn_user_config_get_    *)
(* next_alternate_nick after each ERR_NICKNAMEINUSE).                      *)
ConnectionRegisters == part = "nick" => Registers
=============================================================================
