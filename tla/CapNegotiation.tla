--------------------------- MODULE CapNegotiation ---------------------------
(***************************************************************************)
(* The registration of one connection after another of one SrnServer:     *)
(* IRCv3 capability negotiation (core/server_cap.c, irc_event_cap of       *)
(* core/app_irc_event.c) and SASL authentication (irc_event_authenticate   *)
(* and the SASL numerics).                                                 *)
(*                                                                         *)
(* The requests of the client travel in a queue; the peer takes them in    *)
(* order, and what it sends is handled by the client in the same step,     *)
(* since both directions keep their order and the client only sends in     *)
(* answer to a line.  The peer may also say that it has new capabilities   *)
(* or has them no more at any time.  CAP LIST has no effect and is left    *)
(* out.  A "sasl" without a mechanism Srain knows is an unknown capability. *)
(***************************************************************************)
EXTENDS Naturals, Sequences

CONSTANTS
  Caps,       \* supported_caps
  Unknown,    \* capabilities Srain does not support
  Sasl,       \* the capability "sasl"
  MaxRequests \* bound: requests under way when the peer says CAP NEW

ASSUME SaslAssumption == Sasl \in Caps /\ Caps \cap Unknown = {}
ASSUME MaxRequestsAssumption == MaxRequests \in Nat

VARIABLES
  method,         \* srv->cfg->user->login->method; PLAIN stands for EXTERNAL too
  cert,           \* the certificate file can be loaded
  link,           \* connected
  server_enabled, \* srv->cap->server_enabled
  client_enabled, \* srv->cap->client_enabled
  negotiated,     \* srv->negotiated
  loggedin,       \* srv->loggedin
  requests,       \* commands on their way to the peer
  offered,        \* peer: the capabilities it has
  lines,          \* peer: the lines of its answer to CAP LS still to be sent
  acked,          \* peer: what it has ever acknowledged on this connection
  auth,           \* peer: how far the authentication has come
  ended,          \* peer: CAP END was received, the user is registered
  cut,            \* peer: it refused a request or had nothing to ask for in a line
  stale           \* history: why the cap state may not be that of the connection

config == <<method, cert>>
client == <<server_enabled, client_enabled, negotiated, loggedin>>
peer   == <<offered, lines, acked, auth, ended, cut>>
vars   == <<config, client, requests, peer, link, stale>>

Methods == {"NONE", "SASL_PLAIN", "SASL_ECDSA_NIST256P_CHALLENGE"}
SaslMethod == method # "NONE"

Commands == {"LS", "REQ", "END", "AUTHENTICATE", "RESPONSE"}
Requests == [cmd : Commands, caps : SUBSET Caps]
Command(c) == [cmd |-> c, caps |-> {}]
Req(S)     == [cmd |-> "REQ", caps |-> S]

TypeOK ==
  /\ method \in Methods /\ cert \in BOOLEAN
  /\ link \in BOOLEAN
  /\ server_enabled \subseteq Caps /\ client_enabled \subseteq Caps
  /\ negotiated \in BOOLEAN /\ loggedin \in BOOLEAN
  /\ requests \in Seq(Requests)
  /\ offered \subseteq Caps \cup Unknown
  /\ lines \subseteq SUBSET (Caps \cup Unknown)
  /\ acked \subseteq Caps
  /\ auth \in {"none", "begun", "challenged", "over"}
  /\ ended \in BOOLEAN /\ cut \in BOOLEAN
  /\ stale \subseteq {"carried", "deleted"}

Init ==
  /\ method \in Methods /\ cert \in BOOLEAN
  /\ link = FALSE
  /\ server_enabled = {} /\ client_enabled = {}
  /\ negotiated = FALSE /\ loggedin = FALSE
  /\ requests = <<>>
  /\ offered = {} /\ lines = {} /\ acked = {}
  /\ auth = "none" /\ ended = FALSE /\ cut = FALSE
  /\ stale = {}

-----------------------------------------------------------------------------
(* irc_event_connect and irc_event_disconnect.                             *)

(* Mutant: what the server is asked for is forgotten, what it granted not. *)
ResetRegistration_HalfCaps ==
  /\ loggedin' = FALSE
  /\ negotiated' = FALSE
  /\ server_enabled' = {}
  /\ UNCHANGED client_enabled

(* srv->cap is kept from one connection to the next. *)
ResetRegistration ==
  /\ loggedin' = FALSE
  /\ negotiated' = FALSE
  /\ UNCHANGED <<server_enabled, client_enabled>>

Connect ==
  /\ ~link
  /\ link' = TRUE
  /\ ResetRegistration
  /\ requests' = <<Command("LS")>>
  /\ offered' \in SUBSET (Caps \cup Unknown)
  /\ lines' = {} /\ acked' = {} /\ auth' = "none" /\ ended' = FALSE /\ cut' = FALSE
  /\ stale' = IF server_enabled \cup client_enabled # {} THEN {"carried"} ELSE {}
  /\ UNCHANGED config

Disconnect ==
  /\ link
  /\ link' = FALSE
  /\ ResetRegistration
  /\ requests' = <<>>
  /\ offered' = {} /\ lines' = {} /\ acked' = {}
  /\ auth' = "none" /\ ended' = FALSE /\ cut' = FALSE
  /\ UNCHANGED <<config, stale>>

-----------------------------------------------------------------------------
(* The handlers, with the queue q that the peer has left and the           *)
(* capabilities S of the line.                                             *)

(* The end of irc_event_cap: the requests of the event, then CAP END, left *)
(* to the end of the authentication if sasl is enabled.                    *)
AwaitLogin == SaslMethod /\ Sasl \in client_enabled'

(* Mutant: the negotiation ends without the authentication. *)
Conclude_NoWait(q, cap_end) ==
  /\ negotiated' = (negotiated \/ cap_end)
  /\ requests' = IF cap_end /\ ~negotiated THEN Append(q, Command("END")) ELSE q

Conclude(q, cap_end) ==
  /\ negotiated' = (negotiated \/ (cap_end /\ ~AwaitLogin))
  /\ requests' = IF cap_end /\ ~negotiated /\ ~AwaitLogin
                   THEN Append(q, Command("END")) ELSE q

(* Mutant: every capability of the line is requested. *)
Supported_Any(S) == S

(* srn_server_cap_is_support and srn_server_cap_server_enable *)
Supported(S) == S \cap Caps

EnableAndRequest(q, S, cap_end) ==
  /\ server_enabled' = server_enabled \cup S
  /\ UNCHANGED <<client_enabled, loggedin>>
  /\ Conclude(IF S = {} THEN q ELSE Append(q, Req(S)), cap_end)

(* One line of the answer to CAP LS. *)
irc_event_cap_LS(q, S) == EnableAndRequest(q, Supported(S), Supported(S) = {})

irc_event_cap_NEW(q, S) == EnableAndRequest(q, Supported(S), FALSE)

(* Mutant: sasl_on_enable does not look at what was enabled. *)
sasl_on_enable_Always(q, S) ==
  IF Sasl \in S /\ SaslMethod /\ ~loggedin
    THEN Append(q, Command("AUTHENTICATE")) ELSE q

(* sasl_on_enable, called for "sasl" with client_enabled already updated.  *)
sasl_on_enable(q, S) ==
  IF Sasl \in S /\ SaslMethod /\ Sasl \in client_enabled' /\ ~loggedin
    THEN Append(q, Command("AUTHENTICATE")) ELSE q

srn_server_cap_all_enabled == server_enabled' = client_enabled'

(* All of S is in server_enabled (EnabledWereRequested), so that the last  *)
(* comparison of the loop decides.                                         *)
irc_event_cap_ACK(q, S) ==
  /\ client_enabled' = client_enabled \cup S
  /\ UNCHANGED <<server_enabled, loggedin>>
  /\ Conclude(sasl_on_enable(q, S), srn_server_cap_all_enabled)

irc_event_cap_DEL(q, S) ==
  /\ client_enabled' = client_enabled \ S
  /\ UNCHANGED <<server_enabled, loggedin>>
  /\ Conclude(sasl_on_enable(q, S), FALSE)

irc_event_cap_NAK(q) ==
  /\ UNCHANGED <<server_enabled, client_enabled, loggedin>>
  /\ Conclude(q, TRUE)

(* AUTHENTICATE from the peer: nothing is answered to a challenge when the *)
(* key cannot be loaded.                                                   *)
irc_event_authenticate(q, challenge) ==
  /\ requests' = IF SaslMethod /\ (challenge => cert)
                   THEN Append(q, Command("RESPONSE")) ELSE q
  /\ UNCHANGED client

(* Mutant: CAP END is not sent after the authentication. *)
SaslEnd_NoCapEnd(q, success) ==
  /\ loggedin' = (loggedin \/ success)
  /\ requests' = q
  /\ UNCHANGED <<server_enabled, client_enabled, negotiated>>

(* RPL_LOGGEDIN and RPL_SASLSUCCESS, or ERR_SASLFAIL and its like, perhaps  *)
(* after RPL_SASLMECHS (CAP END is then sent twice, which changes nothing). *)
SaslEnd(q, success) ==
  /\ loggedin' = (loggedin \/ success)
  /\ requests' = Append(q, Command("END"))
  /\ UNCHANGED <<server_enabled, client_enabled, negotiated>>

-----------------------------------------------------------------------------
(* The peer takes the next request.                                        *)

Takes(c) == link /\ lines = {} /\ requests # <<>> /\ Head(requests).cmd = c

(* Its answer to CAP LS 302 may take two lines. *)
TakeLS ==
  /\ Takes("LS")
  /\ \E S \in SUBSET offered :
       /\ \/ S = offered /\ lines' = {}
          \/ lines' = {offered \ S}
       /\ cut' = (Supported(S) = {})
       /\ irc_event_cap_LS(Tail(requests), S)
  /\ UNCHANGED <<config, link, offered, acked, auth, ended, stale>>

SecondLine ==
  /\ \E S \in lines :
       /\ lines' = lines \ {S}
       /\ cut' = (cut \/ Supported(S) = {})
       /\ irc_event_cap_LS(requests, S)
  /\ UNCHANGED <<config, link, offered, acked, auth, ended, stale>>

(* A request is acknowledged or refused as a whole; what is offered is     *)
(* refused only by a peer that takes no more requests of this kind.        *)
TakeReq ==
  /\ Takes("REQ")
  /\ LET S == Head(requests).caps
     IN  \/ /\ S \subseteq offered
            /\ acked' = acked \cup S
            /\ irc_event_cap_ACK(Tail(requests), S)
            /\ UNCHANGED cut
         \/ /\ irc_event_cap_NAK(Tail(requests))
            /\ cut' = TRUE
            /\ UNCHANGED acked
  /\ UNCHANGED <<config, link, offered, lines, auth, ended, stale>>

TakeEnd ==
  /\ Takes("END")
  /\ ended' = TRUE
  /\ requests' = Tail(requests)
  /\ UNCHANGED <<config, client, link, offered, lines, acked, auth, cut, stale>>

(* The mechanism is accepted or not; ERR_SASLALREADY has no effect. *)
TakeAuthenticate ==
  /\ Takes("AUTHENTICATE")
  /\ \/ auth' = "begun" /\ irc_event_authenticate(Tail(requests), FALSE)
     \/ auth' = "over" /\ SaslEnd(Tail(requests), FALSE)
     \/ loggedin /\ UNCHANGED <<auth, client>> /\ requests' = Tail(requests)
  /\ UNCHANGED <<config, link, offered, lines, acked, ended, cut, stale>>

TakeResponse ==
  /\ Takes("RESPONSE")
  /\ \/ /\ auth = "begun" /\ method = "SASL_ECDSA_NIST256P_CHALLENGE"
        /\ auth' = "challenged"
        /\ irc_event_authenticate(Tail(requests), TRUE)
     \/ /\ auth' = "over"
        /\ \E success \in BOOLEAN : SaslEnd(Tail(requests), success)
  /\ UNCHANGED <<config, link, offered, lines, acked, ended, cut, stale>>

(* What the peer says unasked, once it has answered CAP LS.                *)
PeerMaySay == link /\ lines = {} /\ \A i \in DOMAIN requests : requests[i].cmd # "LS"

New ==
  /\ PeerMaySay
  /\ Len(requests) < MaxRequests
  /\ \E c \in (Caps \cup Unknown) \ offered :
       /\ offered' = offered \cup {c}
       /\ irc_event_cap_NEW(requests, {c})
  /\ UNCHANGED <<config, link, lines, acked, auth, ended, cut, stale>>

Del ==
  /\ PeerMaySay
  /\ \E c \in offered :
       /\ offered' = offered \ {c}
       /\ irc_event_cap_DEL(requests, {c})
  /\ stale' = stale \cup {"deleted"}
  /\ UNCHANGED <<config, link, lines, acked, auth, ended, cut>>

(* RPL_LOGGEDOUT *)
LoggedOut ==
  /\ link /\ loggedin
  /\ loggedin' = FALSE
  /\ UNCHANGED <<server_enabled, client_enabled, negotiated>>
  /\ UNCHANGED <<config, requests, link, peer, stale>>

Take == TakeLS \/ SecondLine \/ TakeReq \/ TakeEnd \/ TakeAuthenticate \/ TakeResponse

Next == Connect \/ Disconnect \/ Take \/ New \/ Del \/ LoggedOut

Spec == Init /\ [][Next]_vars

(* The peer answers what it gets. *)
FairSpec == Spec /\ WF_vars(Take)

-----------------------------------------------------------------------------
(* The capabilities in use were all asked for on behalf of the server, so  *)
(* that srn_server_cap_all_enabled compares two comparable sets, whatever  *)
(* connections came before.                                                *)
EnabledWereRequested ==
  /\ client_enabled \subseteq server_enabled
  /\ \A i \in DOMAIN requests : requests[i].caps \subseteq server_enabled

(* Authentication is only begun with a peer that has acknowledged sasl on  *)
(* this connection, whatever an earlier connection has left enabled and    *)
(* whatever the peer deletes meanwhile.                                    *)
MayLogin == SaslMethod /\ Sasl \in acked
AuthenticateOnlyAcked ==
  \A i \in DOMAIN requests : requests[i].cmd = "AUTHENTICATE" => MayLogin

(* The registration is never completed ahead of an authentication that     *)
(* the peer has agreed to: it receives CAP END with sasl acknowledged only *)
(* when the authentication is over - unless it refused a request, sent a   *)
(* line of CAP LS with nothing to ask for, or deleted capabilities.        *)
LoginBeforeEnd ==
  [][~ended /\ ended' /\ MayLogin
       => auth = "over" \/ cut \/ "deleted" \in stale]_vars

(* The negotiation of a connection ends when the recorded capabilities are *)
(* those of this connection: whatever is acknowledged or refused, and      *)
(* however the authentication goes, the peer gets its CAP END.             *)
CanLogin == method = "SASL_ECDSA_NIST256P_CHALLENGE" => cert
FreshNegotiationEnds ==
  link /\ stale = {} /\ CanLogin ~> ended \/ ~link \/ stale # {}

-----------------------------------------------------------------------------
(* What the code says and does not do.                                     *)

(* "SASL authentication is not supported on this server, login skipped",   *)
(* says the code when it ends the negotiation of an account with SASL      *)
(* login: the server does not offer it.                                    *)
SkippedOnlyUnsupported ==
  [][link /\ link' /\ SaslMethod /\ ~negotiated /\ negotiated' => Sasl \notin offered]_vars
=============================================================================
