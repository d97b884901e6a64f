------------------------ MODULE CapNegotiationProofs ------------------------
(***************************************************************************)
(* The bookkeeping of the capability negotiation for any set of            *)
(* capabilities, any number of connections and any length of the queue,    *)
(* and that the registration is not completed ahead of the authentication: *)
(* sasl is in one place (in an unread line of CAP LS, in one request, or   *)
(* acknowledged), and while the login is due no CAP END travels behind it  *)
(* (LoginInv).                                                             *)
(***************************************************************************)
EXTENDS CapNegotiation, TLAPS

(* A queue of requests that ask for nothing beyond S, and for the          *)
(* authentication only if A.                                               *)
Asks(q, S, A) ==
  /\ q \in Seq(Requests)
  /\ \A i \in DOMAIN q : q[i].caps \subseteq S
  /\ \A i \in DOMAIN q : q[i].cmd = "AUTHENTICATE" => A

CapsOK ==
  /\ server_enabled \subseteq Caps
  /\ client_enabled \subseteq server_enabled
  /\ Asks(requests, server_enabled, MayLogin)

RestOK ==
  /\ method \in Methods /\ cert \in BOOLEAN
  /\ link \in BOOLEAN
  /\ negotiated \in BOOLEAN /\ loggedin \in BOOLEAN
  /\ offered \subseteq Caps \cup Unknown
  /\ lines \subseteq SUBSET (Caps \cup Unknown)
  /\ acked \subseteq Caps
  /\ auth \in {"none", "begun", "challenged", "over"}
  /\ ended \in BOOLEAN /\ cut \in BOOLEAN
  /\ stale \subseteq {"carried", "deleted"}

IInv == CapsOK /\ RestOK

(* What a handler of the client achieves. *)
Handled(A) ==
  /\ server_enabled' \subseteq Caps
  /\ client_enabled' \subseteq server_enabled'
  /\ Asks(requests', server_enabled', A)
  /\ negotiated' \in BOOLEAN /\ loggedin' \in BOOLEAN

(* The inductive invariant is the conjunction of the invariants that the   *)
(* run checks.                                                             *)
LEMMA IInvIs == IInv <=> TypeOK /\ EnabledWereRequested /\ AuthenticateOnlyAcked
BY DEF IInv, CapsOK, RestOK, Asks, TypeOK, EnabledWereRequested, AuthenticateOnlyAcked

-----------------------------------------------------------------------------
(* Queues.                                                                 *)

(* Appending a request for some of S, or one that A allows. *)
LEMMA AsksAppend ==
  ASSUME NEW q, NEW S, NEW A, NEW r \in Requests,
         Asks(q, S, A), r.caps \subseteq S, r.cmd = "AUTHENTICATE" => A
  PROVE  Asks(Append(q, r), S, A)
<1>1. q \in Seq(Requests)
  BY DEF Asks
<1>2. Append(q, r) \in Seq(Requests)
  BY <1>1
<1>3. \A i \in DOMAIN Append(q, r) :
        Append(q, r)[i] = r \/ (i \in DOMAIN q /\ Append(q, r)[i] = q[i])
  BY <1>1
<1> QED BY <1>2, <1>3 DEF Asks

(* Taking the head. *)
LEMMA AsksTail ==
  ASSUME NEW q, NEW S, NEW A, Asks(q, S, A), q # <<>>
  PROVE  Asks(Tail(q), S, A) /\ Head(q).caps \subseteq S
<1>1. q \in Seq(Requests) /\ Head(q) = q[1] /\ 1 \in DOMAIN q
  BY DEF Asks
<1>2. Tail(q) \in Seq(Requests)
  BY <1>1
<1>3. \A i \in DOMAIN Tail(q) : i + 1 \in DOMAIN q /\ Tail(q)[i] = q[i + 1]
  BY <1>1
<1> QED BY <1>1, <1>2, <1>3 DEF Asks

(* Allowing more. *)
LEMMA AsksMore ==
  ASSUME NEW q, NEW S, NEW T, NEW A, NEW B, Asks(q, S, A), S \subseteq T, A => B
  PROVE  Asks(q, T, B)
BY DEF Asks

(* The empty queue. *)
LEMMA AsksEmpty ==
  ASSUME NEW S, NEW A
  PROVE  Asks(<<>>, S, A)
BY DEF Asks

(* A command without capabilities asks for none. *)
LEMMA CommandAsksNothing ==
  ASSUME NEW c \in Commands
  PROVE  Command(c) \in Requests /\ Command(c).caps = {} /\ Command(c).cmd = c
BY DEF Command, Requests

-----------------------------------------------------------------------------
(* The handlers, on a queue that asks for nothing beyond server_enabled.   *)

(* The end of irc_event_cap. *)
LEMMA ConcludeAsks ==
  ASSUME NEW q, NEW S, NEW A, NEW cap_end \in BOOLEAN, Asks(q, S, A),
         negotiated \in BOOLEAN, Conclude(q, cap_end)
  PROVE  Asks(requests', S, A) /\ negotiated' \in BOOLEAN
<1>1. Asks(Append(q, Command("END")), S, A)
  BY CommandAsksNothing, AsksAppend DEF Commands
<1> QED BY <1>1 DEF Conclude

(* CAP LS and CAP NEW: what is requested is recorded first. *)
LEMMA EnableHandled ==
  ASSUME IInv, NEW A, NEW q, Asks(q, server_enabled, A),
         NEW S, S \subseteq Caps, NEW cap_end \in BOOLEAN,
         EnableAndRequest(q, S, cap_end)
  PROVE  Handled(A)
<1>1. Asks(q, server_enabled', A)
  BY AsksMore DEF EnableAndRequest
<1>2. Req(S) \in Requests /\ Req(S).caps = S /\ Req(S).cmd = "REQ"
  BY DEF Req, Requests, Commands
<1>3. Asks(Append(q, Req(S)), server_enabled', A)
  BY <1>1, <1>2, AsksAppend DEF EnableAndRequest
<1>4. Asks(IF S = {} THEN q ELSE Append(q, Req(S)), server_enabled', A)
  BY <1>1, <1>3
<1>5. Asks(requests', server_enabled', A) /\ negotiated' \in BOOLEAN
  BY <1>4, ConcludeAsks DEF EnableAndRequest, IInv, RestOK
<1> QED BY <1>5 DEF EnableAndRequest, IInv, CapsOK, RestOK, Handled

(* The authentication that comes with sasl among the enabled T. *)
LEMMA OnEnableAsks ==
  ASSUME NEW q, NEW S, NEW T, NEW A, Asks(q, S, A),
         Sasl \in T /\ Sasl \in client_enabled' /\ SaslMethod => A
  PROVE  Asks(sasl_on_enable(q, T), S, A)
<1>1. CASE A
  <2>1. Asks(Append(q, Command("AUTHENTICATE")), S, A)
    BY <1>1, CommandAsksNothing, AsksAppend DEF Commands
  <2> QED BY <2>1 DEF sasl_on_enable
<1>2. CASE ~A
  BY <1>2 DEF sasl_on_enable
<1> QED BY <1>1, <1>2

(* CAP ACK of capabilities that were requested, sasl only if A. *)
LEMMA AckHandled ==
  ASSUME IInv, NEW A, NEW q, Asks(q, server_enabled, A),
         NEW S, S \subseteq server_enabled, Sasl \in S /\ SaslMethod => A,
         irc_event_cap_ACK(q, S)
  PROVE  Handled(A)
<1>1. Asks(sasl_on_enable(q, S), server_enabled, A)
  BY OnEnableAsks
<1>2. srn_server_cap_all_enabled \in BOOLEAN
  BY DEF srn_server_cap_all_enabled
<1>3. Asks(requests', server_enabled, A) /\ negotiated' \in BOOLEAN
  BY <1>1, <1>2, ConcludeAsks DEF irc_event_cap_ACK, IInv, RestOK
<1> QED BY <1>3 DEF irc_event_cap_ACK, IInv, CapsOK, RestOK, Handled

(* CAP DEL never begins the authentication. *)
LEMMA DelHandled ==
  ASSUME IInv, NEW A, NEW q, Asks(q, server_enabled, A), NEW S,
         irc_event_cap_DEL(q, S)
  PROVE  Handled(A)
<1>1. ~(Sasl \in S /\ Sasl \in client_enabled')
  BY DEF irc_event_cap_DEL
<1>2. Asks(sasl_on_enable(q, S), server_enabled, A)
  BY <1>1, OnEnableAsks
<1>3. Asks(requests', server_enabled, A) /\ negotiated' \in BOOLEAN
  BY <1>2, ConcludeAsks DEF irc_event_cap_DEL, IInv, RestOK
<1> QED BY <1>3 DEF irc_event_cap_DEL, IInv, CapsOK, RestOK, Handled

(* CAP NAK. *)
LEMMA NakHandled ==
  ASSUME IInv, NEW A, NEW q, Asks(q, server_enabled, A), irc_event_cap_NAK(q)
  PROVE  Handled(A)
<1>1. Asks(requests', server_enabled, A) /\ negotiated' \in BOOLEAN
  BY ConcludeAsks DEF irc_event_cap_NAK, IInv, RestOK
<1> QED BY <1>1 DEF irc_event_cap_NAK, IInv, CapsOK, RestOK, Handled

(* AUTHENTICATE from the peer. *)
LEMMA AuthenticateHandled ==
  ASSUME IInv, NEW A, NEW q, Asks(q, server_enabled, A), NEW challenge,
         irc_event_authenticate(q, challenge)
  PROVE  Handled(A)
<1>1. Asks(Append(q, Command("RESPONSE")), server_enabled, A)
  BY CommandAsksNothing, AsksAppend DEF Commands
<1>2. Asks(requests', server_enabled, A)
  BY <1>1 DEF irc_event_authenticate
<1> QED BY <1>2 DEF irc_event_authenticate, client, IInv, CapsOK, RestOK, Handled

(* The numerics that end the authentication. *)
LEMMA SaslEndHandled ==
  ASSUME IInv, NEW A, NEW q, Asks(q, server_enabled, A), NEW success \in BOOLEAN,
         SaslEnd(q, success)
  PROVE  Handled(A)
<1>1. Asks(Append(q, Command("END")), server_enabled, A)
  BY CommandAsksNothing, AsksAppend DEF Commands
<1>2. Asks(requests', server_enabled, A)
  BY <1>1 DEF SaslEnd
<1> QED BY <1>2 DEF SaslEnd, IInv, CapsOK, RestOK, Handled

-----------------------------------------------------------------------------
(* The steps.                                                              *)

(* A step in which the client only takes a request from the queue. *)
LEMMA UnchangedHandled ==
  ASSUME IInv, NEW A, NEW q, Asks(q, server_enabled, A), UNCHANGED client, requests' = q
  PROVE  Handled(A)
BY DEF client, IInv, CapsOK, RestOK, Handled

(* The requests left behind by the peer, as it may acknowledge more. *)
LEMMA TakesAsks ==
  ASSUME IInv, NEW c, Takes(c), MayLogin => MayLogin'
  PROVE  /\ Asks(Tail(requests), server_enabled, MayLogin')
         /\ Head(requests).caps \subseteq server_enabled
<1>1. /\ Asks(Tail(requests), server_enabled, MayLogin)
      /\ Head(requests).caps \subseteq server_enabled
  BY AsksTail DEF Takes, IInv, CapsOK
<1> QED BY <1>1, AsksMore

(* A handled step keeps the first half of the invariant. *)
LEMMA HandledCapsOK ==
  ASSUME Handled(MayLogin')
  PROVE  CapsOK'
BY DEF Handled, CapsOK

(* A connection starts with the request for the list. *)
LEMMA ConnectStep == ASSUME IInv, Connect PROVE IInv'
<1>1. Asks(Append(<<>>, Command("LS")), server_enabled, MayLogin')
  BY AsksEmpty, CommandAsksNothing, AsksAppend DEF Commands
<1>2. Append(<<>>, Command("LS")) = <<Command("LS")>>
  OBVIOUS
<1>3. CapsOK'
  BY <1>1, <1>2 DEF Connect, ResetRegistration, IInv, CapsOK
<1>4. RestOK'
  BY DEF Connect, ResetRegistration, config, IInv, RestOK
<1> QED BY <1>3, <1>4 DEF IInv

(* The end of a connection. *)
LEMMA DisconnectStep == ASSUME IInv, Disconnect PROVE IInv'
<1>1. Asks(<<>>, server_enabled, MayLogin')
  BY AsksEmpty
<1>2. CapsOK'
  BY <1>1 DEF Disconnect, ResetRegistration, IInv, CapsOK
<1>3. RestOK'
  BY DEF Disconnect, ResetRegistration, config, IInv, RestOK
<1> QED BY <1>2, <1>3 DEF IInv

(* The first line of the answer to CAP LS. *)
LEMMA TakeLSStep == ASSUME IInv, TakeLS PROVE IInv'
<1>1. PICK S \in SUBSET offered :
        /\ lines' = {} \/ lines' = {offered \ S}
        /\ cut' = (Supported(S) = {})
        /\ irc_event_cap_LS(Tail(requests), S)
  BY DEF TakeLS
<1>2. Asks(Tail(requests), server_enabled, MayLogin')
  BY TakesAsks DEF TakeLS, MayLogin, SaslMethod, config
<1>3. Handled(MayLogin')
  BY <1>1, <1>2, EnableHandled DEF irc_event_cap_LS, Supported
<1>4. RestOK'
  BY <1>1, <1>3 DEF TakeLS, config, IInv, RestOK, Handled
<1> QED BY <1>3, <1>4, HandledCapsOK DEF IInv

(* Its second line. *)
LEMMA SecondLineStep == ASSUME IInv, SecondLine PROVE IInv'
<1>1. PICK S \in lines :
        /\ lines' = lines \ {S}
        /\ cut' = (cut \/ Supported(S) = {})
        /\ irc_event_cap_LS(requests, S)
  BY DEF SecondLine
<1>2. Asks(requests, server_enabled, MayLogin')
  BY DEF SecondLine, MayLogin, SaslMethod, config, IInv, CapsOK
<1>3. Handled(MayLogin')
  BY <1>1, <1>2, EnableHandled DEF irc_event_cap_LS, Supported
<1>4. RestOK'
  BY <1>1, <1>3 DEF SecondLine, config, IInv, RestOK, Handled
<1> QED BY <1>3, <1>4, HandledCapsOK DEF IInv

(* The acknowledgement or the refusal of a request. *)
LEMMA TakeReqStep == ASSUME IInv, TakeReq PROVE IInv'
<1> DEFINE S == Head(requests).caps
<1>1. /\ Asks(Tail(requests), server_enabled, MayLogin')
      /\ S \subseteq server_enabled /\ S \subseteq Caps
  BY TakesAsks DEF TakeReq, MayLogin, SaslMethod, config, IInv, CapsOK
<1>2. Handled(MayLogin') /\ acked' \subseteq acked \cup S /\ cut' \in {cut, TRUE}
  <2>1. CASE /\ acked' = acked \cup S /\ UNCHANGED cut
             /\ irc_event_cap_ACK(Tail(requests), S)
    <3>1. Sasl \in S /\ SaslMethod => MayLogin'
      BY <2>1 DEF TakeReq, MayLogin, SaslMethod, config
    <3> HIDE DEF S
    <3> QED BY <1>1, <2>1, <3>1, AckHandled
  <2>2. CASE UNCHANGED acked /\ cut' = TRUE /\ irc_event_cap_NAK(Tail(requests))
    BY <1>1, <2>2, NakHandled
  <2> QED BY <2>1, <2>2 DEF TakeReq
<1>3. RestOK'
  BY <1>1, <1>2 DEF TakeReq, config, IInv, RestOK, Handled
<1> QED BY <1>2, <1>3, HandledCapsOK DEF IInv

(* CAP END, and the two commands of the authentication. *)
LEMMA TakeOtherStep ==
  ASSUME IInv, TakeEnd \/ TakeAuthenticate \/ TakeResponse
  PROVE  IInv'
<1>1. UNCHANGED <<config, acked>> /\ (MayLogin <=> MayLogin')
  BY DEF TakeEnd, TakeAuthenticate, TakeResponse, MayLogin, SaslMethod, config
<1>2. Asks(Tail(requests), server_enabled, MayLogin')
  BY <1>1, TakesAsks DEF TakeEnd, TakeAuthenticate, TakeResponse
<1>3. Handled(MayLogin')
  <2>1. CASE UNCHANGED client /\ requests' = Tail(requests)
    BY <1>2, <2>1, UnchangedHandled
  <2>2. CASE \E challenge \in BOOLEAN : irc_event_authenticate(Tail(requests), challenge)
    BY <1>2, <2>2, AuthenticateHandled
  <2>3. CASE \E success \in BOOLEAN : SaslEnd(Tail(requests), success)
    BY <1>2, <2>3, SaslEndHandled
  <2> QED BY <2>1, <2>2, <2>3 DEF TakeEnd, TakeAuthenticate, TakeResponse
<1>4. RestOK'
  BY <1>1, <1>3
     DEF TakeEnd, TakeAuthenticate, TakeResponse, config, IInv, RestOK, Handled
<1> QED BY <1>3, <1>4, HandledCapsOK DEF IInv

(* What the peer says unasked. *)
LEMMA UnaskedStep == ASSUME IInv, New \/ Del \/ LoggedOut PROVE IInv'
<1>1. Asks(requests, server_enabled, MayLogin')
  BY DEF New, Del, LoggedOut, peer, MayLogin, SaslMethod, config, IInv, CapsOK
<1>2. Handled(MayLogin')
  <2>1. CASE New
    BY <1>1, <2>1, EnableHandled DEF New, irc_event_cap_NEW, Supported
  <2>2. CASE Del
    BY <1>1, <2>2, DelHandled DEF Del
  <2>3. CASE LoggedOut
    BY <1>1, <2>3 DEF LoggedOut, IInv, CapsOK, RestOK, Handled
  <2> QED BY <2>1, <2>2, <2>3
<1>3. RestOK'
  BY <1>2 DEF New, Del, LoggedOut, config, peer, IInv, RestOK, Handled
<1> QED BY <1>2, <1>3, HandledCapsOK DEF IInv

(* The invariant is inductive. *)
THEOREM CapInvariance == Spec => []IInv
<1>1. Init => IInv
  <2>1. Init => CapsOK
    BY AsksEmpty DEF Init, CapsOK
  <2>2. Init => RestOK
    BY DEF Init, RestOK
  <2> QED BY <2>1, <2>2 DEF IInv
<1>2. IInv /\ [Next]_vars => IInv'
  <2>1. ASSUME IInv, UNCHANGED vars PROVE IInv'
    BY <2>1 DEF vars, config, client, peer, IInv, CapsOK, RestOK, Asks, MayLogin, SaslMethod
  <2> QED BY <2>1, ConnectStep, DisconnectStep, TakeLSStep, SecondLineStep,
             TakeReqStep, TakeOtherStep, UnaskedStep DEF Next, Take
<1> QED BY <1>1, <1>2, PTL DEF Spec

(* Type correctness: in particular, capabilities Srain does not know never *)
(* get into what it records and requests.                                  *)
THEOREM CapTypeCorrect == Spec => []TypeOK
BY CapInvariance, IInvIs, PTL

(* No capability is in use, and none is under request, that was not        *)
(* recorded as available first: the comparison that ends the negotiation   *)
(* compares a subset with its superset on every connection.                *)
THEOREM OnlyRequestedEnabled == Spec => []EnabledWereRequested
BY CapInvariance, IInvIs, PTL

(* The authentication is only begun with a SASL login method and a peer    *)
(* that has acknowledged sasl on the same connection.                      *)
THEOREM LoginOnlyAcked == Spec => []AuthenticateOnlyAcked
BY CapInvariance, IInvIs, PTL

-----------------------------------------------------------------------------
(* The login before CAP END: what the queue holds of it.                   *)

Without(q, c) == \A i \in DOMAIN q : q[i].cmd # c
SaslFree(q) == \A i \in DOMAIN q : Sasl \notin q[i].caps
OneSasl(q) == \A i, j \in DOMAIN q : Sasl \in q[i].caps /\ Sasl \in q[j].caps => i = j
OneAuthenticate(q) ==
  \A i, j \in DOMAIN q : q[i].cmd = "AUTHENTICATE" /\ q[j].cmd = "AUTHENTICATE" => i = j

(* No CAP END is behind a request for sasl. *)
EndsFirst(q) ==
  \A i, j \in DOMAIN q : q[i].cmd = "END" /\ j < i => Sasl \notin q[j].caps

(* As long as nothing was deleted (fresh), sasl is asked for once, and the *)
(* authentication begun once; as long as the login is still to come (due), *)
(* no CAP END is on its way behind the acknowledgement of sasl.            *)
Sound(q, ack, au, off, fresh, due) ==
  /\ q \in Seq(Requests)
  /\ Without(q, "LS")
  /\ fresh => /\ OneSasl(q) /\ OneAuthenticate(q)
              /\ SaslFree(q) \/ (Sasl \in off /\ Sasl \notin ack)
              /\ Without(q, "AUTHENTICATE") \/ au = "none"
              /\ Without(q, "RESPONSE") \/ au # "none"
  /\ due => Without(q, "END") \/ (Sasl \notin ack /\ EndsFirst(q))

LEMMA Appended ==
  ASSUME NEW q \in Seq(Requests), NEW r \in Requests
  PROVE  /\ Append(q, r) \in Seq(Requests)
         /\ \A i \in DOMAIN Append(q, r) :
              \/ i = Len(q) + 1 /\ Append(q, r)[i] = r
              \/ i \in DOMAIN q /\ i <= Len(q) /\ Append(q, r)[i] = q[i]
         /\ DOMAIN q \subseteq Nat /\ Len(q) \in Nat
OBVIOUS

LEMMA AppendedQueue ==
  ASSUME NEW q \in Seq(Requests), NEW r \in Requests
  PROVE  /\ \A c : Without(q, c) /\ r.cmd # c => Without(Append(q, r), c)
         /\ SaslFree(q) /\ Sasl \notin r.caps => SaslFree(Append(q, r))
         /\ OneSasl(q) /\ (SaslFree(q) \/ Sasl \notin r.caps) => OneSasl(Append(q, r))
         /\ OneAuthenticate(q) /\ (Without(q, "AUTHENTICATE") \/ r.cmd # "AUTHENTICATE")
              => OneAuthenticate(Append(q, r))
         /\ EndsFirst(q) /\ (SaslFree(q) \/ r.cmd # "END") => EndsFirst(Append(q, r))
<1> DEFINE k == Append(q, r)
<1>1. /\ \A i \in DOMAIN k : \/ i = Len(q) + 1 /\ k[i] = r
                             \/ i \in DOMAIN q /\ i <= Len(q) /\ k[i] = q[i]
      /\ DOMAIN q \subseteq Nat /\ Len(q) \in Nat
  BY Appended
<1> HIDE DEF k
<1>2. \A c : Without(q, c) /\ r.cmd # c => Without(k, c)
  BY <1>1 DEF Without
<1>3. SaslFree(q) /\ Sasl \notin r.caps => SaslFree(k)
  BY <1>1 DEF SaslFree
<1>4. OneSasl(q) /\ (SaslFree(q) \/ Sasl \notin r.caps) => OneSasl(k)
  BY <1>1 DEF OneSasl, SaslFree
<1>5. OneAuthenticate(q) /\ (Without(q, "AUTHENTICATE") \/ r.cmd # "AUTHENTICATE")
        => OneAuthenticate(k)
  BY <1>1 DEF OneAuthenticate, Without
<1>6. EndsFirst(q) /\ (SaslFree(q) \/ r.cmd # "END") => EndsFirst(k)
  BY <1>1 DEF EndsFirst, SaslFree
<1> QED BY <1>2, <1>3, <1>4, <1>5, <1>6 DEF k

(* A queue without CAP END or sasl sends no CAP END too early. *)
LEMMA FreeEndsFirst == \A q : SaslFree(q) \/ Without(q, "END") => EndsFirst(q)
BY DEF SaslFree, Without, EndsFirst

LEMMA SoundAppend ==
  ASSUME NEW q, NEW ack, NEW au, NEW off, NEW fresh, NEW due, NEW r \in Requests,
         Sound(q, ack, au, off, fresh, due), r.cmd # "LS",
         fresh /\ Sasl \in r.caps => SaslFree(q) /\ Sasl \in off /\ Sasl \notin ack,
         fresh /\ r.cmd = "AUTHENTICATE" => Without(q, "AUTHENTICATE") /\ au = "none",
         fresh /\ r.cmd = "RESPONSE" => au # "none",
         due /\ r.cmd = "END" => Sasl \notin ack /\ SaslFree(q)
  PROVE  Sound(Append(q, r), ack, au, off, fresh, due)
<1>1. q \in Seq(Requests)
  BY DEF Sound
<1>2. Append(q, r) \in Seq(Requests) /\ Without(Append(q, r), "LS")
  BY <1>1, AppendedQueue DEF Sound
<1>3. ASSUME fresh
      PROVE  /\ OneSasl(Append(q, r)) /\ OneAuthenticate(Append(q, r))
             /\ SaslFree(Append(q, r)) \/ (Sasl \in off /\ Sasl \notin ack)
             /\ Without(Append(q, r), "AUTHENTICATE") \/ au = "none"
             /\ Without(Append(q, r), "RESPONSE") \/ au # "none"
  BY <1>1, <1>3, AppendedQueue DEF Sound
<1>4. ASSUME due
      PROVE  Without(Append(q, r), "END") \/ (Sasl \notin ack /\ EndsFirst(Append(q, r)))
  <2>1. CASE r.cmd # "END"
    BY <1>1, <1>4, <2>1, AppendedQueue DEF Sound
  <2>2. CASE r.cmd = "END"
    BY <1>1, <1>4, <2>2, AppendedQueue, FreeEndsFirst DEF Sound
  <2> QED BY <2>1, <2>2
<1> QED BY <1>2, <1>3, <1>4 DEF Sound

LEMMA SoundEmpty ==
  ASSUME NEW ack, NEW au, NEW off, NEW fresh, NEW due
  PROVE  Sound(<<>>, ack, au, off, fresh, due) /\ SaslFree(<<>>)
BY DEF Sound, Without, OneSasl, OneAuthenticate, SaslFree

(* What is left when the peer has taken a request. *)
LEMMA SoundTail ==
  ASSUME NEW q, NEW ack, NEW au, NEW off, NEW fresh, NEW due,
         Sound(q, ack, au, off, fresh, due), q # <<>>
  PROVE  /\ Sound(Tail(q), ack, au, off, fresh, due)
         /\ fresh /\ Sasl \in Head(q).caps => SaslFree(Tail(q)) /\ Sasl \notin ack
         /\ due /\ Sasl \in Head(q).caps => Without(Tail(q), "END")
         /\ fresh /\ Head(q).cmd = "AUTHENTICATE" => Without(Tail(q), "AUTHENTICATE") /\ au = "none"
         /\ fresh /\ Head(q).cmd = "RESPONSE" => au # "none"
         /\ due /\ Head(q).cmd = "END" => Sasl \notin ack
         /\ \A c : Without(q, c) => Without(Tail(q), c)
<1> DEFINE t == Tail(q)
<1>1. q \in Seq(Requests) /\ Head(q) = q[1] /\ 1 \in DOMAIN q /\ t \in Seq(Requests)
  BY DEF Sound
<1>2. \A i \in DOMAIN t : i \in Nat \ {0} /\ i + 1 \in DOMAIN q /\ t[i] = q[i + 1]
  BY <1>1
<1> HIDE DEF t
<1>3. \A c : Without(q, c) => Without(t, c)
  BY <1>2 DEF Without
<1>4. SaslFree(q) => SaslFree(t) /\ Sasl \notin Head(q).caps
  BY <1>1, <1>2 DEF SaslFree
<1>5. OneSasl(q) => OneSasl(t) /\ (Sasl \in Head(q).caps => SaslFree(t))
  <2>1. ASSUME OneSasl(q), NEW i \in DOMAIN t, NEW j \in DOMAIN t,
               Sasl \in t[i].caps, Sasl \in t[j].caps
        PROVE  i = j
    <3>1. i + 1 = j + 1
      BY <1>2, <2>1 DEF OneSasl
    <3> QED BY <1>2, <3>1
  <2>2. ASSUME OneSasl(q), Sasl \in Head(q).caps, NEW i \in DOMAIN t, Sasl \in t[i].caps
        PROVE  FALSE
    <3>1. i + 1 = 1
      BY <1>1, <1>2, <2>2 DEF OneSasl
    <3> QED BY <1>2, <3>1
  <2> QED BY <2>1, <2>2 DEF OneSasl, SaslFree
<1>6. OneAuthenticate(q) => OneAuthenticate(t) /\ (Head(q).cmd = "AUTHENTICATE" => Without(t, "AUTHENTICATE"))
  <2>1. ASSUME OneAuthenticate(q), NEW i \in DOMAIN t, NEW j \in DOMAIN t,
               t[i].cmd = "AUTHENTICATE", t[j].cmd = "AUTHENTICATE"
        PROVE  i = j
    <3>1. i + 1 = j + 1
      BY <1>2, <2>1 DEF OneAuthenticate
    <3> QED BY <1>2, <3>1
  <2>2. ASSUME OneAuthenticate(q), Head(q).cmd = "AUTHENTICATE", NEW i \in DOMAIN t,
               t[i].cmd = "AUTHENTICATE"
        PROVE  FALSE
    <3>1. i + 1 = 1
      BY <1>1, <1>2, <2>2 DEF OneAuthenticate
    <3> QED BY <1>2, <3>1
  <2> QED BY <2>1, <2>2 DEF OneAuthenticate, Without
<1>7. EndsFirst(q) => EndsFirst(t) /\ (Sasl \in Head(q).caps => Without(t, "END"))
  <2>1. ASSUME EndsFirst(q), NEW i \in DOMAIN t, NEW j \in DOMAIN t, t[i].cmd = "END", j < i
        PROVE  Sasl \notin t[j].caps
    <3>1. j + 1 < i + 1
      BY <1>2, <2>1
    <3> QED BY <1>2, <2>1, <3>1 DEF EndsFirst
  <2>2. ASSUME EndsFirst(q), NEW i \in DOMAIN t, t[i].cmd = "END"
        PROVE  Sasl \notin Head(q).caps
    <3>1. 1 < i + 1
      BY <1>2, <2>2
    <3> QED BY <1>1, <1>2, <2>2, <3>1 DEF EndsFirst
  <2> QED BY <2>1, <2>2 DEF EndsFirst, Without
<1>8. \A c : Without(q, c) => Head(q).cmd # c
  BY <1>1 DEF Without
<1>9. Sound(t, ack, au, off, fresh, due)
  BY <1>1, <1>3, <1>4, <1>5, <1>6, <1>7 DEF Sound
<1>10. /\ fresh /\ Sasl \in Head(q).caps => SaslFree(t) /\ Sasl \notin ack
       /\ fresh /\ Head(q).cmd = "AUTHENTICATE" => Without(t, "AUTHENTICATE") /\ au = "none"
       /\ fresh /\ Head(q).cmd = "RESPONSE" => au # "none"
  BY <1>4, <1>5, <1>6, <1>8 DEF Sound
<1>11. /\ due /\ Sasl \in Head(q).caps => Without(t, "END")
       /\ due /\ Head(q).cmd = "END" => Sasl \notin ack
  BY <1>3, <1>7, <1>8 DEF Sound
<1> QED BY <1>3, <1>9, <1>10, <1>11 DEF t

-----------------------------------------------------------------------------
(* The login before CAP END: the handlers and the steps.                   *)

Fresh == "deleted" \notin stale
LoginDue == SaslMethod /\ ~cut /\ Fresh /\ auth # "over"

(* Until CAP LS is taken nothing else has happened on the connection. *)
LSAlone ==
  Without(requests, "LS")
    \/ (requests = <<Command("LS")>> /\ acked = {} /\ auth = "none" /\ lines = {})

QueueOK ==
  Without(requests, "LS") => Sound(requests, acked, auth, offered, Fresh, LoginDue)

(* Where sasl can be: in one line, in the queue, or acknowledged. *)
SaslOK ==
  /\ \A S, T \in lines : Sasl \in S /\ Sasl \in T => S = T
  /\ (\E S \in lines : Sasl \in S) => Sasl \in offered /\ Sasl \notin acked /\ SaslFree(requests)
  /\ Sasl \in acked => Sasl \in offered /\ Sasl \in client_enabled
  /\ auth # "none" => Sasl \in acked

LoginInv == IInv /\ LSAlone /\ QueueOK /\ (Fresh => SaslOK)

SoundNow(ack, au, off) ==
  Sound(requests', ack, au, off, Fresh', LoginDue')

LEMMA ConcludeSound ==
  ASSUME NEW q, NEW ack, NEW au, NEW off, NEW fresh, NEW due, NEW cap_end,
         Sound(q, ack, au, off, fresh, due), Conclude(q, cap_end),
         cap_end /\ due /\ ~AwaitLogin => Sasl \notin ack /\ SaslFree(q)
  PROVE  /\ Sound(requests', ack, au, off, fresh, due)
         /\ SaslFree(q) => SaslFree(requests')
<1>1. Command("END") \in Requests /\ Command("END").caps = {} /\ Command("END").cmd = "END"
  BY CommandAsksNothing DEF Commands
<1>2. CASE cap_end /\ ~negotiated /\ ~AwaitLogin
  <2>1. requests' = Append(q, Command("END"))
    BY <1>2 DEF Conclude
  <2>2. due => Sasl \notin ack /\ SaslFree(q)
    BY <1>2
  <2>3. Sound(Append(q, Command("END")), ack, au, off, fresh, due)
    BY <1>1, <2>2, SoundAppend
  <2> QED BY <1>1, <2>1, <2>3, AppendedQueue DEF Sound
<1>3. CASE ~(cap_end /\ ~negotiated /\ ~AwaitLogin)
  BY <1>3 DEF Conclude
<1> QED BY <1>2, <1>3

(* A request for what was not asked for yet, and then perhaps CAP END. *)
LEMMA EnableSound ==
  ASSUME NEW q, NEW ack, NEW au, NEW off, NEW fresh, NEW due,
         NEW S, S \subseteq Caps, NEW cap_end,
         Sound(q, ack, au, off, fresh, due), EnableAndRequest(q, S, cap_end),
         fresh /\ Sasl \in S => SaslFree(q) /\ Sasl \in off /\ Sasl \notin ack,
         ~(cap_end /\ due)
  PROVE  /\ Sound(requests', ack, au, off, fresh, due)
         /\ SaslFree(q) /\ Sasl \notin S => SaslFree(requests')
<1>1. Req(S) \in Requests /\ Req(S).caps = S /\ Req(S).cmd = "REQ"
  BY DEF Req, Requests, Commands
<1>2. Sound(Append(q, Req(S)), ack, au, off, fresh, due)
  BY <1>1, SoundAppend
<1>3. SaslFree(q) /\ Sasl \notin S => SaslFree(Append(q, Req(S)))
  BY <1>1, AppendedQueue DEF Sound
<1> DEFINE k == IF S = {} THEN q ELSE Append(q, Req(S))
<1>4. Sound(k, ack, au, off, fresh, due) /\ (SaslFree(q) /\ Sasl \notin S => SaslFree(k))
  BY <1>2, <1>3
<1>5. Conclude(k, cap_end)
  BY DEF EnableAndRequest
<1> HIDE DEF k
<1> QED BY <1>4, <1>5, ConcludeSound

(* Less may be due, and more offered. *)
LEMMA SoundWeaker ==
  ASSUME NEW q, NEW ack, NEW au, NEW off, NEW fresh, NEW due, NEW off2, NEW fresh2, NEW due2,
         Sound(q, ack, au, off, fresh, due), off \subseteq off2, fresh2 => fresh, due2 => due
  PROVE  Sound(q, ack, au, off2, fresh2, due2)
BY DEF Sound

(* The queue as the peer leaves it when it takes something but CAP LS. *)
LEMMA TakenSound ==
  ASSUME LoginInv, NEW c, Takes(c), c # "LS"
  PROVE  /\ Without(requests, "LS") /\ lines = {} /\ requests # <<>> /\ Head(requests).cmd = c
         /\ Sound(requests, acked, auth, offered, Fresh, LoginDue)
         /\ Without(Tail(requests), "LS")
<1>1. lines = {} /\ requests # <<>> /\ Head(requests).cmd = c
  BY DEF Takes
<1>2. requests # <<Command("LS")>>
  BY <1>1 DEF Command
<1>3. Without(requests, "LS")
  BY <1>2 DEF LoginInv, LSAlone
<1>4. Sound(requests, acked, auth, offered, Fresh, LoginDue)
  BY <1>3 DEF LoginInv, QueueOK
<1> QED BY <1>1, <1>3, <1>4, SoundTail

LEMMA SoundGivesLoginInv ==
  ASSUME IInv', SoundNow(acked', auth', offered'), Fresh' => SaslOK'
  PROVE  LoginInv'
<1>1. Without(requests', "LS")
  BY DEF SoundNow, Sound
<1> QED BY <1>1 DEF LoginInv, LSAlone, QueueOK, SoundNow

LEMMA LoginConnect == ASSUME LoginInv, Connect PROVE LoginInv'
<1>1. IInv'
  BY ConnectStep DEF LoginInv
<1>2. requests' = <<Command("LS")>> /\ acked' = {} /\ auth' = "none" /\ lines' = {}
  BY DEF Connect
<1>3. ~Without(requests', "LS")
  BY <1>2 DEF Without, Command
<1>4. SaslOK'
  BY <1>2 DEF SaslOK
<1> QED BY <1>1, <1>2, <1>3, <1>4 DEF LoginInv, LSAlone, QueueOK

LEMMA LoginDisconnect == ASSUME LoginInv, Disconnect PROVE LoginInv'
<1>1. IInv'
  BY DisconnectStep DEF LoginInv
<1>2. requests' = <<>> /\ acked' = {} /\ auth' = "none" /\ lines' = {}
  BY DEF Disconnect
<1>3. SaslOK'
  BY <1>2 DEF SaslOK
<1>4. SoundNow(acked', auth', offered')
  BY <1>2, SoundEmpty DEF SoundNow
<1> QED BY <1>1, <1>3, <1>4, SoundGivesLoginInv

LEMMA LoginTakeLS == ASSUME LoginInv, TakeLS PROVE LoginInv'
<1>1. PICK S \in SUBSET offered :
        /\ lines' = {} \/ lines' = {offered \ S}
        /\ cut' = (Supported(S) = {})
        /\ irc_event_cap_LS(Tail(requests), S)
  BY DEF TakeLS
<1>2. IInv' /\ UNCHANGED <<offered, acked, auth, stale>>
  BY TakeLSStep DEF LoginInv, TakeLS
<1>3. acked = {} /\ auth = "none" /\ Tail(requests) = <<>>
  <2>1. Takes("LS") /\ requests \in Seq(Requests)
    BY DEF TakeLS, LoginInv, IInv, CapsOK, Asks
  <2>2. ~Without(requests, "LS")
    BY <2>1 DEF Takes, Without
  <2>3. requests = <<Command("LS")>> /\ acked = {} /\ auth = "none"
    BY <2>2 DEF LoginInv, LSAlone
  <2>4. \A r : Tail(<<r>>) = <<>>
    OBVIOUS
  <2> QED BY <2>3, <2>4
<1>4. Sound(Tail(requests), acked', auth', offered', Fresh', LoginDue') /\ SaslFree(Tail(requests))
  BY <1>3, SoundEmpty
<1>5. EnableAndRequest(Tail(requests), Supported(S), Supported(S) = {})
  BY <1>1 DEF irc_event_cap_LS
<1>6. /\ Supported(S) \subseteq Caps /\ (Sasl \in Supported(S) <=> Sasl \in S)
      /\ ~((Supported(S) = {}) /\ LoginDue')
  BY <1>1, SaslAssumption DEF Supported, LoginDue
<1>7. Sasl \in Supported(S) => Sasl \in offered' /\ Sasl \notin acked'
  BY <1>2, <1>3, <1>6
<1>8. /\ SoundNow(acked', auth', offered')
      /\ Sasl \notin Supported(S) => SaslFree(requests')
  BY <1>4, <1>5, <1>6, <1>7, EnableSound DEF SoundNow
<1>9. SaslOK'
  BY <1>1, <1>2, <1>3, <1>6, <1>8 DEF SaslOK
<1> QED BY <1>2, <1>8, <1>9, SoundGivesLoginInv

LEMMA LoginSecondLine == ASSUME LoginInv, SecondLine PROVE LoginInv'
<1>1. PICK S \in lines :
        /\ lines' = lines \ {S}
        /\ cut' = (cut \/ Supported(S) = {})
        /\ irc_event_cap_LS(requests, S)
  BY DEF SecondLine
<1>2. IInv' /\ UNCHANGED <<method, offered, acked, auth, stale>>
  BY SecondLineStep DEF LoginInv, SecondLine, config
<1>3. Sound(requests, acked, auth, offered, Fresh, LoginDue)
  BY <1>1 DEF LoginInv, LSAlone, QueueOK
<1>4. Fresh' => Fresh /\ SaslOK
  BY <1>2 DEF Fresh, LoginInv
<1>5. LoginDue' => LoginDue
  BY <1>1, <1>2 DEF LoginDue, Fresh, SaslMethod
<1>6. Sound(requests, acked', auth', offered', Fresh', LoginDue')
  BY <1>2, <1>3, <1>4, <1>5, SoundWeaker
<1>7. EnableAndRequest(requests, Supported(S), Supported(S) = {})
  BY <1>1 DEF irc_event_cap_LS
<1>8. /\ Supported(S) \subseteq Caps /\ (Sasl \in Supported(S) <=> Sasl \in S)
      /\ ~((Supported(S) = {}) /\ LoginDue')
  BY <1>1, SaslAssumption DEF Supported, LoginDue
<1>9. Fresh' /\ Sasl \in Supported(S) => SaslFree(requests) /\ Sasl \in offered' /\ Sasl \notin acked'
  BY <1>1, <1>2, <1>4, <1>8 DEF SaslOK
<1>10. /\ SoundNow(acked', auth', offered')
       /\ SaslFree(requests) /\ Sasl \notin Supported(S) => SaslFree(requests')
  BY <1>6, <1>7, <1>8, <1>9, EnableSound DEF SoundNow
<1>11. ASSUME Fresh'
       PROVE  SaslOK'
  <2>1. SaslOK
    BY <1>4, <1>11
  <2>2. client_enabled' = client_enabled
    BY <1>7 DEF EnableAndRequest
  <2>3. ASSUME NEW T \in lines', Sasl \in T
        PROVE  SaslFree(requests')
    <3>1. T \in lines /\ T # S /\ SaslFree(requests)
      BY <1>1, <2>1, <2>3 DEF SaslOK
    <3>2. Sasl \notin S
      BY <2>1, <2>3, <3>1 DEF SaslOK
    <3> QED BY <1>8, <1>10, <3>1, <3>2
  <2> QED BY <1>1, <1>2, <2>1, <2>2, <2>3 DEF SaslOK
<1> QED BY <1>2, <1>10, <1>11, SoundGivesLoginInv

(* The authentication that an acknowledgement of sasl brings about. *)
LEMMA OnEnableSound ==
  ASSUME NEW q, NEW ack, NEW au, NEW off, NEW fresh, NEW due, NEW S,
         Sound(q, ack, au, off, fresh, due),
         fresh /\ Sasl \in S => Without(q, "AUTHENTICATE") /\ au = "none"
  PROVE  Sound(sasl_on_enable(q, S), ack, au, off, fresh, due)
<1>1. /\ Command("AUTHENTICATE") \in Requests /\ Command("AUTHENTICATE").caps = {}
      /\ Command("AUTHENTICATE").cmd = "AUTHENTICATE"
  BY CommandAsksNothing DEF Commands
<1>2. CASE Sasl \in S
  <2>1. Sound(Append(q, Command("AUTHENTICATE")), ack, au, off, fresh, due)
    BY <1>1, <1>2, SoundAppend
  <2> QED BY <2>1 DEF sasl_on_enable
<1>3. CASE Sasl \notin S
  BY <1>3 DEF sasl_on_enable
<1> QED BY <1>2, <1>3

LEMMA LoginAck ==
  ASSUME LoginInv, TakeReq, NEW S, S = Head(requests).caps,
         S \subseteq offered, acked' = acked \cup S, irc_event_cap_ACK(Tail(requests), S),
         UNCHANGED cut
  PROVE  LoginInv'
<1> DEFINE q == Tail(requests)
<1>1. /\ IInv' /\ IInv /\ Takes("REQ")
      /\ UNCHANGED <<method, offered, lines, auth, stale>>
  BY TakeReqStep DEF LoginInv, TakeReq, config
<1>2. lines = {} /\ requests # <<>> /\ Sound(requests, acked, auth, offered, Fresh, LoginDue)
  BY <1>1, TakenSound
<1>3. (Fresh' <=> Fresh) /\ (LoginDue' <=> LoginDue) /\ (Fresh => SaslOK) /\ (LoginDue => Fresh)
  BY <1>1 DEF Fresh, LoginDue, SaslMethod, LoginInv
<1>4. /\ Sound(q, acked, auth, offered, Fresh, LoginDue)
      /\ Fresh /\ Sasl \in S => SaslFree(q) /\ Sasl \notin acked
      /\ LoginDue /\ Sasl \in S => Without(q, "END")
      /\ \A c : Without(requests, c) => Without(q, c)
  BY <1>2, SoundTail
<1>5. Asks(q, server_enabled, MayLogin)
  BY <1>2, AsksTail DEF LoginInv, IInv, CapsOK
<1> HIDE DEF q
<1>6. Sound(q, acked', auth', offered', Fresh', LoginDue')
  BY <1>1, <1>3, <1>4 DEF Sound
<1>7. Fresh' /\ Sasl \in S => Without(q, "AUTHENTICATE") /\ auth' = "none"
  <2>1. ASSUME Fresh', Sasl \in S
        PROVE  auth' = "none" /\ Sasl \notin acked
    BY <1>1, <1>3, <1>4, <2>1 DEF SaslOK
  <2>2. ASSUME Fresh', Sasl \in S
        PROVE  Without(q, "AUTHENTICATE")
    BY <1>5, <2>1, <2>2 DEF Asks, MayLogin, Without
  <2> QED BY <2>1, <2>2
<1> DEFINE k == sasl_on_enable(q, S)
<1>8. Sound(k, acked', auth', offered', Fresh', LoginDue')
  BY <1>6, <1>7, OnEnableSound
<1>9. /\ Conclude(k, srn_server_cap_all_enabled)
      /\ client_enabled' = client_enabled \cup S /\ server_enabled' = server_enabled
  BY DEF irc_event_cap_ACK, q
<1>10. ~AwaitLogin /\ SaslMethod' => k = q
  BY <1>1 DEF AwaitLogin, sasl_on_enable, SaslMethod
<1> HIDE DEF k
<1>11. ASSUME srn_server_cap_all_enabled, LoginDue', ~AwaitLogin
       PROVE  Sasl \notin acked' /\ SaslFree(k)
  <2>1. SaslMethod' /\ Sasl \notin client_enabled' /\ Sasl \notin server_enabled /\ k = q
    BY <1>1, <1>9, <1>10, <1>11 DEF AwaitLogin, srn_server_cap_all_enabled, LoginDue, SaslMethod
  <2>2. Sasl \notin acked'
    BY <1>3, <1>9, <1>11, <2>1 DEF SaslOK
  <2> QED BY <1>5, <2>1, <2>2 DEF Asks, SaslFree
<1>12. SoundNow(acked', auth', offered')
  BY <1>8, <1>9, <1>11, ConcludeSound DEF SoundNow
<1>13. Fresh' => SaslOK'
  BY <1>1, <1>2, <1>3, <1>9 DEF SaslOK
<1> QED BY <1>1, <1>12, <1>13, SoundGivesLoginInv

LEMMA LoginNak ==
  ASSUME LoginInv, TakeReq, cut' = TRUE, UNCHANGED acked, irc_event_cap_NAK(Tail(requests))
  PROVE  LoginInv'
<1>1. /\ IInv' /\ IInv /\ Takes("REQ")
      /\ UNCHANGED <<method, offered, lines, auth, stale, client_enabled>>
      /\ Conclude(Tail(requests), TRUE)
  BY TakeReqStep DEF LoginInv, TakeReq, config, irc_event_cap_NAK
<1>2. lines = {} /\ requests # <<>> /\ Sound(requests, acked, auth, offered, Fresh, LoginDue)
  BY <1>1, TakenSound
<1>3. Sound(Tail(requests), acked, auth, offered, Fresh, LoginDue)
  BY <1>2, SoundTail
<1>4. ~LoginDue' /\ (Fresh' <=> Fresh)
  BY <1>1 DEF LoginDue, Fresh
<1>5. Sound(Tail(requests), acked', auth', offered', Fresh', LoginDue')
  BY <1>1, <1>3, <1>4, SoundWeaker
<1>6. SoundNow(acked', auth', offered')
  BY <1>1, <1>4, <1>5, ConcludeSound DEF SoundNow
<1>7. Fresh' => SaslOK'
  BY <1>1, <1>2, <1>4 DEF SaslOK, LoginInv
<1> QED BY <1>1, <1>6, <1>7, SoundGivesLoginInv

LEMMA LoginTakeReq == ASSUME LoginInv, TakeReq PROVE LoginInv'
<1> DEFINE S == Head(requests).caps
<1>1. CASE S \subseteq offered /\ acked' = acked \cup S /\ irc_event_cap_ACK(Tail(requests), S) /\ UNCHANGED cut
  BY <1>1, LoginAck
<1>2. CASE irc_event_cap_NAK(Tail(requests)) /\ cut' = TRUE /\ UNCHANGED acked
  BY <1>2, LoginNak
<1> QED BY <1>1, <1>2 DEF TakeReq

LEMMA LoginTakeEnd == ASSUME LoginInv, TakeEnd PROVE LoginInv'
<1>1. /\ IInv' /\ Takes("END") /\ requests' = Tail(requests)
      /\ UNCHANGED <<method, offered, lines, acked, auth, cut, stale, client_enabled>>
  BY TakeOtherStep DEF LoginInv, TakeEnd, config, client
<1>2. lines = {} /\ requests # <<>> /\ Sound(requests, acked, auth, offered, Fresh, LoginDue)
  BY <1>1, TakenSound
<1>3. Sound(Tail(requests), acked, auth, offered, Fresh, LoginDue)
  BY <1>2, SoundTail
<1>4. (LoginDue' <=> LoginDue) /\ (Fresh' <=> Fresh)
  BY <1>1 DEF LoginDue, Fresh, SaslMethod
<1>5. Sound(Tail(requests), acked', auth', offered', Fresh', LoginDue')
  BY <1>1, <1>3, <1>4, SoundWeaker
<1>6. SoundNow(acked', auth', offered')
  BY <1>1, <1>5 DEF SoundNow
<1>7. Fresh' => SaslOK'
  BY <1>1, <1>2, <1>4 DEF SaslOK, LoginInv
<1> QED BY <1>1, <1>6, <1>7, SoundGivesLoginInv

(* What a step of the authentication leaves in the queue: a response of    *)
(* the client, CAP END once it is over, or nothing.                        *)
LEMMA LoginAnswered ==
  ASSUME LoginInv, IInv', NEW q, NEW au,
         UNCHANGED <<method, offered, lines, acked, cut, stale, client_enabled>>, lines = {},
         auth' = au, Fresh => (au # "none" /\ Sasl \in acked) \/ au = auth,
         Sound(q, acked, au, offered, Fresh, LoginDue'),
         \/ requests' = q
         \/ requests' = Append(q, Command("RESPONSE")) /\ au # "none"
         \/ requests' = Append(q, Command("END")) /\ au = "over"
  PROVE  LoginInv'
<1>1. Fresh' <=> Fresh
  BY DEF Fresh
<1>2. \A c \in {"RESPONSE", "END"} :
        Command(c) \in Requests /\ Command(c).caps = {} /\ Command(c).cmd = c
  BY CommandAsksNothing DEF Commands
<1>3. Sound(requests', acked, au, offered, Fresh, LoginDue')
  <2>1. CASE requests' = q
    BY <2>1
  <2>2. CASE requests' = Append(q, Command("RESPONSE")) /\ au # "none"
    BY <1>2, <2>2, SoundAppend
  <2>3. CASE requests' = Append(q, Command("END")) /\ au = "over"
    <3>1. ~LoginDue'
      BY <2>3 DEF LoginDue
    <3> QED BY <1>2, <2>3, <3>1, SoundAppend
  <2> QED BY <2>1, <2>2, <2>3
<1>4. SoundNow(acked', auth', offered')
  BY <1>1, <1>3 DEF SoundNow
<1>5. Fresh' => SaslOK'
  BY <1>1 DEF SaslOK, LoginInv
<1> QED BY <1>4, <1>5, SoundGivesLoginInv

LEMMA LoginTakeAuthenticate == ASSUME LoginInv, TakeAuthenticate PROVE LoginInv'
<1> DEFINE q == Tail(requests)
<1>1. /\ IInv' /\ Takes("AUTHENTICATE")
      /\ UNCHANGED <<method, offered, lines, acked, cut, stale, client_enabled>>
      /\ \/ auth' = "begun" /\ irc_event_authenticate(q, FALSE)
         \/ auth' = "over" /\ SaslEnd(q, FALSE)
         \/ UNCHANGED auth /\ requests' = q
  <2>1. IInv'
    BY TakeOtherStep DEF LoginInv
  <2> QED BY <2>1 DEF TakeAuthenticate, config, client, irc_event_authenticate, SaslEnd
<1>2. /\ lines = {} /\ requests # <<>> /\ Head(requests).cmd = "AUTHENTICATE"
      /\ Sound(requests, acked, auth, offered, Fresh, LoginDue)
  BY <1>1, TakenSound
<1>3. /\ Sound(q, acked, auth, offered, Fresh, LoginDue)
      /\ Fresh => Without(q, "AUTHENTICATE") /\ auth = "none"
  BY <1>2, SoundTail
<1>4. Sasl \in acked
  <2>1. 1 \in DOMAIN requests /\ requests[1].cmd = "AUTHENTICATE"
    BY <1>2 DEF LoginInv, IInv, CapsOK, Asks
  <2> QED BY <2>1 DEF LoginInv, IInv, CapsOK, Asks, MayLogin
<1> HIDE DEF q
<1>5. LoginDue' => LoginDue
  BY <1>1, <1>3 DEF LoginDue, Fresh, SaslMethod
<1>6. CASE auth' = "begun" /\ irc_event_authenticate(q, FALSE)
  <2>1. Sound(q, acked, "begun", offered, Fresh, LoginDue')
    BY <1>3, <1>5 DEF Sound
  <2>2. requests' = q \/ requests' = Append(q, Command("RESPONSE"))
    BY <1>6 DEF irc_event_authenticate
  <2> QED BY <1>1, <1>2, <1>4, <1>6, <2>1, <2>2, LoginAnswered
<1>7. CASE auth' = "over" /\ SaslEnd(q, FALSE)
  <2>1. Sound(q, acked, "over", offered, Fresh, LoginDue')
    BY <1>3, <1>5 DEF Sound
  <2>2. requests' = Append(q, Command("END"))
    BY <1>7 DEF SaslEnd
  <2> QED BY <1>1, <1>2, <1>4, <1>7, <2>1, <2>2, LoginAnswered
<1>8. CASE UNCHANGED auth /\ requests' = q
  <2>1. Sound(q, acked, auth, offered, Fresh, LoginDue')
    BY <1>3, <1>5 DEF Sound
  <2> QED BY <1>1, <1>2, <1>8, <2>1, LoginAnswered
<1> QED BY <1>1, <1>6, <1>7, <1>8

LEMMA LoginTakeResponse == ASSUME LoginInv, TakeResponse PROVE LoginInv'
<1> DEFINE q == Tail(requests)
<1>1. /\ IInv' /\ Takes("RESPONSE")
      /\ UNCHANGED <<method, offered, lines, acked, cut, stale, client_enabled>>
      /\ \/ auth' = "challenged" /\ irc_event_authenticate(q, TRUE)
         \/ auth' = "over" /\ \E success \in BOOLEAN : SaslEnd(q, success)
  <2>1. IInv'
    BY TakeOtherStep DEF LoginInv
  <2> QED BY <2>1 DEF TakeResponse, config, client, irc_event_authenticate, SaslEnd
<1>2. /\ lines = {} /\ requests # <<>> /\ Head(requests).cmd = "RESPONSE"
      /\ Sound(requests, acked, auth, offered, Fresh, LoginDue)
  BY <1>1, TakenSound
<1>3. /\ Sound(q, acked, auth, offered, Fresh, LoginDue)
      /\ Fresh => auth # "none"
  BY <1>2, SoundTail
<1>4. Fresh => Sasl \in acked
  BY <1>3 DEF LoginInv, SaslOK
<1> HIDE DEF q
<1>5. CASE auth' = "challenged" /\ irc_event_authenticate(q, TRUE)
  <2>1. auth = "begun"
    BY <1>5 DEF TakeResponse
  <2>2. LoginDue' => LoginDue
    BY <1>1, <2>1 DEF LoginDue, Fresh, SaslMethod
  <2>3. Sound(q, acked, "challenged", offered, Fresh, LoginDue')
    BY <1>3, <2>2 DEF Sound
  <2>4. requests' = q \/ requests' = Append(q, Command("RESPONSE"))
    BY <1>5 DEF irc_event_authenticate
  <2> QED BY <1>1, <1>2, <1>4, <1>5, <2>3, <2>4, LoginAnswered
<1>6. CASE auth' = "over" /\ \E success \in BOOLEAN : SaslEnd(q, success)
  <2>1. ~LoginDue'
    BY <1>6 DEF LoginDue
  <2>2. Sound(q, acked, "over", offered, Fresh, LoginDue')
    BY <1>3, <2>1 DEF Sound
  <2>3. requests' = Append(q, Command("END"))
    BY <1>6 DEF SaslEnd
  <2> QED BY <1>1, <1>2, <1>4, <1>6, <2>2, <2>3, LoginAnswered
<1> QED BY <1>1, <1>5, <1>6

LEMMA LoginNew == ASSUME LoginInv, New PROVE LoginInv'
<1>1. PICK c \in (Caps \cup Unknown) \ offered :
        offered' = offered \cup {c} /\ irc_event_cap_NEW(requests, {c})
  BY DEF New
<1>2. /\ IInv' /\ lines = {} /\ Without(requests, "LS")
      /\ UNCHANGED <<method, lines, acked, auth, cut, stale>>
  BY UnaskedStep DEF LoginInv, New, PeerMaySay, Without, config
<1>3. Sound(requests, acked, auth, offered, Fresh, LoginDue) /\ (Fresh => SaslOK)
  BY <1>2 DEF LoginInv, QueueOK
<1>4. (LoginDue' <=> LoginDue) /\ (Fresh' <=> Fresh)
  BY <1>2 DEF LoginDue, Fresh, SaslMethod
<1>5. Sound(requests, acked', auth', offered', Fresh', LoginDue')
  BY <1>1, <1>2, <1>3, <1>4, SoundWeaker
<1>6. EnableAndRequest(requests, Supported({c}), FALSE) /\ client_enabled' = client_enabled
  BY <1>1 DEF irc_event_cap_NEW, EnableAndRequest
<1>7. Supported({c}) \subseteq Caps /\ (Sasl \in Supported({c}) => c = Sasl)
  BY DEF Supported
<1>8. Fresh' /\ Sasl \in Supported({c}) => SaslFree(requests) /\ Sasl \in offered' /\ Sasl \notin acked'
  <2>1. ASSUME Fresh', Sasl \in Supported({c})
        PROVE  SaslFree(requests) /\ Sasl \in offered' /\ Sasl \notin acked'
    <3>1. Sasl \notin offered /\ Sasl \in offered'
      BY <1>1, <1>7, <2>1
    <3>2. SaslFree(requests)
      BY <1>3, <1>4, <2>1, <3>1 DEF Sound
    <3>3. Sasl \notin acked'
      BY <1>2, <1>3, <1>4, <2>1, <3>1 DEF SaslOK
    <3> QED BY <3>1, <3>2, <3>3
  <2> QED BY <2>1
<1>9. SoundNow(acked', auth', offered')
  BY <1>5, <1>6, <1>7, <1>8, EnableSound DEF SoundNow
<1>10. Fresh' => SaslOK'
  BY <1>1, <1>2, <1>3, <1>4, <1>6 DEF SaslOK
<1> QED BY <1>2, <1>9, <1>10, SoundGivesLoginInv

(* A deletion only leaves that CAP LS comes alone. *)
LEMMA LoginDel == ASSUME LoginInv, Del PROVE LoginInv'
<1>1. PICK c \in offered : irc_event_cap_DEL(requests, {c})
  BY DEF Del
<1>2. IInv' /\ Without(requests, "LS") /\ ~Fresh' /\ ~LoginDue'
  BY UnaskedStep DEF LoginInv, Del, PeerMaySay, Without, Fresh, LoginDue
<1>3. Sound(requests, acked', auth', offered', Fresh', LoginDue')
  BY <1>2 DEF Sound, LoginInv, IInv, CapsOK, Asks
<1>4. Conclude(requests, FALSE)
  BY <1>1 DEF irc_event_cap_DEL, sasl_on_enable
<1>5. SoundNow(acked', auth', offered')
  BY <1>3, <1>4, ConcludeSound DEF SoundNow
<1> QED BY <1>2, <1>5, SoundGivesLoginInv

LEMMA LoginUnchanged ==
  ASSUME LoginInv, IInv',
         UNCHANGED <<method, client_enabled, requests, offered, lines, acked, auth, cut, stale>>
  PROVE  LoginInv'
BY DEF LoginInv, LSAlone, QueueOK, SaslOK, Fresh, LoginDue, SaslMethod

LEMMA LoginInvInductive == LoginInv /\ [Next]_vars => LoginInv'
<1>1. ASSUME LoginInv, UNCHANGED vars PROVE LoginInv'
  <2>1. IInv'
    BY <1>1 DEF LoginInv, vars, config, client, peer, IInv, CapsOK, RestOK, Asks, MayLogin, SaslMethod
  <2> QED BY <1>1, <2>1, LoginUnchanged DEF vars, config, client, peer
<1>2. ASSUME LoginInv, LoggedOut PROVE LoginInv'
  BY <1>2, UnaskedStep, LoginUnchanged DEF LoginInv, LoggedOut, config, peer
<1> QED BY <1>1, <1>2, LoginConnect, LoginDisconnect, LoginTakeLS, LoginSecondLine,
           LoginTakeReq, LoginTakeEnd, LoginTakeAuthenticate, LoginTakeResponse,
           LoginNew, LoginDel DEF Next, Take

(* The registration is never completed ahead of an authentication that the *)
(* peer has agreed to, for any capabilities and any number of requests     *)
(* under way: once sasl is acknowledged, a CAP END reaches the peer only   *)
(* after the authentication.                                               *)
THEOREM EndAfterLogin == Spec => LoginBeforeEnd
<1>1. Init => LoginInv
  <2>1. Init => IInv
    <3>1. Init => CapsOK
      BY AsksEmpty DEF Init, CapsOK
    <3>2. Init => RestOK
      BY DEF Init, RestOK
    <3> QED BY <3>1, <3>2 DEF IInv
  <2>2. Init => SaslOK
    BY DEF Init, SaslOK
  <2>3. Init => LSAlone /\ QueueOK
    BY SoundEmpty DEF Init, LSAlone, QueueOK, Without
  <2> QED BY <2>1, <2>2, <2>3 DEF LoginInv
<1>2. ASSUME LoginInv, [Next]_vars
      PROVE  [~ended /\ ended' /\ MayLogin
                => auth = "over" \/ cut \/ "deleted" \in stale]_vars
  <2>1. ASSUME Next, ~ended, ended' PROVE TakeEnd
    BY <2>1 DEF Next, Take, Connect, Disconnect, TakeLS, SecondLine, TakeReq, TakeAuthenticate,
                TakeResponse, New, Del, LoggedOut, peer
  <2>2. ASSUME TakeEnd, MayLogin, LoginDue PROVE FALSE
    <3>1. Takes("END")
      BY <2>2 DEF TakeEnd
    <3>2. requests # <<>> /\ Head(requests).cmd = "END" /\ Sound(requests, acked, auth, offered, Fresh, LoginDue)
      BY <1>2, <3>1, TakenSound
    <3>3. Sasl \notin acked
      BY <2>2, <3>2, SoundTail
    <3> QED BY <2>2, <3>3 DEF MayLogin
  <2> QED BY <1>2, <2>1, <2>2 DEF LoginDue, MayLogin, Fresh
<1> QED BY <1>1, <1>2, LoginInvInductive, PTL DEF Spec, LoginBeforeEnd

=============================================================================
