--------------------------- MODULE ComponentsProofs ---------------------------
(***************************************************************************)
(* The components that share no state, side by side as their run has them. *)
(* What happens there is what each of them does by itself, so what is      *)
(* proved of one holds of all together: the invariants and the action      *)
(* properties of that run, for any values of the constants.                *)
(*                                                                         *)
(* Before that, the types of the components that have no other theorem:    *)
(* the alternate nicks, where an event that refuses a nick is only ever of *)
(* one that others hold, and so the next one asked for is one of those     *)
(* that the client may come to;                                            *)
(* the connect panel; and those of the window, the previewer, the user     *)
(* list and the commands, from their invariants.                           *)
(***************************************************************************)
EXTENDS MCComponents, WireProofs, InterfaceProofs, CommandProofs, TLAPS

-----------------------------------------------------------------------------
(* The alternate nicks.                                                    *)

(* What the server may have sent: it refuses only nicks that others hold,  *)
(* and only they quit.                                                     *)
NickEvents == [ev : {"welcome", "nick"}, nick : AllNicks] \cup [ev : {"inuse", "quit"}, nick : HeldNicks]

NickInv == NickTypeOK /\ events \in Seq(NickEvents)

(* After three underlines, and after a nick that is too short, comes the   *)
(* configured nick.                                                        *)
LEMMA NextIsAlternate ==
  ASSUME NEW k \in HeldNicks
  PROVE  NextAlternate(k) \in AllNicks
<1>1. CASE k \in Alternates
  <2>1. PICK n \in 0..3 : k = Own(n)
    BY <1>1 DEF Alternates
  <2>2. k.base = "cfg" /\ k.lines = n /\ NickLen(k) = 3 + n
    BY <2>1 DEF Own, Nick, NickLen
  <2>3. NextAlternate(k) \in {Own(0), Nick("cfg", n + 1)} /\ (n = 3 => NextAlternate(k) = Own(0))
    BY <2>2 DEF NextAlternate, CfgLen
  <2>4. Own(0) \in Alternates /\ (n # 3 => Nick("cfg", n + 1) \in Alternates)
    BY DEF Alternates, Own
  <2> QED BY <2>3, <2>4 DEF AllNicks
<1>2. CASE k = Nick("short", 0)
  <2>1. NickLen(k) = 2
    BY <1>2 DEF Nick, NickLen
  <2>2. NextAlternate(k) = Own(0)
    BY <2>1 DEF NextAlternate, CfgLen
  <2> QED BY <2>2 DEF AllNicks, Alternates
<1> QED BY <1>1, <1>2 DEF HeldNicks

LEMMA NickNames == HeldNicks \subseteq AllNicks /\ \A n \in 0..3 : Own(n) \in HeldNicks
BY DEF AllNicks, HeldNicks, Alternates

LEMMA NickInitial == NickInit => NickInv
<1> SUFFICES ASSUME NickInit PROVE NickInv
  OBVIOUS
<1>1. Own(0) \in AllNicks
  BY NickNames
<1>2. /\ own = Own(0) /\ reg = FALSE /\ requests = <<Own(0)>> /\ events = <<>> /\ peerNick = <<>>
      /\ taken \in SUBSET HeldNicks /\ ~(Alternates \subseteq taken)
  BY DEF NickInit
<1>3. requests \in Seq(AllNicks) /\ events \in Seq(NickEvents)
  BY <1>1, <1>2
<1> QED BY <1>1, <1>2, <1>3 DEF NickInv, NickTypeOK

(* The event the client handles. *)
LEMMA NickEventGot ==
  ASSUME NickInv, NEW ev, Got(ev)
  PROVE  /\ events' \in Seq(NickEvents) /\ Head(events) \in NickEvents
         /\ Head(events).nick \in AllNicks /\ (ev = "inuse" => Head(events).nick \in HeldNicks)
<1>1. events \in Seq(NickEvents) /\ events # <<>> /\ events' = Tail(events) /\ Head(events).ev = ev
  BY DEF NickInv, Got
<1>2. Tail(events) \in Seq(NickEvents) /\ Head(events) \in NickEvents
  BY <1>1
<1>3. PICK e : e = Head(events)
  OBVIOUS
<1>4. e \in NickEvents /\ e.ev = ev
  BY <1>1, <1>2, <1>3
<1>5. e.nick \in AllNicks /\ (ev = "inuse" => e.nick \in HeldNicks)
  BY <1>4, NickNames DEF NickEvents
<1> QED BY <1>1, <1>2, <1>3, <1>5

LEMMA NickServerStep ==
  ASSUME NickInv, ServerHandlesNick
  PROVE  NickInv'
<1>1. /\ requests \in Seq(AllNicks) /\ requests # <<>> /\ requests' = Tail(requests)
      /\ taken \subseteq HeldNicks /\ events \in Seq(NickEvents)
      /\ peerNick = <<>> \/ peerNick \in AllNicks
  BY DEF NickInv, NickTypeOK, ServerHandlesNick
<1>2. PICK k \in AllNicks : k = Head(requests)
  BY <1>1
<1>3. requests' \in Seq(AllNicks)
  BY <1>1
<1>4. CASE k \in taken
  <2>1. [ev |-> "inuse", nick |-> k] \in NickEvents
    BY <1>1, <1>4 DEF NickEvents
  <2>2. events' = Append(events, [ev |-> "inuse", nick |-> k]) /\ peerNick' = peerNick
    BY <1>2, <1>4 DEF ServerHandlesNick
  <2>3. events' \in Seq(NickEvents)
    BY <1>1, <2>1, <2>2
  <2> QED BY <1>3, <2>2, <2>3 DEF NickInv, NickTypeOK, ServerHandlesNick
<1>5. CASE k \notin taken
  <2>1. [ev |-> "welcome", nick |-> k] \in NickEvents /\ [ev |-> "nick", nick |-> k] \in NickEvents
    BY DEF NickEvents
  <2>2. /\ peerNick' = k
        /\ events' \in {events, Append(events, [ev |-> "welcome", nick |-> k]),
                        Append(events, [ev |-> "nick", nick |-> k])}
    BY <1>2, <1>5 DEF ServerHandlesNick
  <2>3. \A e \in NickEvents : Append(events, e) \in Seq(NickEvents)
    BY <1>1
  <2>4. events' \in Seq(NickEvents)
    BY <1>1, <2>1, <2>2, <2>3, Zenon
  <2> QED BY <1>3, <2>2, <2>4 DEF NickInv, NickTypeOK, ServerHandlesNick
<1> QED BY <1>4, <1>5

LEMMA NickClientStep ==
  ASSUME NickInv, OnWelcome \/ OnNick \/ OnInUse \/ OnQuit
  PROVE  NickInv'
<1>1. CASE OnWelcome
  BY <1>1, NickEventGot DEF OnWelcome, NickInv, NickTypeOK
<1>2. CASE OnNick
  BY <1>2, NickEventGot DEF OnNick, NickInv, NickTypeOK
<1>3. CASE OnInUse
  <2>1. /\ events' \in Seq(NickEvents) /\ NextAlternate(Head(events).nick) \in AllNicks
    BY <1>3, NickEventGot, NextIsAlternate, NickNames DEF OnInUse
  <2>2. requests' \in Seq(AllNicks)
    BY <1>3, <2>1 DEF OnInUse, NickInv, NickTypeOK
  <2> QED BY <1>3, <2>1, <2>2 DEF OnInUse, NickInv, NickTypeOK
<1>4. CASE OnQuit
  <2>1. events' \in Seq(NickEvents) /\ Own(0) \in AllNicks
    BY <1>4, NickEventGot, NickNames DEF OnQuit
  <2>2. requests' \in {requests, Append(requests, Own(0))}
    BY <1>4 DEF OnQuit
  <2>3. requests' \in Seq(AllNicks)
    <3>1. requests \in Seq(AllNicks)
      BY DEF NickInv, NickTypeOK
    <3>2. Append(requests, Own(0)) \in Seq(AllNicks)
      BY <2>1, <3>1
    <3> QED BY <2>2, <3>1, <3>2, Zenon
  <2> QED BY <1>4, <2>1, <2>3 DEF OnQuit, NickInv, NickTypeOK
<1> QED BY <1>1, <1>2, <1>3, <1>4

LEMMA NickOthersStep ==
  ASSUME NickInv, NEW k \in HeldNicks, NEW seen1 \in BOOLEAN, OtherTakes(k) \/ OtherQuits(k, seen1)
  PROVE  NickInv'
<1>1. CASE OtherTakes(k)
  BY <1>1 DEF OtherTakes, NickInv, NickTypeOK
<1>2. CASE OtherQuits(k, seen1)
  <2>1. [ev |-> "quit", nick |-> k] \in NickEvents
    BY DEF NickEvents
  <2>2. events' \in {events, Append(events, [ev |-> "quit", nick |-> k])}
    BY <1>2 DEF OtherQuits
  <2>3. events' \in Seq(NickEvents)
    BY <2>1, <2>2 DEF NickInv
  <2>4. taken' \subseteq HeldNicks /\ ~(Alternates \subseteq taken')
    BY <1>2 DEF OtherQuits, NickInv, NickTypeOK
  <2> QED BY <1>2, <2>3, <2>4 DEF OtherQuits, NickInv, NickTypeOK
<1> QED BY <1>1, <1>2

LEMMA NickReconnectStep ==
  ASSUME NickInv, NEW ghost \in BOOLEAN, Reconnect(ghost)
  PROVE  NickInv'
<1>1. taken' \subseteq HeldNicks /\ ~(Alternates \subseteq taken')
  BY DEF Reconnect, NickInv, NickTypeOK
<1>2. requests' = <<own>> /\ own \in AllNicks /\ events' = <<>>
  BY DEF Reconnect, NickInv, NickTypeOK
<1>3. requests' \in Seq(AllNicks) /\ events' \in Seq(NickEvents)
  BY <1>2
<1> QED BY <1>1, <1>3 DEF Reconnect, NickInv, NickTypeOK

LEMMA NickUserStep ==
  ASSUME NickInv, NEW k \in {Own(0)} \cup Unlike, UserNick(k)
  PROVE  NickInv'
<1>1. k \in AllNicks
  BY DEF AllNicks, Alternates, Unlike
<1>2. requests' = Append(requests, k)
  BY DEF UserNick
<1>3. requests' \in Seq(AllNicks)
  BY <1>1, <1>2 DEF NickInv, NickTypeOK
<1> QED BY <1>3 DEF UserNick, NickInv, NickTypeOK

LEMMA NickInvKept == NickInv /\ [NickNext]_nickVars => NickInv'
<1>1. CASE UNCHANGED nickVars
  BY <1>1 DEF nickVars, NickInv, NickTypeOK
<1> QED
  BY <1>1, NickServerStep, NickClientStep, NickOthersStep, NickReconnectStep, NickUserStep
     DEF NickNext, NickSystem

(* The client's nick and each nick it asks for are of those it may come    *)
(* to: it never puts more than three underlines behind the configured one  *)
(* (srn_user_config_get_next_alternate_nick).                              *)
THEOREM NickTypeCorrect == NickInit /\ [][NickNext]_nickVars => []NickTypeOK
<1>1. NickInv => NickTypeOK
  BY DEF NickInv
<1> QED BY <1>1, NickInitial, NickInvKept, PTL

-----------------------------------------------------------------------------
(* The connect panel.                                                      *)

LEMMA ConfiguredRead ==
  ASSUME PanelTypeOK, NEW n \in SrvNames \cup {None}
  PROVE  Read(n) \in Forms
<1>1. Held(<<n>>) \in {None, Secret} /\ \A nick : HeldLogin(n, nick) \in {None, Secret}
  BY DEF Held, HeldLogin
<1>2. CASE n \in DOMAIN Configured
  <2>1. Configured[n].nick \in PanelNicks \cup {None}
    BY <1>2, ConfiguredAssumption
  <2>2. Read(n) = [name |-> n, host |-> Configured[n].host, pass |-> Held(<<n>>),
                   nick |-> Configured[n].nick, login |-> HeldLogin(n, Configured[n].nick)]
    BY <1>2 DEF Read
  <2> QED BY <1>1, <1>2, <2>1, <2>2 DEF Forms
<1>3. CASE n \notin DOMAIN Configured
  <2>1. Read(n) = [name |-> n, host |-> None, pass |-> Held(<<n>>), nick |-> None,
                   login |-> HeldLogin(n, None)]
    BY <1>3 DEF Read
  <2> QED BY <1>1, <2>1 DEF Forms
<1> QED BY <1>2, <1>3

LEMMA LookupsTyped ==
  ASSUME PanelTypeOK, NEW n \in SrvNames \cup {None}, NEW nick \in PanelNicks \cup {None}
  PROVE  Asked(n, nick) \subseteq (SrvNames \cup {None}) \X PanelNicks
BY DEF PanelTypeOK, Asked

LEMMA PanelPickStep ==
  ASSUME PanelTypeOK, NEW n \in SrvNames \cup {None}, PickServer(n)
  PROVE  PanelTypeOK'
<1>1. PICK c \in Forms : c = Read(n)
  BY ConfiguredRead
<1>2. form \in Forms /\ c.nick \in PanelNicks \cup {None} /\ Cleared \in Forms
  BY DEF PanelTypeOK, Forms, Cleared
<1>3. form' \in {Cleared, [c EXCEPT !.host = Or(@, form.host), !.pass = Or(@, form.pass)]}
  BY <1>1 DEF PickServer
<1>4. [c EXCEPT !.host = Or(@, form.host), !.pass = Or(@, form.pass)] \in Forms
  BY <1>2 DEF Forms, Or
<1>5. asking' \in {asking, Asked(n, c.nick)} /\ UNCHANGED <<stored, servers>>
  BY <1>1 DEF PickServer
<1>6. asking' \subseteq (SrvNames \cup {None}) \X PanelNicks
  BY <1>2, <1>5, LookupsTyped DEF PanelTypeOK
<1> QED BY <1>2, <1>3, <1>4, <1>5, <1>6 DEF PanelTypeOK

LEMMA PanelEditStep ==
  ASSUME PanelTypeOK
  PROVE  /\ \A host \in {None, "typed"} : EditHost(host) => PanelTypeOK'
         /\ \A field \in {"pass", "login"}, p \in {None, Secret} : EditPassword(field, p) => PanelTypeOK'
         /\ \A nick \in PanelNicks \cup {None} : EditNick(nick) => PanelTypeOK'
         /\ CancelForm => PanelTypeOK'
<1>0. form \in Forms /\ form.name \in SrvNames \cup {None} /\ Cleared \in Forms
  BY DEF PanelTypeOK, Forms, Cleared
<1>1. ASSUME NEW host \in {None, "typed"}, EditHost(host) PROVE PanelTypeOK'
  <2>1. form' \in Forms
    BY <1>0, <1>1 DEF EditHost, Forms
  <2> QED BY <1>1, <2>1 DEF EditHost, PanelTypeOK
<1>2. ASSUME NEW field \in {"pass", "login"}, NEW p \in {None, Secret}, EditPassword(field, p)
      PROVE  PanelTypeOK'
  <2>1. form' \in Forms
    BY <1>0, <1>2 DEF EditPassword, Forms
  <2> QED BY <1>2, <2>1 DEF EditPassword, PanelTypeOK
<1>3. ASSUME NEW nick \in PanelNicks \cup {None}, EditNick(nick) PROVE PanelTypeOK'
  <2>1. form' \in Forms
    BY <1>0, <1>3 DEF EditNick, Forms
  <2>2. asking' \subseteq (SrvNames \cup {None}) \X PanelNicks
    BY <1>0, <1>3, LookupsTyped DEF EditNick
  <2> QED BY <1>3, <2>1, <2>2 DEF EditNick, PanelTypeOK
<1>4. CASE CancelForm
  BY <1>0, <1>4 DEF CancelForm, PanelTypeOK
<1> QED BY <1>1, <1>2, <1>3, <1>4

LEMMA PanelAnswerStep ==
  ASSUME PanelTypeOK, NEW k \in asking, LookupAnswer(k)
  PROVE  PanelTypeOK'
<1>1. form \in Forms
  BY DEF PanelTypeOK
<1>2. HeldLogin(k[1], k[2]) \in {None, Secret}
  BY DEF HeldLogin
<1>3. form' \in Forms
  BY <1>1, <1>2 DEF LookupAnswer, Forms, Or
<1> QED BY <1>3 DEF LookupAnswer, PanelTypeOK

LEMMA PanelConnectStep ==
  ASSUME PanelTypeOK, NEW passToo \in BOOLEAN, NEW loginToo \in BOOLEAN, ClickConnect(passToo, loginToo)
  PROVE  PanelTypeOK'
<1>1. form \in Forms /\ form.name \in SrvNames \cup {None} /\ Cleared \in Forms
  BY DEF PanelTypeOK, Forms, Cleared
<1>2. form' \in {form, Cleared} /\ servers' \in {servers, servers \cup {form.name}} /\ asking' = asking
  BY DEF ClickConnect
<1>3. ASSUME NEW held, \A k \in held : k[1] \in SrvNames \cup {None}, NEW p, NEW nick
      PROVE  /\ \A k \in Remembered(held, form.name, p) : k[1] \in SrvNames \cup {None}
             /\ \A k \in RememberedLogin(held, form.name, nick, p) : k[1] \in SrvNames \cup {None}
  BY <1>1, <1>3 DEF Remembered, RememberedLogin
<1>4. PICK held : /\ held = IF passToo THEN Remembered(stored, form.name, form.pass) ELSE stored
                  /\ stored' = IF loginToo THEN RememberedLogin(held, form.name, form.nick, form.login)
                              ELSE held
  BY DEF ClickConnect
<1>5. \A k \in held : k[1] \in SrvNames \cup {None}
  BY <1>3, <1>4 DEF PanelTypeOK
<1>6. \A k \in stored' : k[1] \in SrvNames \cup {None}
  BY <1>3, <1>4, <1>5
<1> QED BY <1>1, <1>2, <1>6 DEF PanelTypeOK

LEMMA PanelTypesKept == PanelTypeOK /\ [PanelNext]_panelVars => PanelTypeOK'
<1> SUFFICES ASSUME PanelTypeOK, [PanelNext]_panelVars PROVE PanelTypeOK'
  OBVIOUS
<1>1. ASSUME NEW n \in DOMAIN Configured, NEW nick \in PanelNicks \cup {None}, QuickConnect(n, nick)
      PROVE  PanelTypeOK'
  <2>1. n \in SrvNames /\ Cleared \in Forms
    BY ConfiguredAssumption DEF Forms, Cleared
  <2>2. form' \in {form, Cleared} /\ servers' \in {servers, servers \cup {n}} /\ UNCHANGED <<asking, stored>>
    BY <1>1 DEF QuickConnect
  <2> QED BY <2>1, <2>2 DEF PanelTypeOK
<1>2. ASSUME NEW n \in servers, RemoveMade(n) PROVE PanelTypeOK'
  BY <1>2 DEF RemoveMade, PanelTypeOK
<1>3. CASE UNCHANGED panelVars
  BY <1>3 DEF panelVars, PanelTypeOK
<1> QED
  BY <1>1, <1>2, <1>3, PanelPickStep, PanelEditStep, PanelAnswerStep, PanelConnectStep DEF PanelNext

(* The connect panel only ever asks for, stores and makes what it has a    *)
(* name for, whatever was typed by the time a password arrives.            *)
THEOREM PanelTypeCorrect == PanelSpec => []PanelTypeOK
<1>1. PanelInit => PanelTypeOK
  BY ConfiguredAssumption DEF PanelInit, PanelTypeOK, Forms, Cleared
<1> QED BY <1>1, PanelTypesKept, PTL DEF PanelSpec

-----------------------------------------------------------------------------
(* The window.                                                             *)

WindowMore ==
  /\ row = visible /\ core \in Buffers \cup {NoBuffer}
  /\ unread \in [Buffers -> 0..MaxUnread] /\ clicks \in 0..MaxClicks

LEMMA ShowKeepsTypes ==
  ASSUME WindowMore, NEW b \in Buffers \cup {NoBuffer}, NEW added, Show(b, added)
  PROVE  row' = visible' /\ core' \in Buffers \cup {NoBuffer} /\ unread' \in [Buffers -> 0..MaxUnread]
BY WindowAssumption DEF WindowMore, Show, CutOver, Seen

LEMMA ClosedKeepsTypes ==
  ASSUME WindowMore, AgreeInv, NEW b \in Live, Closed(b)
  PROVE  row' = visible' /\ core' \in Buffers \cup {NoBuffer} /\ unread' \in [Buffers -> 0..MaxUnread]
<1>1. CASE visible # b
  BY <1>1 DEF Closed, WindowMore
<1>2. CASE visible = b
  <2>1. PICK left : left = RowRemoved(b) /\ left \in Seq(Buffers)
    BY RowRemovedTyped DEF AgreeInv
  <2>2. Show(IF left = <<>> THEN NoBuffer ELSE Head(left), FALSE)
    BY <1>2, <2>1 DEF Closed
  <2>3. (IF left = <<>> THEN NoBuffer ELSE Head(left)) \in Buffers \cup {NoBuffer}
    BY <2>1
  <2> QED BY <2>2, <2>3, ShowKeepsTypes
<1> QED BY <1>1, <1>2

LEMMA WindowMoreKept == WindowMore /\ AgreeInv /\ [WindowNext]_windowVars => WindowMore'
<1> SUFFICES ASSUME WindowMore, AgreeInv, [WindowNext]_windowVars PROVE WindowMore'
  OBVIOUS
<1> DEFINE Shows == /\ row' = visible' /\ core' \in Buffers \cup {NoBuffer}
                    /\ unread' \in [Buffers -> 0..MaxUnread]
<1>0. Live \subseteq Buffers
  BY DEF AgreeInv, Live, ToSet
<1>1. ASSUME NEW b \in Buffers, OpenBuffer(b) PROVE WindowMore'
  <2>1. Shows
    BY <1>1, ShowKeepsTypes DEF OpenBuffer, Opened
  <2> QED BY <1>1, <2>1 DEF OpenBuffer, WindowMore
<1>2. ASSUME NEW b \in Buffers, CloseBuffer(b) PROVE WindowMore'
  <2>1. Shows
    BY <1>2, ClosedKeepsTypes DEF CloseBuffer
  <2> QED BY <1>2, <2>1 DEF CloseBuffer, WindowMore
<1>3. ASSUME NEW b \in Buffers, SelectRow(b) PROVE WindowMore'
  <2>1. Shows
    BY <1>3, ShowKeepsTypes DEF SelectRow
  <2> QED BY <1>3, <2>1 DEF SelectRow, WindowMore
<1>4. ASSUME NEW b \in Buffers, AddMessage(b) PROVE WindowMore'
  BY <1>0, <1>4, WindowAssumption DEF AddMessage, Seen, MoreUnread, WindowMore
<1>5. ASSUME NEW b \in Buffers, TickOpen(b) PROVE WindowMore'
  <2>1. Shows
    BY <1>5, ShowKeepsTypes DEF TickOpen, Opened
  <2> QED BY <1>5, <2>1 DEF TickOpen, SendFirst, WindowMore
<1>6. CASE TickClose
  <2>1. visible \in Live /\ Closed(visible)
    BY <1>6 DEF TickClose, SendFirst, TickDue, AgreeInv
  <2>2. Shows
    BY <2>1, ClosedKeepsTypes
  <2> QED BY <1>6, <2>2 DEF TickClose, SendFirst, WindowMore
<1>7. CASE Click
  BY <1>7, WindowAssumption DEF Click, WindowMore
<1>8. CASE \/ \E kind \in LineKinds : TypeLine(kind)
           \/ TickEmpty \/ TickWait \/ WaitEnds
           \/ \E ok \in BOOLEAN : TickText(ok)
  BY <1>8 DEF TypeLine, TickEmpty, TickWait, WaitEnds, TickText, SendFirst, WindowMore
<1>9. CASE UNCHANGED windowVars
  BY <1>9 DEF windowVars, WindowMore
<1> QED BY <1>1, <1>2, <1>3, <1>4, <1>5, <1>6, <1>7, <1>8, <1>9 DEF WindowNext

(* The window shows one of its buffers or none, and no count of unread     *)
(* messages, no timer and no line is of another kind than its widgets      *)
(* (sui_window.c, sui_side_bar.c, sui_buffer.c).                           *)
THEOREM WindowTypeCorrect == WindowSpec => []WindowTypeOK
<1>1. WindowInit => WindowMore
  BY WindowAssumption DEF WindowInit, WindowMore
<1>2. WindowMore /\ AgreeInv /\ SendInv => WindowTypeOK
  <2> SUFFICES ASSUME WindowMore, AgreeInv, SendInv PROVE WindowTypeOK
    OBVIOUS
  <2>1. Live \subseteq Buffers /\ visible \in Live \cup {NoBuffer}
    BY DEF AgreeInv, Live, ToSet
  <2>2. timer \in 0..clicks /\ clicks \in 0..MaxClicks
    BY WindowAssumption DEF WindowMore, SendInv, TimerInv
  <2>3. ASSUME NEW b \in Buffers, NEW i \in DOMAIN input[b] PROVE input[b][i].kind \in LineKinds
    <3>1. input[b] \in Seq(TypedLines)
      BY DEF SendInv, InputTyped
    <3>2. input[b][i] \in TypedLines
      BY <3>1
    <3> QED BY <3>2 DEF TypedLines
  <2> QED BY <2>1, <2>2, <2>3 DEF WindowMore, WindowTypeOK
<1> QED BY <1>1, <1>2, WindowMoreKept, WindowInvariance, PTL DEF WindowSpec

-----------------------------------------------------------------------------
(* The URL previewer, the user list and the commands.                      *)

(* The previewer is always on one of its pages, waits for one callback at  *)
(* most and keeps the type it read.                                        *)
THEOREM PreviewTypeCorrect == PreviewSpec => []PreviewTypeOK
BY PreviewInvariance, PreviewInvImplies, PTL

(* The users of the list are of the chat, each with one rank, and their    *)
(* number is never negative.                                               *)
THEOREM UserListTypeCorrect == UserListSpec => []UserListTypeOK
<1>1. RankInv => UserListTypeOK
  <2> SUFFICES ASSUME RankInv PROVE UserListTypeOK
    OBVIOUS
  <2>1. /\ rank \in [Participants -> Ranks] /\ rowRank \in [Participants -> Ranks]
        /\ inList \subseteq Participants /\ stat["total"] = Cardinality(inList)
    BY DEF RankInv, SoundList, Lists, Counts, List
  <2>2. Cardinality(inList) \in Nat
    BY <2>1, ParticipantsAssumption, FS_Subset, FS_CardinalityType
  <2> QED BY <2>1, <2>2 DEF UserListTypeOK
<1> QED BY <1>1, RankInvariance, PTL

LEMMA ParseGivesResult == ASSUME NEW l PROVE srn_command_parse(l) # <<>>
<1>1. ASSUME NEW ret, NEW sub, NEW ks, NEW vals, NEW args
      PROVE  [ret |-> ret, sub |-> sub, keys |-> ks, vals |-> vals, args |-> args] # <<>>
  OBVIOUS
<1>2. ASSUME NEW ret PROVE Result(ret) # <<>>
  BY <1>1, Zenon DEF Result
<1>3. ASSUME NEW b, NEW sub, NEW opts, NEW args PROVE ArgumentsParsed(b, sub, opts, args) # <<>>
  BY <1>1, <1>2, Zenon DEF ArgumentsParsed
<1>4. ASSUME NEW b, NEW sub, NEW opts PROVE OptionsParsed(b, sub, opts) # <<>>
  BY <1>2, <1>3, Zenon DEF OptionsParsed
<1>5. ASSUME NEW b, NEW sub, NEW any PROVE SubParsed(b, sub, any) # <<>>
  BY <1>2, <1>4, Zenon DEF SubParsed
<1> QED BY <1>5, Zenon DEF srn_command_parse, ParsedLine

(* Every command that is typed is parsed, and there is a result of no      *)
(* other.                                                                  *)
THEOREM CommandTypeCorrect == CommandSpec => []CommandTypeOK
<1> DEFINE ParsedInv == typedCommand = <<>> => parsed = <<>>
<1>1. CommandInit => ParsedInv
  BY DEF CommandInit
<1>2. ParsedInv /\ [CommandNext]_commandVars => ParsedInv'
  <2> SUFFICES ASSUME ParsedInv, [CommandNext]_commandVars PROVE ParsedInv'
    OBVIOUS
  <2>1. CASE TypeCommand
    <3>1. PICK m, bare : typedCommand' = [cmd |-> m, bare |-> bare]
      BY <2>1, Zenon DEF TypeCommand
    <3>2. [cmd |-> m, bare |-> bare] # <<>>
      OBVIOUS
    <3> QED BY <3>1, <3>2
  <2>2. CASE CommandDone
    BY <2>2 DEF CommandDone
  <2>3. CASE UNCHANGED commandVars
    BY <2>3 DEF commandVars
  <2> QED BY <2>1, <2>2, <2>3 DEF CommandNext
<1>3. CommandInv /\ ParsedInv => CommandTypeOK
  <2> SUFFICES ASSUME CommandInv, ParsedInv, typedCommand # <<>> PROVE parsed # <<>>
    BY DEF CommandTypeOK, CommandInv
  <2>1. PICK l : parsed = srn_command_parse(l)
    BY Zenon DEF CommandInv
  <2> QED BY <2>1, ParseGivesResult, Zenon
<1> QED BY <1>1, <1>2, <1>3, CommandInvariance, PTL DEF CommandSpec

-----------------------------------------------------------------------------
(* The components side by side.                                            *)

(* What a component does while all of them are side by side. *)
OwnSteps ==
  /\ [ReceiveNext]_receiveVars /\ [IncomingNext]_incomingVars /\ [SendingNext]_sendingVars
  /\ [NickNext]_nickVars /\ [MessagesNext]_messageVars /\ [WindowNext]_windowVars
  /\ [InputNext]_inputVars /\ [ConfigNext]_configVars /\ [MircNext]_mircVars
  /\ [PreviewNext]_previewVars /\ [JoinNext]_joinVars /\ [UserListNext]_rankVars
  /\ [CommandNext]_commandVars /\ [PanelNext]_panelVars

LEMMA StepOfOne ==
  ASSUME [ComponentsNext]_componentVars
  PROVE  OwnSteps
<1>1. CASE ReceiveStep
  BY <1>1, Zenon DEF ReceiveStep, Others, OwnSteps
<1>2. CASE IncomingStep
  BY <1>2, Zenon DEF IncomingStep, Others, OwnSteps
<1>3. CASE SendingStep
  BY <1>3, Zenon DEF SendingStep, Others, OwnSteps
<1>4. CASE NickStep
  BY <1>4, Zenon DEF NickStep, Others, OwnSteps
<1>5. CASE MessagesStep
  BY <1>5, Zenon DEF MessagesStep, Others, OwnSteps
<1>6. CASE WindowStep
  BY <1>6, Zenon DEF WindowStep, Others, OwnSteps
<1>7. CASE InputStep
  BY <1>7, Zenon DEF InputStep, Others, OwnSteps
<1>8. CASE ConfigStep
  BY <1>8, Zenon DEF ConfigStep, Others, OwnSteps
<1>9. CASE MircStep
  BY <1>9, Zenon DEF MircStep, Others, OwnSteps
<1>10. CASE PreviewStep
  BY <1>10, Zenon DEF PreviewStep, Others, OwnSteps
<1>11. CASE JoinStep
  BY <1>11, Zenon DEF JoinStep, Others, OwnSteps
<1>12. CASE UserListStep
  BY <1>12, Zenon DEF UserListStep, Others, OwnSteps
<1>13. CASE CommandStep
  BY <1>13, Zenon DEF CommandStep, Others, OwnSteps
<1>14. CASE PanelStep
  BY <1>14, Zenon DEF PanelStep, Others, OwnSteps
<1>15. CASE UNCHANGED componentVars
  BY <1>15 DEF componentVars, OwnSteps
<1> QED
  BY <1>1, <1>2, <1>3, <1>4, <1>5, <1>6, <1>7, <1>8, <1>9, <1>10, <1>11, <1>12, <1>13, <1>14, <1>15, Zenon DEF ComponentsNext

(* Whatever the specification of the components side by side lets happen,  *)
(* each component lets happen by itself: what is proved of one holds there *)
(* as well, and what a run finds of the whole is a behaviour of its code.  *)
THEOREM EachByItself ==
  Spec => /\ ReceiveSpec /\ IncomingSpec /\ SendingSpec /\ NickInit /\ [][NickNext]_nickVars
          /\ MessagesSpec /\ WindowSpec /\ InputSpec /\ ConfigSpec /\ MircSpec
          /\ PreviewSpec /\ JoinSpec /\ UserListSpec /\ CommandSpec /\ PanelSpec
<1>1. ComponentsInit =>
        /\ ReceiveInit /\ IncomingInit /\ SendingInit /\ NickInit /\ MessagesInit
        /\ WindowInit /\ InputInit /\ ConfigInit /\ MircInit /\ PreviewInit /\ JoinInit
        /\ UserListInit /\ CommandInit /\ PanelInit
  BY Zenon DEF ComponentsInit
<1>2. [ComponentsNext]_componentVars =>
        /\ [ReceiveNext]_receiveVars /\ [IncomingNext]_incomingVars /\ [SendingNext]_sendingVars
        /\ [NickNext]_nickVars /\ [MessagesNext]_messageVars /\ [WindowNext]_windowVars
        /\ [InputNext]_inputVars /\ [ConfigNext]_configVars /\ [MircNext]_mircVars
        /\ [PreviewNext]_previewVars /\ [JoinNext]_joinVars /\ [UserListNext]_rankVars
        /\ [CommandNext]_commandVars /\ [PanelNext]_panelVars
  BY StepOfOne, Zenon DEF OwnSteps
<1> QED
  BY <1>1, <1>2, PTL
     DEF Spec, ReceiveSpec, IncomingSpec, SendingSpec, MessagesSpec, WindowSpec, InputSpec,
         ConfigSpec, MircSpec, PreviewSpec, JoinSpec, UserListSpec, CommandSpec, PanelSpec

(* Every component keeps its types when they run side by side, for any     *)
(* values of all their constants.                                          *)
THEOREM ComponentsTypeCorrect == Spec => []TypeOK
<1>1. /\ ReceiveTypeOK /\ IncomingTypeOK /\ SendingTypeOK /\ NickTypeOK
      /\ MessagesTypeOK /\ WindowTypeOK /\ InputTypeOK /\ ConfigTypeOK /\ MircTypeOK
      /\ PreviewTypeOK /\ JoinTypeOK /\ UserListTypeOK /\ CommandTypeOK /\ PanelTypeOK
      => TypeOK
  BY Zenon DEF TypeOK
<1> QED
  BY <1>1, EachByItself, ReceiveTypeCorrect, IncomingTypeCorrect, SendingTypeCorrect, NickTypeCorrect,
     MessagesTypeCorrect, WindowTypeCorrect, InputTypeCorrect, ConfigTypes, MircTypeCorrect,
     PreviewTypeCorrect, JoinTypeCorrect, UserListTypeCorrect, CommandTypeCorrect, PanelTypeCorrect, PTL

(* And what makes each of them correct holds side by side, for any values  *)
(* of the constants: of the receive buffer and the lines, of the messages, *)
(* of the window and its widgets, of the configuration and the commands.   *)
THEOREM ComponentsCorrect ==
  Spec => /\ [](LinesRecover /\ HeardAsMeant /\ HeardAsSent)
          /\ [](IgnoredUnheard /\ LogIsWhatWasShown /\ ShownAsAsked)
          /\ [](CurrentAgrees /\ LateAnswersHarmless /\ ListShown /\ StatisticsAgree)
          /\ [](ConfigsLive /\ AllReloaded /\ ReadAsWritten)
          /\ SentAsAsked /\ InputKept
BY EachByItself, ReceptionRecovers, MeantIsHeard, SentIsHeard, IgnoredStayUnheard, LogKeepsTrack,
   MarkupIsAsAsked, CurrentIsVisible, PreviewLateAnswers, ListIsWhole, StatisticsAddUp,
   UsedConfigsLive, ReloadedMeansAll, CommandsReadAsWritten, LinesSentAsAsked, InputIsKept, PTL
=============================================================================
