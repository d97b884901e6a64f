--------------------------- MODULE InterfaceProofs ---------------------------
(***************************************************************************)
(* What reaches the user and what the user enters: messages, their         *)
(* rendering, the window, its input, and widgets that hold results of      *)
(* earlier calls.                                                          *)
(*                                                                         *)
(* Messages: ignored users stay unheard, and the log is what was shown,    *)
(* for any people, nicks, filters and renderers. The invariant adds what   *)
(* makes IgnoredUnheard inductive: whoever is unwanted is there under a    *)
(* nick of his own, and the user the table has for that nick is the        *)
(* ignored one; and every entry of a chat that was not left behind is of a *)
(* user the table has.                                                     *)
(*                                                                         *)
(* mIRC control characters: the markup is always as asked, for any text    *)
(* and any colours. The invariant says which tags are open after each      *)
(* control on the stack of the renderer, and what was shown of the text    *)
(* so far.                                                                 *)
(*                                                                         *)
(* Window: the row, the core and the visible buffer agree, and a line is   *)
(* sent once and from where the user asked, for any buffers, lines and     *)
(* clicks. SentAsAsked rests on SendInv: a line that was sent and is still *)
(* in its input waits in a call, or was disturbed; and as long as it is    *)
(* not, its input is as the call found it, and no timer but that of the    *)
(* call runs for its buffer.                                               *)
(*                                                                         *)
(* URL previewer: no answer that comes late does harm, however often the   *)
(* user starts and cancels, and whenever the message goes. The invariant   *)
(* of the run is not inductive: that a callback finds the previewer alive  *)
(* rests on the finalizer having cancelled what is under way, and that an  *)
(* image stays on no callback being under way when it is shown.            *)
(*                                                                         *)
(* User list: the counters above it are what its rows add up to, for any   *)
(* finite set of users. Beside StatisticsAgree the invariant says that     *)
(* whoever has no row is remembered without a rank: else adding his row    *)
(* would take him off a counter he was never counted in.                   *)
(*                                                                         *)
(* Join panel: the list is whole whenever it does not say that it loads.   *)
(* The invariant places every line under way in an answer: the next one is *)
(* of a row only while rows are added, and those so far are the rows       *)
(* before it.                                                              *)
(*                                                                         *)
(* Input: the history is what was sent, and completion only completes      *)
(* names. InputInv says where the draft is while the history is browsed,   *)
(* and that all the offers of a list begin like one and the same word, the *)
(* one that the offer last inserted began like: so any of them can take    *)
(* its place.                                                              *)
(***************************************************************************)
EXTENDS Messages, MircColors, Window, UrlPreview, UserList, JoinPanel, InputLine,
        SequenceLemmas, FiniteSetTheorems, SequenceTheorems, TLAPS

-----------------------------------------------------------------------------
(* Messages.                                                               *)

UserType == [ignored : BOOLEAN, render : SUBSET {"r"}]

PeopleInv ==
  /\ nickOf \in [People -> Nicks]
  /\ Me \in online /\ online \subseteq People /\ seen \subseteq online
  /\ \A p, q \in online : nickOf[p] = nickOf[q] => p = q

TableInv ==
  /\ userTable \in [DOMAIN userTable -> UserType]
  /\ \A p \in seen : nickOf[p] \in DOMAIN userTable

EntryType == [nick : Nicks, left : BOOLEAN, user : UserType]
EntriesInv ==
  /\ entries \in [chats -> Seq(EntryType)]
  /\ \A c \in chats : \A i \in DOMAIN entries[c] :
       ~entries[c][i].left => entries[c][i].nick \in DOMAIN userTable

UnwantedInv ==
  /\ unwanted \subseteq online \ {Me}
  /\ \A p \in unwanted : nickOf[p] \in DOMAIN userTable /\ userTable[nickOf[p]].ignored

ChatsInv ==
  /\ SrvChat \in chats /\ chats \subseteq {SrvChat, Channel} \cup Nicks
  /\ filterOn \subseteq chats \X Patterns

MsgInv ==
  /\ PeopleInv /\ TableInv /\ EntriesInv /\ UnwantedInv /\ ChatsInv
  /\ IgnoredUnheard /\ LogIsWhatWasShown

LEMMA MsgInvImplies == MsgInv => MessagesTypeOK
<1> SUFFICES ASSUME MsgInv PROVE MessagesTypeOK
  OBVIOUS
<1>1. \A c \in chats : \A e \in Range(entries[c]) : ~e.left => e.nick \in DOMAIN userTable
  BY DEF MsgInv, EntriesInv, Range
<1>2. DOMAIN entries = chats
  BY DEF MsgInv, EntriesInv
<1> QED
  BY <1>1, <1>2 DEF MsgInv, PeopleInv, TableInv, ChatsInv, MessagesTypeOK, UserType

-----------------------------------------------------------------------------
(* Routes, and what comes of a message.                                    *)

(* The kinds of messages that a user's event becomes: each goes through    *)
(* user_filter, but for the topic, which is no message.                    *)
UserEventKinds == {"recv", "notice", "action", "miscWith", "errorWith", "topic"}

LEMMA UserTableKinds ==
  \A t \in UserTables : \A e \in DOMAIN t \ {"umode", "unaway"} : \A i \in DOMAIN t[e].kinds :
    t[e].kinds[i] \in UserEventKinds
BY DEF UserTables, TalkRoutes, NoticeRoutes, CtcpRoutes, ModeRoutes, AwayRoutes, Route, UserEventKinds

(* The tables of the server have other events. *)
LEMMA TablesApart ==
  \A t \in ServerTables : \A e \in UserEvents : e \notin DOMAIN t
BY DEF ServerTables, ReplyRoutes, TopicRoutes, NumericRoutes, UserEvents, TalkRoutes,
       NoticeRoutes, CtcpRoutes, Route

LEMMA UserEventRoute ==
  ASSUME NEW e \in UserEvents
  PROVE  \A i \in DOMAIN Routes[e].kinds : Routes[e].kinds[i] \in UserEventKinds
<1>1. \E t \in UserTables : e \in DOMAIN t
  BY DEF UserEvents, UserTables, ModeRoutes, AwayRoutes
<1>2. e \notin {"umode", "unaway"}
  BY DEF UserEvents, TalkRoutes, NoticeRoutes, CtcpRoutes
<1> DEFINE table == CHOOSE t \in Tables : e \in DOMAIN t
<1>3. table \in Tables /\ e \in DOMAIN table
  BY <1>1 DEF Tables
<1>4. table \in UserTables
  BY <1>3, TablesApart DEF Tables
<1>5. Routes[e] = table[e]
  BY DEF Routes
<1> QED BY <1>2, <1>3, <1>4, <1>5, UserTableKinds

LEMMA FilterOrder ==
  /\ DOMAIN Filters = 1..3 /\ Len(Filters) = 3
  /\ Filters[1] = "user" /\ Filters[2] = "pattern" /\ Filters[3] = "log"
BY DEF Filters

(* log_filter is the last, and lets everything pass. *)
LEMMA LogIsLast ==
  ASSUME NEW kind, NEW mine, NEW user, NEW chat, NEW c
  PROVE  Logs(kind, mine, user, chat, c)
           <=> "log" \in FilterFlags(kind, mine) /\ Passes(kind, mine, user, chat, c, Len(Filters))
<1>1. ASSUME NEW at \in DOMAIN Filters, Filters[at] = "log" PROVE at = 3
  <2>1. at \in 1..3 /\ at # 1 /\ at # 2
    BY <1>1, FilterOrder
  <2> QED BY <2>1
<1>2. Logs(kind, mine, user, chat, c)
        <=> "log" \in FilterFlags(kind, mine) /\ Passes(kind, mine, user, chat, c, 3 - 1)
  <2>1. 3 \in DOMAIN Filters /\ Filters[3] = "log"
    BY FilterOrder
  <2> QED BY <1>1, <2>1 DEF Logs
<1>3. Lets("log", user, chat, c)
  BY DEF Lets
<1>4. Passes(kind, mine, user, chat, c, 3) <=> Passes(kind, mine, user, chat, c, 2)
  <2>1. 1..3 = (1..2) \cup {3}
    OBVIOUS
  <2> QED BY <2>1, <1>3, FilterOrder DEF Passes
<1>5. 3 - 1 = 2
  OBVIOUS
<1> QED BY <1>2, <1>4, <1>5, FilterOrder

(* No message of an ignored user goes anywhere: user_filter stops it.      *)
LEMMA IgnoredGoesNowhere ==
  ASSUME NEW p, p # Me, NEW kind \in UserEventKinds, kind # "topic", NEW user, user.ignored,
         NEW namesake, NEW chat, NEW c
  PROVE  LET o == Outcome(p, kind, user, namesake, chat, c)
         IN  ~o.shown /\ ~o.logged /\ ~o.notified
<1> DEFINE mine == p = Me
           text == Rendered(kind, mine, c, user)
<1>1. ~mine
  OBVIOUS
<1>2. "user" \in FilterFlags(kind, mine)
  BY <1>1 DEF FilterFlags, UserEventKinds
<1>3. ~Lets("user", user, chat, text)
  BY DEF Lets
<1>4. ~Passes(kind, mine, user, chat, text, Len(Filters))
  <2>1. 1 \in 1..Len(Filters)
    BY FilterOrder
  <2> HIDE DEF mine, text
  <2> QED BY <1>2, <1>3, <2>1, FilterOrder DEF Passes
<1>5. ~Logs(kind, mine, user, chat, text)
  <2> HIDE DEF mine, text
  <2> QED BY <1>4, LogIsLast
<1> QED BY <1>4, <1>5 DEF Outcome

(* What is logged is what is shown. *)
LEMMA LoggedIsShown ==
  ASSUME NEW who, NEW kind, NEW user, NEW namesake, NEW chat, NEW c
  PROVE  LET o == Outcome(who, kind, user, namesake, chat, c)
         IN  o.kind \in UserKinds => o.logged = o.shown
<1> SUFFICES ASSUME kind \in UserKinds
             PROVE  LET o == Outcome(who, kind, user, namesake, chat, c) IN o.logged = o.shown
  BY DEF Outcome
<1> DEFINE mine == who = Me
           text == Rendered(kind, mine, c, user)
           shown == Passes(kind, mine, user, chat, text, Len(Filters))
<1>1. "log" \in FilterFlags(kind, mine)
  BY DEF UserKinds, FilterFlags
<1>2. Logs(kind, mine, user, chat, text) <=> shown
  BY <1>1, LogIsLast
<1>3. /\ Outcome(who, kind, user, namesake, chat, c).shown = shown
      /\ Outcome(who, kind, user, namesake, chat, c).logged = Logs(kind, mine, user, chat, text)
  BY DEF Outcome
<1>4. Logs(kind, mine, user, chat, text) = shown
  BY <1>2, Zenon DEF Logs, Passes
<1> QED BY <1>3, <1>4

-----------------------------------------------------------------------------
(* Where events are shown.                                                 *)

ShownPlaces == {"server", "current", "channel", "channelOrServer", "channelOrDialog",
           "dialog", "dialogOrServer", "origin"}
DialogPlaces == {"dialog", "channelOrDialog"}

LEMMA UserTablePlaces ==
  \A t \in UserTables : \A e \in DOMAIN t :
    /\ t[e].to \in ShownPlaces
    /\ e \in {"mode", "topic", "umode", "unaway"} => t[e].to \notin DialogPlaces
BY DEF UserTables, TalkRoutes, NoticeRoutes, CtcpRoutes, ModeRoutes, AwayRoutes, Route,
       ShownPlaces, DialogPlaces

LEMMA ServerTablePlaces ==
  \A t \in ServerTables : \A e \in DOMAIN t : t[e].to \in ShownPlaces \ DialogPlaces
BY DEF ServerTables, ReplyRoutes, TopicRoutes, NumericRoutes, Route, ErrorRoute, GreetingRoute,
       ChannelErrorRoute, NumericErrorRoute, WhoisRoute, BanRoute, ShownPlaces, DialogPlaces

LEMMA ServerTableEvents ==
  \A s \in ServerTables, t \in UserTables : DOMAIN s \cap DOMAIN t = {}
BY DEF ServerTables, ReplyRoutes, TopicRoutes, NumericRoutes, UserTables, TalkRoutes,
       NoticeRoutes, CtcpRoutes, ModeRoutes, AwayRoutes

LEMMA RoutePlaces ==
  ASSUME NEW e \in UserEvents \cup ServerEvents
  PROVE  /\ Routes[e].to \in ShownPlaces
         /\ e \in ServerEvents => Routes[e].to \notin DialogPlaces
<1>0. e \in ServerEvents =>
        \/ e \in {"mode", "topic", "umode", "unaway"}
        \/ \E s \in ServerTables : e \in DOMAIN s
  BY DEF ServerEvents, ServerTables
<1>1. \E t \in Tables : e \in DOMAIN t
  <2>1. e \in UserEvents \cup {"mode", "topic", "umode", "unaway"} => \E t \in UserTables : e \in DOMAIN t
    BY DEF UserEvents, UserTables, ModeRoutes, AwayRoutes
  <2> QED BY <1>0, <2>1 DEF Tables
<1> DEFINE table == CHOOSE t \in Tables : e \in DOMAIN t
<1>2. table \in Tables /\ e \in DOMAIN table
  BY <1>1
<1>3. Routes[e] = table[e]
  BY DEF Routes
<1> HIDE DEF table
<1>4. CASE table \in ServerTables
  BY <1>2, <1>3, <1>4, ServerTablePlaces
<1>5. CASE table \in UserTables
  <2>1. e \in ServerEvents => e \in {"mode", "topic", "umode", "unaway"}
    BY <1>0, <1>2, <1>5, ServerTableEvents
  <2> QED BY <2>1, <1>2, <1>3, <1>5, UserTablePlaces
<1> QED BY <1>2, <1>4, <1>5 DEF Tables

LEMMA ChatForTyped ==
  ASSUME ChatsInv, NEW to \in ShownPlaces, NEW origin, NEW current \in chats,
         origin \in Nicks \/ to \notin DialogPlaces
  PROVE  ChatFor(to, origin, current) \in {SrvChat, Channel, NoChat} \cup Nicks
BY DEF ChatsInv, ChatFor, ShownPlaces, DialogPlaces

-----------------------------------------------------------------------------
(* The steps.                                                              *)

LEMMA QuietIsHarmless ==
  ASSUME delivered' = Nothing
  PROVE  IgnoredUnheard' /\ LogIsWhatWasShown'
BY DEF Nothing, IgnoredUnheard, LogIsWhatWasShown, UserKinds

LEMMA InitInv == MessagesInit => MsgInv
<1> SUFFICES ASSUME MessagesInit PROVE MsgInv
  OBVIOUS
<1>1. nickOf \in Injection(People, Nicks)
  BY MessagesAssumption DEF MessagesInit
<1>2. PeopleInv
  BY <1>1, MessagesAssumption DEF MessagesInit, PeopleInv, Injection, IsInjective
<1>3. TableInv
  BY DEF MessagesInit, TableInv, UserType, NewUser
<1>4. UnwantedInv /\ ChatsInv /\ EntriesInv
  BY DEF MessagesInit, UnwantedInv, ChatsInv, EntriesInv
<1>5. IgnoredUnheard /\ LogIsWhatWasShown
  BY DEF MessagesInit, Nothing, IgnoredUnheard, LogIsWhatWasShown, UserKinds
<1> QED BY <1>2, <1>3, <1>4, <1>5 DEF MsgInv

(* srn_server_add_user leaves the users it has as they are. *)
LEMMA AddUserKeeps ==
  ASSUME TableInv, NEW nick, AddUser(nick)
  PROVE  /\ userTable' \in [DOMAIN userTable' -> UserType]
         /\ nick \in DOMAIN userTable'
         /\ \A k \in DOMAIN userTable : k \in DOMAIN userTable' /\ userTable'[k] = userTable[k]
<1>1. NewUser \in UserType
  BY DEF NewUser, UserType
<1> QED BY <1>1 DEF TableInv, AddUser

LEMMA EntryTyped == ASSUME NEW nick \in Nicks PROVE Entry(nick) \in EntryType /\ Entry(nick).nick = nick
BY DEF Entry, EntryType, UserType, NewUser

(* srn_chat_add_user: entries are added behind the others. *)
LEMMA AddEntryKeeps ==
  ASSUME EntriesInv, ChatsInv, TableInv, NEW chat, NEW nick \in Nicks, AddUser(nick), AddEntry(chat, nick)
  PROVE  EntriesInv'
<1>1. /\ nick \in DOMAIN userTable' /\ \A k \in DOMAIN userTable : k \in DOMAIN userTable'
      /\ chats' = chats \cup {chat}
      /\ entries' = [c \in chats' |-> IF c = chat THEN WithUser(ListOf(chat), nick) ELSE entries[c]]
  BY AddUserKeeps DEF AddEntry
<1>2. Entry(nick) \in EntryType /\ Entry(nick).nick = nick
  BY EntryTyped
<1> DEFINE Sound(list) == /\ list \in Seq(EntryType)
                          /\ \A i \in DOMAIN list : ~list[i].left => list[i].nick \in DOMAIN userTable'
<1>3. \A c \in chats : Sound(entries[c])
  BY <1>1 DEF EntriesInv
<1>4. Sound(ListOf(chat))
  BY <1>3 DEF ListOf
<1>5. ASSUME NEW list, Sound(list) PROVE Sound(WithUser(list, nick))
  <2>1. CASE Entry(nick) \in Range(list)
    BY <1>5, <2>1 DEF WithUser
  <2>2. CASE Entry(nick) \notin Range(list)
    <3>1. PICK new : new = Append(list, Entry(nick))
      OBVIOUS
    <3>2. /\ new \in Seq(EntryType) /\ DOMAIN new = 1..Len(list) + 1
          /\ \A i \in 1..Len(list) : new[i] = list[i]
          /\ new[Len(list) + 1] = Entry(nick)
      BY <1>2, <1>5, <3>1, AppendProperties
    <3>3. ASSUME NEW i \in DOMAIN new, ~new[i].left PROVE new[i].nick \in DOMAIN userTable'
      <4>1. i \in DOMAIN list \/ i = Len(list) + 1
        BY <1>5, <3>2, LenProperties
      <4>2. CASE i \in DOMAIN list
        BY <1>5, <3>2, <3>3, <4>2, LenProperties
      <4> QED BY <1>1, <1>2, <3>2, <4>1, <4>2
    <3> QED BY <2>2, <3>1, <3>2, <3>3 DEF WithUser
  <2> QED BY <2>1, <2>2
<1>6. \A c \in chats' : Sound(entries'[c])
  BY <1>1, <1>3, <1>4, <1>5
<1> HIDE DEF Sound
<1>7. \A c \in chats' : entries'[c] \in Seq(EntryType)
  BY <1>6 DEF Sound
<1>8. \A c \in chats' : \A i \in DOMAIN entries'[c] :
        ~entries'[c][i].left => entries'[c][i].nick \in DOMAIN userTable'
  BY <1>6 DEF Sound
<1> QED BY <1>1, <1>7, <1>8 DEF EntriesInv

LEMMA UserEventStep ==
  ASSUME MsgInv, NEW p \in People, NEW e \in UserEvents, NEW c, OnUserEvent(p, e, c)
  PROVE  MsgInv'
<1> DEFINE r == Routes[e]
           nick == nickOf[p]
           chat == ChatFor(r.to, nick, SrvChat)
           sender == Found(WithUser(ListOf(chat), nick), nick)
           user == IF sender.left THEN sender.user ELSE Known(nick)
<1>1. /\ p # Me /\ chat # NoChat /\ AddUser(nick) /\ AddEntry(chat, nick)
      /\ \E i \in DOMAIN r.kinds : delivered' = Outcome(p, r.kinds[i], user, sender.left, chat, c)
      /\ UNCHANGED <<nickOf, online, seen, patterns, filterOn, unwanted>>
  BY DEF OnUserEvent, Handled
<1>2. PICK i \in DOMAIN r.kinds : delivered' = Outcome(p, r.kinds[i], user, sender.left, chat, c)
  BY <1>1
<1>3. nick \in Nicks /\ r.to \in ShownPlaces /\ SrvChat \in chats
  BY RoutePlaces DEF MsgInv, PeopleInv, ChatsInv
<1>4. chat \in {SrvChat, Channel} \cup Nicks
  BY <1>1, <1>3, ChatForTyped DEF MsgInv, ChatsInv
<1> HIDE DEF r, nick, chat, user, sender
<1>5. PeopleInv' /\ TableInv' /\ UnwantedInv'
  BY <1>1, <1>3, AddUserKeeps DEF MsgInv, PeopleInv, TableInv, UnwantedInv
<1>6. ChatsInv'
  BY <1>1, <1>4 DEF MsgInv, ChatsInv, AddEntry
<1>7. EntriesInv'
  BY <1>1, <1>3, AddEntryKeeps DEF MsgInv
<1>8. LogIsWhatWasShown'
  BY <1>2, LoggedIsShown DEF LogIsWhatWasShown
<1>9. IgnoredUnheard'
  <2>1. /\ delivered'.who = p /\ delivered'.kind = r.kinds[i]
        /\ delivered'.namesake = sender.left
    BY <1>2 DEF Outcome
  <2>2. CASE p \in unwanted /\ ~sender.left /\ r.kinds[i] # "topic"
    <3>1. user.ignored
      BY <2>2 DEF MsgInv, UnwantedInv, Known, user, nick
    <3>2. r.kinds[i] \in UserEventKinds
      BY UserEventRoute DEF r
    <3> QED BY <1>1, <1>2, <2>2, <3>1, <3>2, IgnoredGoesNowhere DEF IgnoredUnheard
  <2> QED BY <1>1, <2>1, <2>2 DEF IgnoredUnheard
<1> QED BY <1>5, <1>6, <1>7, <1>8, <1>9 DEF MsgInv

(* What a message leaves alone. *)
LEMMA SaidStep ==
  ASSUME MsgInv, NEW who, who \notin unwanted, NEW kind, NEW user, NEW chat, NEW c,
         delivered' = Outcome(who, kind, user, FALSE, chat, c),
         UNCHANGED <<nickOf, online, seen, userTable, chats, entries, patterns, filterOn, unwanted>>
  PROVE  MsgInv'
<1>1. LogIsWhatWasShown'
  BY LoggedIsShown DEF LogIsWhatWasShown
<1>2. IgnoredUnheard'
  <2>1. delivered'.who = who
    BY DEF Outcome
  <2> QED BY <2>1 DEF IgnoredUnheard
<1>3. PeopleInv' /\ TableInv' /\ EntriesInv' /\ UnwantedInv' /\ ChatsInv'
  BY DEF MsgInv, PeopleInv, TableInv, EntriesInv, UnwantedInv, ChatsInv
<1> QED BY <1>1, <1>2, <1>3 DEF MsgInv

LEMMA ServerEventStep ==
  ASSUME MsgInv, NEW e \in ServerEvents, NEW c, OnServerEvent(e, c)
  PROVE  MsgInv'
<1>1. PICK kind, chat : delivered' = Outcome(Server, kind, Known(Server), FALSE, chat, c)
  BY DEF OnServerEvent
<1>2. Server \notin unwanted
  BY MessagesAssumption DEF MsgInv, PeopleInv, UnwantedInv
<1>3. UNCHANGED <<nickOf, online, seen, userTable, chats, entries, patterns, filterOn, unwanted>>
  BY DEF OnServerEvent
<1> QED BY <1>1, <1>2, <1>3, SaidStep

(* The client's own messages are never an ignored user's. *)
LEMMA OnMeStep ==
  ASSUME MsgInv, NEW c, OnMe(c)
  PROVE  MsgInv'
<1>1. PICK chat, kind : delivered' = Outcome(Me, kind, Known(nickOf[Me]), FALSE, chat, c)
  BY DEF OnMe
<1>2. Me \notin unwanted
  BY DEF MsgInv, UnwantedInv
<1>3. UNCHANGED <<nickOf, online, seen, userTable, chats, entries, patterns, filterOn, unwanted>>
  BY DEF OnMe
<1> QED BY <1>1, <1>2, <1>3, SaidStep

LEMMA LookStep == MsgInv /\ Look => MsgInv'
<1> SUFFICES ASSUME MsgInv, Look PROVE MsgInv'
  OBVIOUS
<1>1. PeopleInv' /\ TableInv' /\ EntriesInv' /\ UnwantedInv' /\ ChatsInv'
  BY DEF Look, MsgInv, PeopleInv, TableInv, EntriesInv, UnwantedInv, ChatsInv
<1> QED BY <1>1, QuietIsHarmless DEF Look, MsgInv

(* The entries of a renamed user move with it; those of a user it takes    *)
(* the place of are left.                                                  *)
LEMMA RenamedEntriesSound ==
  ASSUME EntriesInv, TableInv, NEW old \in DOMAIN userTable, NEW new \in Nicks, old # new,
         userTable' = Renamed(old, new), entries' = RenamedEntries(old, new), UNCHANGED chats
  PROVE  EntriesInv'
<1>1. new \in DOMAIN userTable' /\ DOMAIN userTable \ {old} \subseteq DOMAIN userTable'
  BY DEF Renamed
<1>2. ASSUME NEW c \in chats
      PROVE  /\ entries'[c] \in Seq(EntryType)
             /\ \A i \in DOMAIN entries'[c] :
                  ~entries'[c][i].left => entries'[c][i].nick \in DOMAIN userTable'
  <2>1. PICK list \in Seq(EntryType) : list = entries[c]
    BY DEF EntriesInv
  <2>2. entries'[c] = [i \in DOMAIN list |-> RenamedEntry(list[i], old, new)]
    BY <2>1 DEF RenamedEntries
  <2>3. ASSUME NEW i \in DOMAIN list
        PROVE  /\ RenamedEntry(list[i], old, new) \in EntryType
               /\ ~RenamedEntry(list[i], old, new).left
                    => RenamedEntry(list[i], old, new).nick \in DOMAIN userTable'
    <3>1. PICK e \in EntryType : e = list[i]
      BY <2>3, ElementOfSeq, LenProperties
    <3>2. ~e.left => e.nick \in DOMAIN userTable
      BY <2>1, <3>1 DEF EntriesInv
    <3>3. CASE ~e.left /\ e.nick = old
      <4>1. RenamedEntry(e, old, new) = Entry(new)
        BY <3>3 DEF RenamedEntry
      <4>2. Entry(new) \in EntryType /\ Entry(new).nick = new
        BY EntryTyped
      <4> QED BY <1>1, <3>1, <4>1, <4>2
    <3>4. CASE ~e.left /\ e.nick # old /\ e.nick = new
      <4>1. RenamedEntry(e, old, new) = LeftEntry(new, userTable[new])
        BY <3>4 DEF RenamedEntry
      <4>2. userTable[new] \in UserType
        <5>1. new \in DOMAIN userTable
          BY <3>2, <3>4
        <5> QED BY <5>1 DEF TableInv
      <4>3. LeftEntry(new, userTable[new]) \in EntryType /\ LeftEntry(new, userTable[new]).left
        BY <4>2 DEF LeftEntry, EntryType
      <4> QED BY <3>1, <4>1, <4>3
    <3>5. CASE e.left \/ (e.nick # old /\ e.nick # new)
      <4>1. RenamedEntry(e, old, new) = e
        BY <3>5 DEF RenamedEntry
      <4> QED BY <1>1, <3>1, <3>2, <3>5, <4>1
    <3> QED BY <3>3, <3>4, <3>5
  <2>4. DOMAIN list = 1..Len(list) /\ Len(list) \in Nat
    BY LenProperties
  <2>5. PICK n \in Nat : n = Len(list)
    BY <2>4
  <2>6. PICK to : to = entries'[c]
    OBVIOUS
  <2>7. DOMAIN to = 1..n /\ \A i \in 1..n : to[i] \in EntryType /\ (~to[i].left => to[i].nick \in DOMAIN userTable')
    BY <2>2, <2>3, <2>4, <2>5, <2>6
  <2>8. to \in [1..n -> EntryType]
    <3>1. to = [i \in 1..n |-> to[i]]
      BY <2>2, <2>4, <2>5, <2>6
    <3> QED BY <2>7, <3>1
  <2>9. to \in Seq(EntryType)
    BY <2>8, SeqDef
  <2> QED BY <2>6, <2>7, <2>9
<1> QED
  <2>1. entries' \in [chats -> Seq(EntryType)]
    BY <1>2 DEF RenamedEntries
  <2> QED BY <1>2, <2>1 DEF EntriesInv

(* The user of a renamed nick moves with it, ignored as before. *)
LEMMA RenameStep ==
  ASSUME MsgInv, NEW p \in People, NEW new \in Nicks, Rename(p, new)
  PROVE  MsgInv'
<1>1. /\ p \in online \ {Me} /\ \A q \in online : nickOf[q] # new
      /\ nickOf' = [nickOf EXCEPT ![p] = new]
      /\ userTable' = IF p \in seen THEN Renamed(nickOf[p], new) ELSE userTable
      /\ entries' = IF p \in seen THEN RenamedEntries(nickOf[p], new) ELSE entries
      /\ unwanted' = IF p \in seen THEN unwanted ELSE unwanted \ {p}
      /\ delivered' = Nothing /\ UNCHANGED <<chats, patterns, filterOn, online, seen>>
  BY DEF Rename, Quiet, FreeNicks
<1>2. PeopleInv'
  BY <1>1 DEF MsgInv, PeopleInv
<1>3. ChatsInv'
  BY <1>1 DEF MsgInv, ChatsInv
<1>4. \A q \in online \ {p} : nickOf'[q] = nickOf[q] /\ nickOf[q] # nickOf[p] /\ nickOf[q] # new
  BY <1>1 DEF MsgInv, PeopleInv
<1>5. nickOf'[p] = new
  BY <1>1 DEF MsgInv, PeopleInv
<1>6. ASSUME p \in seen PROVE TableInv' /\ EntriesInv' /\ UnwantedInv'
  <2>1. nickOf[p] \in DOMAIN userTable
    BY <1>6 DEF MsgInv, TableInv
  <2>2. userTable' \in [DOMAIN userTable' -> UserType]
    BY <1>1, <1>6, <2>1 DEF MsgInv, TableInv, Renamed
  <2>3. new \in DOMAIN userTable' /\ userTable'[new] = userTable[nickOf[p]]
    BY <1>1, <1>6 DEF Renamed
  <2>4. ASSUME NEW k \in DOMAIN userTable, k # nickOf[p], k # new
        PROVE  k \in DOMAIN userTable' /\ userTable'[k] = userTable[k]
    BY <1>1, <1>6, <2>4 DEF Renamed
  <2>5. \A q \in seen' : nickOf'[q] \in DOMAIN userTable'
    BY <1>1, <1>4, <1>5, <2>3, <2>4 DEF MsgInv, PeopleInv, TableInv
  <2>6. UnwantedInv'
    BY <1>1, <1>4, <1>5, <1>6, <2>3, <2>4 DEF MsgInv, UnwantedInv
  <2>7. EntriesInv'
    <3>1. nickOf[p] # new
      BY <1>1
    <3> QED BY <1>1, <1>6, <2>1, <3>1, RenamedEntriesSound DEF MsgInv
  <2> QED BY <2>2, <2>5, <2>6, <2>7 DEF TableInv
<1>7. ASSUME p \notin seen PROVE TableInv' /\ EntriesInv' /\ UnwantedInv'
  <2>1. seen' \subseteq online \ {p} /\ userTable' = userTable /\ unwanted' = unwanted \ {p}
    BY <1>1, <1>7 DEF MsgInv, PeopleInv
  <2>2. TableInv'
    BY <1>1, <1>4, <2>1 DEF MsgInv, TableInv
  <2>3. UnwantedInv'
    BY <1>1, <1>4, <2>1 DEF MsgInv, UnwantedInv
  <2>4. EntriesInv'
    BY <1>1, <1>7, <2>1 DEF MsgInv, EntriesInv
  <2> QED BY <2>2, <2>3, <2>4
<1> QED BY <1>1, <1>2, <1>3, <1>6, <1>7, QuietIsHarmless DEF MsgInv

LEMMA ComeStep ==
  ASSUME MsgInv, NEW p \in People, NEW nick \in Nicks, Come(p, nick)
  PROVE  MsgInv'
<1>1. /\ p \notin online /\ \A q \in online : nickOf[q] # nick
      /\ online' = online \cup {p} /\ nickOf' = [nickOf EXCEPT ![p] = nick]
      /\ delivered' = Nothing
      /\ UNCHANGED <<chats, entries, patterns, filterOn, seen, userTable, unwanted>>
  BY DEF Come, Quiet, FreeNicks
<1>2. \A q \in online : nickOf'[q] = nickOf[q]
  BY <1>1 DEF MsgInv, PeopleInv
<1>3. PeopleInv' /\ ChatsInv'
  BY <1>1, <1>2 DEF MsgInv, PeopleInv, ChatsInv
<1>4. TableInv' /\ EntriesInv' /\ UnwantedInv'
  BY <1>1, <1>2 DEF MsgInv, PeopleInv, TableInv, EntriesInv, UnwantedInv
<1> QED BY <1>1, <1>3, <1>4, QuietIsHarmless DEF MsgInv

LEMMA JoinChannelStep ==
  ASSUME MsgInv, NEW p \in People, JoinChannel(p)
  PROVE  MsgInv'
<1>1. /\ p \in online /\ seen' = seen \cup {p} /\ AddUser(nickOf[p]) /\ AddEntry(Channel, nickOf[p])
      /\ delivered' = Nothing
      /\ UNCHANGED <<patterns, filterOn, nickOf, online, unwanted>>
  BY DEF JoinChannel, Quiet
<1>2. PeopleInv' /\ ChatsInv'
  BY <1>1 DEF MsgInv, PeopleInv, ChatsInv, AddEntry
<1>3. TableInv' /\ UnwantedInv'
  BY <1>1, AddUserKeeps DEF MsgInv, TableInv, UnwantedInv
<1>4. EntriesInv'
  <2>1. nickOf[p] \in Nicks
    BY DEF MsgInv, PeopleInv
  <2> QED BY <1>1, <2>1, AddEntryKeeps DEF MsgInv
<1> QED BY <1>1, <1>2, <1>3, <1>4, QuietIsHarmless DEF MsgInv

LEMMA LeaveStep ==
  ASSUME MsgInv, NEW p \in People \ {Me}, NEW net \in BOOLEAN, Leave(p, net)
  PROVE  MsgInv'
<1>1. /\ seen' = seen \ {p}
      /\ online' = IF net THEN online \ {p} ELSE online
      /\ unwanted' = IF net THEN unwanted \ {p} ELSE unwanted
      /\ delivered' = Nothing /\ UNCHANGED <<chats, entries, patterns, filterOn, nickOf, userTable>>
  BY DEF Leave, Quiet
<1>2. PeopleInv' /\ ChatsInv' /\ TableInv' /\ EntriesInv' /\ UnwantedInv'
  BY <1>1 DEF MsgInv, PeopleInv, ChatsInv, TableInv, EntriesInv, UnwantedInv
<1> QED BY <1>1, <1>2, QuietIsHarmless DEF MsgInv

LEMMA KnownTyped == ASSUME TableInv, NEW nick PROVE Known(nick) \in UserType
BY DEF TableInv, Known, NewUser, UserType

LEMMA IgnoreStep ==
  ASSUME MsgInv, NEW nick \in Nicks, nick # nickOf[Me], Ignore(nick)
  PROVE  MsgInv'
<1>1. /\ userTable' = [k \in DOMAIN userTable \cup {nick} |->
                         IF k = nick THEN [Known(nick) EXCEPT !.ignored = TRUE] ELSE userTable[k]]
      /\ unwanted' = unwanted \cup Holders(nick)
      /\ delivered' = Nothing
      /\ UNCHANGED <<nickOf, online, seen, chats, entries, patterns, filterOn>>
  BY DEF Ignore, NoOther
<1>2. Known(nick) \in UserType
  BY KnownTyped DEF MsgInv
<1>3. [Known(nick) EXCEPT !.ignored = TRUE] \in UserType /\ [Known(nick) EXCEPT !.ignored = TRUE].ignored
  BY <1>2 DEF UserType
<1>4. TableInv'
  BY <1>1, <1>3 DEF MsgInv, TableInv
<1>5. UnwantedInv'
  BY <1>1, <1>3 DEF MsgInv, PeopleInv, UnwantedInv, Holders
<1>6. PeopleInv' /\ ChatsInv' /\ EntriesInv'
  BY <1>1 DEF MsgInv, PeopleInv, ChatsInv, EntriesInv
<1> QED BY <1>1, <1>4, <1>5, <1>6, QuietIsHarmless DEF MsgInv

LEMMA UnignoreStep ==
  ASSUME MsgInv, NEW nick \in Nicks, Unignore(nick)
  PROVE  MsgInv'
<1>1. /\ nick \in DOMAIN userTable
      /\ userTable' = [userTable EXCEPT ![nick].ignored = FALSE]
      /\ unwanted' = unwanted \ Holders(nick)
      /\ delivered' = Nothing
      /\ UNCHANGED <<nickOf, online, seen, chats, entries, patterns, filterOn>>
  BY DEF Unignore, NoOther
<1>2. TableInv'
  BY <1>1 DEF MsgInv, TableInv, UserType
<1>3. UnwantedInv'
  <2>1. ASSUME NEW p \in unwanted'
        PROVE  p \in online \ {Me} /\ nickOf[p] \in DOMAIN userTable' /\ userTable'[nickOf[p]].ignored
    <3>1. p \in unwanted /\ nickOf[p] # nick
      BY <1>1, <2>1 DEF MsgInv, UnwantedInv, Holders
    <3> QED BY <1>1, <3>1 DEF MsgInv, TableInv, UnwantedInv
  <2> QED BY <1>1, <2>1 DEF UnwantedInv
<1>4. PeopleInv' /\ ChatsInv' /\ EntriesInv'
  BY <1>1 DEF MsgInv, PeopleInv, ChatsInv, EntriesInv
<1> QED BY <1>1, <1>2, <1>3, <1>4, QuietIsHarmless DEF MsgInv

LEMMA RenderStep ==
  ASSUME MsgInv, NEW nick, Render(nick)
  PROVE  MsgInv'
<1> DEFINE changed == [Known(nick) EXCEPT !.render = RenderAttached(@, "r")]
<1>1. /\ userTable' = [k \in DOMAIN userTable \cup {nick} |->
                         IF k # nick THEN userTable[k] ELSE changed]
      /\ delivered' = Nothing
      /\ UNCHANGED <<nickOf, online, seen, chats, entries, patterns, filterOn, unwanted>>
  BY DEF Render, NoOther
<1>2. changed \in UserType /\ changed.ignored = Known(nick).ignored
  BY KnownTyped DEF MsgInv, UserType, RenderAttached
<1> HIDE DEF changed
<1>3. TableInv'
  BY <1>1, <1>2 DEF MsgInv, TableInv
<1>4. UnwantedInv'
  BY <1>1, <1>2 DEF MsgInv, UnwantedInv, Known
<1>5. PeopleInv' /\ ChatsInv' /\ EntriesInv'
  BY <1>1 DEF MsgInv, PeopleInv, ChatsInv, EntriesInv
<1> QED BY <1>1, <1>3, <1>4, <1>5, QuietIsHarmless DEF MsgInv

LEMMA PatternStep ==
  ASSUME MsgInv, NEW p \in Patterns, Pattern(p) \/ \E chat : Filter(chat, p)
  PROVE  MsgInv'
<1>1. /\ delivered' = Nothing
      /\ UNCHANGED <<nickOf, online, seen, chats, entries, userTable, unwanted>>
  BY DEF Pattern, Filter, NoOther
<1>2. filterOn' \subseteq chats \X Patterns
  <2>1. CASE Pattern(p)
    BY <2>1 DEF Pattern, NoOther, MsgInv, ChatsInv
  <2>2. ASSUME NEW chat, Filter(chat, p)
        PROVE  filterOn' \subseteq chats \X Patterns
    <3>1. chat \in chats /\ <<chat, p>> \in chats \X Patterns
      BY <2>2 DEF Filter
    <3> QED BY <2>2, <3>1 DEF Filter, Attached, MsgInv, ChatsInv
  <2> QED BY <2>1, <2>2
<1>3. PeopleInv' /\ TableInv' /\ EntriesInv' /\ UnwantedInv' /\ ChatsInv'
  BY <1>1, <1>2 DEF MsgInv, PeopleInv, TableInv, EntriesInv, UnwantedInv, ChatsInv
<1> QED BY <1>1, <1>3, QuietIsHarmless DEF MsgInv

LEMMA MsgInvKept == MsgInv /\ [MessagesNext]_messageVars => MsgInv'
<1> SUFFICES ASSUME MsgInv, [MessagesNext]_messageVars PROVE MsgInv'
  OBVIOUS
<1>1. CASE \E c \in Contents, p \in People, e \in UserEvents : OnUserEvent(p, e, c)
  BY <1>1, UserEventStep
<1>2. CASE \E c \in Contents, e \in ServerEvents : OnServerEvent(e, c)
  BY <1>2, ServerEventStep
<1>3. CASE \E c \in Contents : OnMe(c)
  BY <1>3, OnMeStep
<1>4. CASE \E p \in People \ {Me}, n \in Nicks : Rename(p, n) \/ Come(p, n)
  BY <1>4, RenameStep, ComeStep
<1>5. CASE \E p \in People \ {Me} : JoinChannel(p) \/ \E net \in BOOLEAN : Leave(p, net)
  BY <1>5, JoinChannelStep, LeaveStep
<1>6. CASE \/ \E n \in MarkedNicks \ {nickOf[Me]} : Ignore(n)
           \/ \E n \in Nicks \ {nickOf[Me]} : Unignore(n)
  <2>1. MarkedNicks \subseteq Nicks
    BY MessagesAssumption
  <2> QED BY <1>6, <2>1, IgnoreStep, UnignoreStep
<1>7. CASE \E n \in MarkedNicks : Render(n)
  BY <1>7, RenderStep
<1>8. CASE \/ \E p \in Patterns : Pattern(p)
           \/ \E c \in FilterChats : Filter(c, "p")
  BY <1>8, PatternStep DEF Patterns
<1>9. CASE Look
  BY <1>9, LookStep
<1>10. CASE UNCHANGED messageVars
  BY <1>10 DEF messageVars, MsgInv, PeopleInv, TableInv, EntriesInv, UnwantedInv, ChatsInv,
               IgnoredUnheard, LogIsWhatWasShown
<1> QED
  BY <1>1, <1>2, <1>3, <1>4, <1>5, <1>6, <1>7, <1>8, <1>9, <1>10 DEF MessagesNext

-----------------------------------------------------------------------------
(* Who is ignored is there, and the table has him under his nick; whoever  *)
(* the user ignores stays so across everything that others do.             *)
THEOREM MessagesInvariance == MessagesSpec => []MsgInv
<1> QED BY InitInv, MsgInvKept, PTL DEF MessagesSpec

(* The tables of users, chats and filters hold what the handlers and       *)
(* commands of chat_command.c and app_irc_event.c put there.               *)
THEOREM MessagesTypeCorrect == MessagesSpec => []MessagesTypeOK
<1> QED BY MessagesInvariance, MsgInvImplies, PTL

(* Nothing of an ignored user is shown, logged or notified of, for any     *)
(* number of people and nicks, any renames and any filters.                *)
THEOREM IgnoredStayUnheard == MessagesSpec => []IgnoredUnheard
<1>1. MsgInv => IgnoredUnheard
  BY DEF MsgInv
<1> QED BY <1>1, MessagesInvariance, PTL

(* log_filter, being the last, writes what is shown and nothing else.      *)
THEOREM LogKeepsTrack == MessagesSpec => []LogIsWhatWasShown
<1>1. MsgInv => LogIsWhatWasShown
  BY DEF MsgInv
<1> QED BY <1>1, MessagesInvariance, PTL

-----------------------------------------------------------------------------
(* The renderer of mIRC control characters. *)
Inks == Colors \cup {NoColor}
ColorTags == {<<"color">> \o Shown(fg, bg) : fg \in Inks, bg \in Inks}
Tags == {<<ch>> : ch \in Controls} \cup ColorTags
TagOf(ch, tag) == IF ch = "color" THEN tag ELSE <<ch>>
ColorTag(c) == <<"color">> \o Shown(c.fg, c.bg)
Colored(c) == {c.fg, c.bg} \subseteq Inks /\ (c.fg # NoColor \/ c.bg # NoColor)

Contexts == [stack : Seq(Controls), fg : Inks \cup {Invalid}, bg : Inks \cup {Invalid},
             open : Seq(Tags), nested : BOOLEAN]

(* The tags that are open after each of the controls on the stack, from    *)
(* the bottom, when the one for the colour is tag.                         *)
Explains(m, codes, open, tag) ==
  /\ m \in [0..Len(codes) -> Seq(Tags)]
  /\ m[0] = <<>> /\ m[Len(codes)] = open
  /\ \A i \in 1..Len(codes) :
       m[i] = IF codes[i] \in Silent THEN m[i - 1] ELSE Append(m[i - 1], TagOf(codes[i], tag))

Explained(c, tag) == \E m : Explains(m, c.stack, c.open, tag)

LEMMA ControlKinds ==
  /\ Controls = Toggles \cup Silent \cup {"color"}
  /\ \A ch \in Controls : (ch \in Silent \/ ch \in Toggles \/ ch = "color")
  /\ "color" \notin Silent /\ "color" \notin Toggles /\ \A ch \in Silent : ch \notin Toggles
BY DEF Controls, Toggles, Silent

LEMMA ColorTagIs ==
  ASSUME NEW a, NEW b
  PROVE  Len(<<"color">> \o <<a, b>>) = 3 /\ (<<"color">> \o <<a, b>>)[1] = "color"
<1> DEFINE S == {"color", a, b}
<1>1. <<"color">> \in Seq(S) /\ <<a, b>> \in Seq(S) /\ Len(<<"color">>) = 1 /\ Len(<<a, b>>) = 2
  OBVIOUS
<1> DEFINE x == <<"color">>
           y == <<a, b>>
<1>2. x[1] = "color"
  OBVIOUS
<1>3. x \in Seq(S) /\ y \in Seq(S) /\ Len(x) = 1 /\ Len(y) = 2
  BY <1>1
<1> HIDE DEF S, x, y
<1>4. Len(x \o y) = 3 /\ (x \o y)[1] = x[1]
  BY SMTT(30), <1>3, ConcatProperties
<1> QED BY <1>2, <1>4 DEF x, y

LEMMA ColorTagFacts ==
  \A t \in ColorTags : t \in Tags /\ t[1] = "color" /\ \A ch \in Controls : t # <<ch>>
<1> SUFFICES ASSUME NEW t \in ColorTags PROVE t[1] = "color" /\ \A ch \in Controls : t # <<ch>>
  BY DEF Tags
<1>1. PICK fg \in Inks, bg \in Inks : t = <<"color">> \o Shown(fg, bg)
  BY DEF ColorTags
<1>2. PICK a, b : Shown(fg, bg) = <<a, b>>
  BY DEF Shown
<1>3. Len(t) = 3 /\ t[1] = "color"
  BY <1>1, <1>2, ColorTagIs
<1>4. \A ch \in Controls : Len(<<ch>>) = 1
  OBVIOUS
<1> QED BY <1>3, <1>4

LEMMA TagFacts ==
  ASSUME NEW ch \in Controls, NEW tag \in ColorTags
  PROVE  TagOf(ch, tag) \in Tags /\ TagOf(ch, tag)[1] = ch
BY ColorTagFacts DEF TagOf, Tags

-----------------------------------------------------------------------------
(* Folds. *)

LEMMA OpenTyped == \A c \in Contexts, ch \in Controls : OpenTag(c, ch) \in Contexts
<1> SUFFICES ASSUME NEW c \in Contexts, NEW ch \in Controls PROVE OpenTag(c, ch) \in Contexts
  OBVIOUS
<1>1. Append(c.stack, ch) \in Seq(Controls)
  BY AppendProperties DEF Contexts
<1>2. CASE ch \in Silent
  <2>1. OpenTag(c, ch) = [c EXCEPT !.stack = Append(@, ch)]
    BY <1>2, ControlKinds DEF OpenTag
  <2> QED BY <1>1, <2>1 DEF Contexts
<1>3. CASE ch \in Toggles
  <2>1. <<ch>> \in Tags
    BY DEF Tags
  <2>2. Append(c.open, <<ch>>) \in Seq(Tags)
    BY <2>1, AppendProperties DEF Contexts
  <2>3. OpenTag(c, ch) = [c EXCEPT !.stack = Append(@, ch), !.open = Append(@, <<ch>>)]
    BY <1>3, ControlKinds DEF OpenTag
  <2> QED BY <1>1, <2>2, <2>3 DEF Contexts
<1>4. CASE ch = "color"
  <2> DEFINE fg == Valid(c.fg)
             bg == Valid(c.bg)
             d == [c EXCEPT !.fg = fg, !.bg = bg]
  <2>1. fg \in Inks /\ bg \in Inks
    BY DEF Valid, Contexts, Inks
  <2>2. d \in Contexts /\ d.stack = c.stack /\ d.open = c.open
    BY <2>1 DEF Contexts
  <2>3. <<"color">> \o Shown(fg, bg) \in Tags
    BY <2>1 DEF Tags, ColorTags
  <2>4. Append(c.open, <<ch>> \o Shown(fg, bg)) \in Seq(Tags)
    BY <2>3, <1>4, AppendProperties DEF Contexts
  <2>5. OpenTag(c, ch) = IF fg = NoColor /\ bg = NoColor THEN d
                         ELSE [d EXCEPT !.stack = Append(@, ch), !.open = Append(@, <<ch>> \o Shown(fg, bg))]
    BY <1>4, ControlKinds DEF OpenTag
  <2> HIDE DEF fg, bg, d
  <2> QED BY <1>1, <2>2, <2>4, <2>5 DEF Contexts
<1> QED BY <1>2, <1>3, <1>4, ControlKinds

LEMMA CloseTyped == \A c \in Contexts, ch \in Controls : CloseTag(c, ch) \in Contexts
<1> SUFFICES ASSUME NEW c \in Contexts, NEW ch \in Controls, c.open # <<>>
             PROVE  /\ Front(c.open) \in Seq(Tags)
                    /\ (c.nested /\ Last(c.open)[1] = ch) \in BOOLEAN
  BY DEF CloseTag, Contexts
<1>1. Len(c.open) \in Nat /\ \A i \in 1..Len(c.open) : c.open[i] \in Tags
  BY LenProperties, ElementOfSeq DEF Contexts
<1> QED BY <1>1, SubSeqProperties DEF Front

LEMMA OpenFold ==
  ASSUME NEW c \in Contexts, NEW tags \in Seq(Controls)
  PROVE  \E f \in [0..Len(tags) -> Contexts] :
           /\ f[0] = c /\ \A k \in 1..Len(tags) : f[k] = OpenTag(f[k - 1], tags[k])
           /\ f[Len(tags)] = Reopened(c, tags)
<1>0. PICK n \in Nat : n = Len(tags) /\ DOMAIN tags = 1..n /\ \A k \in 1..n : tags[k] \in Controls
  BY LenProperties, ElementOfSeq
<1> DEFINE F == [p \in (1..n) \X Contexts |-> OpenTag(p[2], tags[p[1]])]
           Next(it, s) == IF s = {} THEN c ELSE OpenTag(it[s \ {Max(s)}], tags[Max(s)])
           g == CHOOSE h : h = [s \in SUBSET (1..n) |-> Next(h, s)]
<1>1. Steps(F, Contexts, n)
  BY <1>0, OpenTyped DEF Steps
<1>2. \A k \in 1..n, x \in Contexts : F[<<k, x>>] = OpenTag(x, tags[k])
  OBVIOUS
<1>3. Reopened(c, tags) = g[1..n]
  BY <1>0 DEF Reopened, FoldLeft, MapThenFoldSet
<1> HIDE DEF F
<1>4. PICK it : IsFold(it, Contexts, n, c, F)
  BY <1>1, FoldExists
<1>5. it = [s \in SUBSET (1..n) |-> Next(it, s)]
  <2>1. ASSUME NEW s \in SUBSET (1..n), s # {}
        PROVE  it[s] = OpenTag(it[s \ {Max(s)}], tags[Max(s)])
    BY <1>2, <1>4, <2>1, MaxIn DEF IsFold
  <2>2. \A s \in SUBSET (1..n) : it[s] = Next(it, s)
    BY <1>4, <2>1 DEF IsFold
  <2>3. it = [s \in SUBSET (1..n) |-> it[s]]
    BY <1>4 DEF IsFold
  <2> QED BY <2>2, <2>3
<1>6. g = [s \in SUBSET (1..n) |-> Next(g, s)]
  BY <1>5
<1> HIDE DEF g
<1>7. g[{}] = c /\ \A s \in SUBSET (1..n) : s # {} => g[s] = OpenTag(g[s \ {Max(s)}], tags[Max(s)])
  <2>1. {} \in SUBSET (1..n)
    OBVIOUS
  <2> QED BY <1>6, <2>1
<1>8. Recurs(g, Contexts, n, c, F)
  BY <1>2, <1>7, MaxIn DEF Recurs
<1>9. PICK f : IsLeftFold(f, g, Contexts, n, c, F)
  BY <1>0, <1>1, <1>8, FoldValues
<1>10. f \in [0..n -> Contexts] /\ f[0] = c /\ f[n] = Reopened(c, tags)
  BY <1>3, <1>9 DEF IsLeftFold
<1>11. ASSUME NEW k \in 1..n PROVE f[k] = OpenTag(f[k - 1], tags[k])
  <2>1. f[k - 1] \in Contexts
    BY <1>0, <1>10
  <2>2. f[k] = F[<<k, f[k - 1]>>]
    BY <1>9 DEF IsLeftFold
  <2> QED BY <1>2, <2>1, <2>2
<1> QED BY <1>0, <1>10, <1>11


LEMMA CloseFold ==
  ASSUME NEW c \in Contexts, NEW tags \in Seq(Controls)
  PROVE  \E f \in [0..Len(tags) -> Contexts] :
           /\ f[0] = c /\ \A k \in 1..Len(tags) : f[k] = CloseTag(f[k - 1], tags[k])
           /\ f[Len(tags)] = FoldLeft(CloseTag, c, tags)
<1>0. PICK n \in Nat : n = Len(tags) /\ DOMAIN tags = 1..n /\ \A k \in 1..n : tags[k] \in Controls
  BY LenProperties, ElementOfSeq
<1> DEFINE F == [p \in (1..n) \X Contexts |-> CloseTag(p[2], tags[p[1]])]
           Next(it, s) == IF s = {} THEN c ELSE CloseTag(it[s \ {Max(s)}], tags[Max(s)])
           g == CHOOSE h : h = [s \in SUBSET (1..n) |-> Next(h, s)]
<1>1. Steps(F, Contexts, n)
  BY <1>0, CloseTyped DEF Steps
<1>2. \A k \in 1..n, x \in Contexts : F[<<k, x>>] = CloseTag(x, tags[k])
  OBVIOUS
<1>3. FoldLeft(CloseTag, c, tags) = g[1..n]
  BY <1>0 DEF FoldLeft, MapThenFoldSet
<1> HIDE DEF F
<1>4. PICK it : IsFold(it, Contexts, n, c, F)
  BY <1>1, FoldExists
<1>5. it = [s \in SUBSET (1..n) |-> Next(it, s)]
  <2>1. ASSUME NEW s \in SUBSET (1..n), s # {}
        PROVE  it[s] = CloseTag(it[s \ {Max(s)}], tags[Max(s)])
    BY <1>2, <1>4, <2>1, MaxIn DEF IsFold
  <2>2. \A s \in SUBSET (1..n) : it[s] = Next(it, s)
    BY <1>4, <2>1 DEF IsFold
  <2>3. it = [s \in SUBSET (1..n) |-> it[s]]
    BY <1>4 DEF IsFold
  <2> QED BY <2>2, <2>3
<1>6. g = [s \in SUBSET (1..n) |-> Next(g, s)]
  BY <1>5
<1> HIDE DEF g
<1>7. g[{}] = c /\ \A s \in SUBSET (1..n) : s # {} => g[s] = CloseTag(g[s \ {Max(s)}], tags[Max(s)])
  <2>1. {} \in SUBSET (1..n)
    OBVIOUS
  <2> QED BY <1>6, <2>1
<1>8. Recurs(g, Contexts, n, c, F)
  BY <1>2, <1>7, MaxIn DEF Recurs
<1>9. PICK f : IsLeftFold(f, g, Contexts, n, c, F)
  BY <1>0, <1>1, <1>8, FoldValues
<1>10. f \in [0..n -> Contexts] /\ f[0] = c /\ f[n] = FoldLeft(CloseTag, c, tags)
  BY <1>3, <1>9 DEF IsLeftFold
<1>11. ASSUME NEW k \in 1..n PROVE f[k] = CloseTag(f[k - 1], tags[k])
  <2>1. f[k - 1] \in Contexts
    BY <1>0, <1>10
  <2>2. f[k] = F[<<k, f[k - 1]>>]
    BY <1>9 DEF IsLeftFold
  <2> QED BY <1>2, <2>1, <2>2
<1> QED BY <1>0, <1>10, <1>11

-----------------------------------------------------------------------------
(* The tag of the colour does not matter where the stack has no colour. *)
LEMMA TagIrrelevant ==
  ASSUME NEW codes \in Seq(Controls), "color" \notin ToSet(codes),
         NEW open, NEW tag, NEW other, NEW m, Explains(m, codes, open, tag)
  PROVE  Explains(m, codes, open, other)
<1>1. \A i \in 1..Len(codes) : codes[i] # "color"
  BY LenProperties DEF ToSet
<1> QED BY <1>1 DEF Explains, TagOf

(* One more control on the stack, which opens its tag unless it is silent. *)
LEMMA ControlPushed ==
  ASSUME NEW codes \in Seq(Controls), NEW open, NEW tag \in ColorTags, NEW ch \in Controls,
         NEW m, Explains(m, codes, open, tag)
  PROVE  \E m2 : Explains(m2, Append(codes, ch),
                          IF ch \in Silent THEN open ELSE Append(open, TagOf(ch, tag)), tag)
<1> DEFINE n == Len(codes)
           new == IF ch \in Silent THEN open ELSE Append(open, TagOf(ch, tag))
           m2 == [i \in 0..n + 1 |-> IF i = n + 1 THEN new ELSE m[i]]
<1>1. /\ n \in Nat /\ Len(Append(codes, ch)) = n + 1
      /\ Append(codes, ch)[n + 1] = ch /\ \A i \in 1..n : Append(codes, ch)[i] = codes[i]
  BY AppendProperties, LenProperties
<1>2. open \in Seq(Tags)
  BY <1>1 DEF Explains
<1>3. new \in Seq(Tags)
  BY <1>2, TagFacts, AppendProperties
<1>4. m2 \in [0..n + 1 -> Seq(Tags)]
  BY <1>1, <1>3 DEF Explains
<1>5. m2[0] = <<>> /\ m2[n + 1] = new
  BY <1>1 DEF Explains
<1>6. ASSUME NEW i \in 1..n + 1
      PROVE  m2[i] = IF Append(codes, ch)[i] \in Silent THEN m2[i - 1]
                     ELSE Append(m2[i - 1], TagOf(Append(codes, ch)[i], tag))
  <2>1. CASE i = n + 1
    BY <1>1, <2>1 DEF Explains
  <2>2. CASE i # n + 1
    BY <1>1, <2>2 DEF Explains
  <2> QED BY <2>1, <2>2
<1> HIDE DEF m2, new, n
<1>7. Explains(m2, Append(codes, ch), new, tag)
  BY <1>1, <1>4, <1>5, <1>6 DEF Explains
<1> QED BY <1>7 DEF new

(* The lower part of the stack. *)
LEMMA Lower ==
  ASSUME NEW codes \in Seq(Controls), NEW open, NEW tag, NEW m, Explains(m, codes, open, tag),
         NEW k \in 0..Len(codes)
  PROVE  Explains([i \in 0..k |-> m[i]], SubSeq(codes, 1, k), m[k], tag)
<1>1. /\ Len(codes) \in Nat /\ Len(SubSeq(codes, 1, k)) = k
      /\ \A i \in 1..k : SubSeq(codes, 1, k)[i] = codes[i]
  BY SubSeqProperties, LenProperties, ElementOfSeq
<1>2. [i \in 0..k |-> m[i]] \in [0..k -> Seq(Tags)]
  BY <1>1 DEF Explains
<1>3. ASSUME NEW i \in 1..k
      PROVE  m[i] = IF codes[i] \in Silent THEN m[i - 1] ELSE Append(m[i - 1], TagOf(codes[i], tag))
  BY <1>1 DEF Explains
<1>4. m[0] = <<>>
  BY DEF Explains
<1> QED BY <1>1, <1>2, <1>3, <1>4 DEF Explains

LEMMA FrontOfAppend ==
  ASSUME NEW S, NEW q \in Seq(S), NEW e \in S
  PROVE  Front(Append(q, e)) = q /\ Last(Append(q, e)) = e /\ Append(q, e) # <<>>
<1>1. /\ Append(q, e) \in Seq(S) /\ Len(Append(q, e)) = Len(q) + 1 /\ Append(q, e) # <<>>
      /\ Append(q, e)[Len(q) + 1] = e /\ Len(q) \in Nat
      /\ \A i \in 1..Len(q) : Append(q, e)[i] = q[i]
  BY AppendProperties, LenProperties
<1> DEFINE a == Append(q, e)
           n == Len(q)
<1>2. a \in Seq(S) /\ Len(a) = n + 1 /\ n \in Nat /\ \A i \in 1..n : a[i] = q[i] /\ a[i] \in S
  BY <1>1, ElementOfSeq
<1> HIDE DEF a
<1>3. /\ SubSeq(a, 1, n) \in Seq(S) /\ Len(SubSeq(a, 1, n)) = n
      /\ \A i \in 1..n : SubSeq(a, 1, n)[i] = a[i]
  BY <1>2, SubSeqProperties
<1>4. SubSeq(a, 1, n) = q
  BY <1>2, <1>3, SeqEqual
<1>5. Len(a) - 1 = n
  BY <1>2
<1> QED BY <1>1, <1>4, <1>5 DEF Front, Last, a

LEMMA CloseOne ==
  ASSUME NEW c \in Contexts, c.nested, NEW tag \in ColorTags, NEW ch \in Controls, NEW rest \in Seq(Tags),
         c.open = IF ch \in Silent THEN rest ELSE Append(rest, TagOf(ch, tag))
  PROVE  CloseTag(c, ch) = [c EXCEPT !.open = rest]
<1>1. CASE ch \in Silent
  BY <1>1 DEF CloseTag, Contexts
<1>2. CASE ch \notin Silent
  <2>1. TagOf(ch, tag) \in Tags /\ TagOf(ch, tag)[1] = ch
    BY TagFacts
  <2>2. c.open # <<>> /\ Front(c.open) = rest /\ Last(c.open) = TagOf(ch, tag)
    BY <1>2, <2>1, FrontOfAppend
  <2>3. CloseTag(c, ch) = [c EXCEPT !.open = Front(@), !.nested = @ /\ Last(c.open)[1] = ch]
    BY <1>2, <2>2 DEF CloseTag
  <2>4. (c.nested /\ Last(c.open)[1] = ch) = TRUE /\ c.nested = TRUE
    BY <2>1, <2>2 DEF Contexts
  <2> QED BY <2>2, <2>3, <2>4 DEF Contexts
<1> QED BY <1>1, <1>2

(* The controls from the top down to the one at p. *)
FromTop(codes, p) == Reverse(<<codes[p]>> \o SubSeq(codes, p + 1, Len(codes)))

LEMMA DownIs ==
  ASSUME NEW codes \in Seq(Controls), NEW p \in 1..Len(codes)
  PROVE  /\ FromTop(codes, p) \in Seq(Controls) /\ Len(FromTop(codes, p)) = Len(codes) - p + 1
         /\ \A j \in 1..Len(codes) - p + 1 : FromTop(codes, p)[j] = codes[Len(codes) - j + 1]
<1> DEFINE L == Len(codes)
           a == <<codes[p]>>
           b == SubSeq(codes, p + 1, L)
           ab == a \o b
<1>1. L \in Nat /\ \A i \in 1..L : codes[i] \in Controls
  BY LenProperties, ElementOfSeq
<1>2. a \in Seq(Controls) /\ Len(a) = 1 /\ a[1] = codes[p]
  BY <1>1
<1>3. /\ b \in Seq(Controls) /\ Len(b) = L - p
      /\ \A i \in 1..L - p : b[i] = codes[p + i]
  <2>1. \A i \in p + 1..L : codes[i] \in Controls
    BY <1>1
  <2> HIDE DEF L
  <2>2. PICK q \in Int : q = p + 1
    OBVIOUS
  <2>3. b = SubSeq(codes, q, L)
    BY <2>2
  <2> HIDE DEF b
  <2>4. /\ b \in Seq(Controls) /\ Len(b) = IF q <= L THEN L - q + 1 ELSE 0
        /\ \A i \in 1..L - q + 1 : b[i] = codes[q + i - 1]
    BY <1>1, <2>1, <2>2, <2>3, SubSeqProperties
  <2>5. p \in 1..L
    BY DEF L
  <2>6. Len(b) = L - p /\ L - q + 1 = L - p
    BY <1>1, <2>2, <2>4, <2>5
  <2>7. ASSUME NEW i \in 1..L - p PROVE b[i] = codes[p + i]
    <3>1. q + i - 1 = p + i
      BY <2>2, <2>5
    <3> QED BY <2>4, <2>6, <3>1
  <2> QED BY <2>4, <2>6, <2>7
<1> HIDE DEF a, b
<1>4. /\ ab \in Seq(Controls) /\ Len(ab) = L - p + 1
      /\ \A i \in 1..L - p + 1 : ab[i] = codes[p + i - 1]
  <2>1. /\ ab \in Seq(Controls) /\ Len(ab) = Len(a) + Len(b)
        /\ \A i \in 1..Len(a) + Len(b) : ab[i] = IF i <= Len(a) THEN a[i] ELSE b[i - Len(a)]
    BY <1>2, <1>3, ConcatProperties
  <2> HIDE DEF ab
  <2>2. Len(a) + Len(b) = L - p + 1
    BY <1>1, <1>2, <1>3
  <2>3. ASSUME NEW i \in 1..L - p + 1 PROVE ab[i] = codes[p + i - 1]
    <3>1. CASE i = 1
      BY <1>1, <1>2, <2>1, <2>2, <3>1
    <3>2. CASE i # 1
      BY <1>1, <1>2, <1>3, <2>1, <2>2, <3>2
    <3> QED BY <3>1, <3>2
  <2> QED BY <2>1, <2>2, <2>3
<1> DEFINE r == [i \in 1..Len(ab) |-> ab[(Len(ab) - i) + 1]]
<1>5. FromTop(codes, p) = r
  BY DEF FromTop, Reverse, a, b
<1> HIDE DEF ab
<1>6. \A i \in 1..L - p + 1 : /\ (L - p + 1 - i) + 1 \in 1..L - p + 1
                             /\ p + ((L - p + 1 - i) + 1) - 1 = L - i + 1
                             /\ L - i + 1 \in 1..L
  BY <1>1
<1>7. \A i \in 1..L - p + 1 : r[i] = codes[L - i + 1] /\ r[i] \in Controls
  BY <1>1, <1>4, <1>6
<1>8. r \in Seq(Controls) /\ Len(r) = L - p + 1
  BY <1>1, <1>4, <1>7
<1> QED BY <1>5, <1>7, <1>8

(* Closing down to p leaves what was open before it. *)
LEMMA ClosedDown ==
  ASSUME NEW c \in Contexts, c.nested, NEW tag \in ColorTags, NEW m, Explains(m, c.stack, c.open, tag),
         NEW p \in 1..Len(c.stack)
  PROVE  FoldLeft(CloseTag, c, FromTop(c.stack, p)) = [c EXCEPT !.open = m[p - 1]]
<1> DEFINE L == Len(c.stack)
           tags == FromTop(c.stack, p)
<1>1. c.stack \in Seq(Controls) /\ L \in Nat /\ \A i \in 1..L : c.stack[i] \in Controls
  BY LenProperties, ElementOfSeq DEF Contexts
<1>2. PICK q : q = L - p + 1 /\ q \in Nat /\ p \in 1..L
  <2>1. L - p + 1 \in Nat /\ p \in 1..L
    BY <1>1
  <2> QED BY <2>1
<1>3. tags \in Seq(Controls) /\ Len(tags) = q /\ \A j \in 1..q : tags[j] = c.stack[L - j + 1]
  BY <1>1, <1>2, DownIs
<1> HIDE DEF tags
<1>4. PICK f \in [0..q -> Contexts] :
         /\ f[0] = c /\ \A k \in 1..q : f[k] = CloseTag(f[k - 1], tags[k])
         /\ f[q] = FoldLeft(CloseTag, c, tags)
  BY <1>3, CloseFold
<1> DEFINE S == {j \in 0..q : f[j] = [c EXCEPT !.open = m[L - j]]}
<1>5. 0 \in S
  <2>1. m[L - 0] = c.open
    BY <1>1 DEF Explains
  <2>2. [c EXCEPT !.open = c.open] = c
    BY DEF Contexts
  <2> QED BY <1>2, <1>4, <2>1, <2>2
<1>6. ASSUME NEW j \in 0..q, j < q, j \in S PROVE j + 1 \in S
  <2>1. PICK i : i = L - j /\ i \in 1..L /\ L - (j + 1) = i - 1 /\ j + 1 \in 1..q /\ i = L - (j + 1) + 1
    <3>0. L \in Nat /\ q \in Nat /\ p \in 1..L /\ q = L - p + 1 /\ j \in 0..q /\ j < q
      BY <1>1, <1>2, <1>6
    <3> HIDE DEF L, S
    <3>1. L - j \in 1..L /\ L - (j + 1) = (L - j) - 1 /\ j + 1 \in 1..q /\ L - j = L - (j + 1) + 1
      BY <3>0
    <3> QED BY <3>1
  <2> DEFINE d == [c EXCEPT !.open = m[i]]
  <2>2. m[i] \in Seq(Tags) /\ m[i - 1] \in Seq(Tags)
    <3>1. i \in 0..L /\ i - 1 \in 0..L
      BY <1>1, <2>1
    <3> QED BY <3>1 DEF Explains
  <2>3. d \in Contexts /\ d.nested /\ d.open = m[i]
    BY <2>2 DEF Contexts
  <2>4. m[i] = IF c.stack[i] \in Silent THEN m[i - 1] ELSE Append(m[i - 1], TagOf(c.stack[i], tag))
    BY <2>1 DEF Explains
  <2> HIDE DEF L
  <2>5. CloseTag(d, c.stack[i]) = [d EXCEPT !.open = m[i - 1]]
    <3>1. c.stack[i] \in Controls
      BY <1>1, <2>1
    <3>2. d.open = IF c.stack[i] \in Silent THEN m[i - 1] ELSE Append(m[i - 1], TagOf(c.stack[i], tag))
      BY <2>3, <2>4
    <3> HIDE DEF d
    <3> QED BY <2>2, <2>3, <3>1, <3>2, CloseOne
  <2>6. f[j] = d /\ f[j + 1] = CloseTag(f[j], tags[j + 1]) /\ tags[j + 1] = c.stack[i]
    <3>1. f[j] = d
      BY <1>6, <2>1
    <3>2. f[j + 1] = CloseTag(f[(j + 1) - 1], tags[j + 1])
      BY <1>4, <2>1
    <3>3. (j + 1) - 1 = j
      OBVIOUS
    <3> QED BY <1>3, <2>1, <3>1, <3>2, <3>3
  <2>7. f[j + 1] = [c EXCEPT !.open = m[i - 1]]
    BY <2>5, <2>6 DEF Contexts
  <2> QED BY <2>1, <2>7
<1> HIDE DEF S
<1>7. q \in S
  <2>1. \A j \in 0..q : j \in S
    BY <1>2, <1>5, <1>6, BoundedInduction
  <2> QED BY <1>2, <2>1
<1>8. L - q = p - 1
  BY <1>1, <1>2
<1> QED BY <1>4, <1>7, <1>8 DEF S, tags

-----------------------------------------------------------------------------
(* Opening a tag, and opening those again that were closed on the way. *)

LEMMA OpenOne ==
  ASSUME NEW c \in Contexts, NEW tag \in ColorTags, NEW ch \in Controls, Explained(c, tag),
         ch = "color" => Colored(c) /\ tag = ColorTag(c)
  PROVE  \E open : /\ OpenTag(c, ch) = [c EXCEPT !.stack = Append(c.stack, ch), !.open = open]
                   /\ \E m2 : Explains(m2, Append(c.stack, ch), open, tag)
<1> DEFINE open == IF ch \in Silent THEN c.open ELSE Append(c.open, TagOf(ch, tag))
<1>0. c.stack \in Seq(Controls)
  BY DEF Contexts
<1>1. PICK m : Explains(m, c.stack, c.open, tag)
  BY DEF Explained
<1>2. \E m2 : Explains(m2, Append(c.stack, ch), open, tag)
  BY <1>0, <1>1, ControlPushed
<1>3. OpenTag(c, ch) = [c EXCEPT !.stack = Append(c.stack, ch), !.open = open]
  <2>1. CASE ch \in Silent
    <3>1. OpenTag(c, ch) = [c EXCEPT !.stack = Append(@, ch)]
      BY <2>1, ControlKinds DEF OpenTag
    <3> QED BY <2>1, <3>1 DEF Contexts
  <2>2. CASE ch \in Toggles
    <3>1. OpenTag(c, ch) = [c EXCEPT !.stack = Append(@, ch), !.open = Append(@, <<ch>>)]
      BY <2>2, ControlKinds DEF OpenTag
    <3>2. TagOf(ch, tag) = <<ch>> /\ ch \notin Silent
      BY <2>2, ControlKinds DEF TagOf
    <3> QED BY <3>1, <3>2 DEF Contexts
  <2>3. CASE ch = "color"
    <3>1. Valid(c.fg) = c.fg /\ Valid(c.bg) = c.bg /\ (c.fg # NoColor \/ c.bg # NoColor)
      BY <2>3, InvalidIsNoColor DEF Valid, Colored, Inks
    <3>2. [c EXCEPT !.fg = Valid(c.fg), !.bg = Valid(c.bg)] = c
      BY <3>1 DEF Contexts
    <3>3. OpenTag(c, ch) =
            [c EXCEPT !.stack = Append(@, ch), !.open = Append(@, <<ch>> \o Shown(c.fg, c.bg))]
      BY <2>3, <3>1, <3>2, ControlKinds DEF OpenTag
    <3>4. TagOf(ch, tag) = <<ch>> \o Shown(c.fg, c.bg) /\ ch \notin Silent
      BY <2>3, ControlKinds DEF TagOf, ColorTag
    <3> QED BY <3>3, <3>4 DEF Contexts
  <2> QED BY <2>1, <2>2, <2>3, ControlKinds
<1> QED BY <1>2, <1>3

LEMMA ConcatStep ==
  ASSUME NEW S, NEW s \in Seq(S), NEW t \in Seq(S)
  PROVE  /\ s \o SubSeq(t, 1, 0) = s /\ s \o SubSeq(t, 1, Len(t)) = s \o t
         /\ \A k \in 0..Len(t) - 1 :
              /\ s \o SubSeq(t, 1, k) \in Seq(S)
              /\ s \o SubSeq(t, 1, k + 1) = Append(s \o SubSeq(t, 1, k), t[k + 1])
<1>1. Len(t) \in Nat /\ \A i \in 1..Len(t) : t[i] \in S
  BY LenProperties, ElementOfSeq
<1>2. SubSeq(t, 1, 0) = <<>> /\ SubSeq(t, 1, Len(t)) = t
  BY SubSeqEmpty, SubSeqFull
<1>3. ASSUME NEW k \in 0..Len(t) - 1
      PROVE  /\ s \o SubSeq(t, 1, k) \in Seq(S)
             /\ s \o SubSeq(t, 1, k + 1) = Append(s \o SubSeq(t, 1, k), t[k + 1])
  <2>1. k \in Nat /\ k + 1 \in 1..Len(t) /\ 1 \in 1..Len(t) /\ (k + 1) - 1 = k
    BY <1>1
  <2>2. SubSeq(t, 1, k + 1) = SubSeq(t, 1, k) \o <<t[k + 1]>>
    <3>1. k + 1 \in 1..Len(t) /\ 1 \in 1..Len(t)
      BY <2>1
    <3>2. SubSeq(t, 1, k + 1) = SubSeq(t, 1, (k + 1) - 1) \o <<t[k + 1]>>
      BY <3>1, SubSeqRecursiveSecond
    <3> QED BY <2>1, <3>2
  <2>3. SubSeq(t, 1, k) \in Seq(S) /\ t[k + 1] \in S
    BY <1>1, <2>1, SubSeqProperties
  <2>4. <<t[k + 1]>> \in Seq(S)
    BY <2>3
  <2> DEFINE a == SubSeq(t, 1, k)
             e == t[k + 1]
  <2>5. a \in Seq(S) /\ e \in S /\ <<e>> \in Seq(S) /\ SubSeq(t, 1, k + 1) = a \o <<e>>
    BY <2>2, <2>3, <2>4
  <2> HIDE DEF a, e
  <2>6. s \o a \in Seq(S) /\ s \o (a \o <<e>>) = (s \o a) \o <<e>>
    BY SMTT(30), <2>5, ConcatProperties, ConcatAssociative
  <2>7. Append(s \o a, e) = (s \o a) \o <<e>>
    BY <2>5, <2>6, AppendIsConcat
  <2> QED BY <2>5, <2>6, <2>7 DEF a, e
<1> QED BY <1>2, <1>3, ConcatEmptySeq

LEMMA ReopenedAll ==
  ASSUME NEW c \in Contexts, NEW tag \in ColorTags, NEW tags \in Seq(Controls), Explained(c, tag),
         (\E i \in 1..Len(tags) : tags[i] = "color") => Colored(c) /\ tag = ColorTag(c)
  PROVE  \E open : /\ Reopened(c, tags) = [c EXCEPT !.stack = c.stack \o tags, !.open = open]
                   /\ \E m2 : Explains(m2, c.stack \o tags, open, tag)
<1>0. PICK n \in Nat : n = Len(tags) /\ \A i \in 1..n : tags[i] \in Controls
  BY LenProperties, ElementOfSeq
<1>1. PICK f \in [0..n -> Contexts] :
         /\ f[0] = c /\ \A k \in 1..n : f[k] = OpenTag(f[k - 1], tags[k])
         /\ f[n] = Reopened(c, tags)
  BY <1>0, OpenFold
<1> DEFINE to(k) == c.stack \o SubSeq(tags, 1, k)
           Fits(k) == \E open : /\ f[k] = [c EXCEPT !.stack = to(k), !.open = open]
                                /\ \E m2 : Explains(m2, to(k), open, tag)
           S == {k \in 0..n : Fits(k)}
<1>2. /\ to(0) = c.stack /\ to(n) = c.stack \o tags
      /\ \A k \in 0..n - 1 : to(k) \in Seq(Controls) /\ to(k + 1) = Append(to(k), tags[k + 1])
  <2>1. c.stack \in Seq(Controls)
    BY DEF Contexts
  <2>2. /\ c.stack \o SubSeq(tags, 1, 0) = c.stack
        /\ c.stack \o SubSeq(tags, 1, Len(tags)) = c.stack \o tags
        /\ \A k \in 0..Len(tags) - 1 :
              /\ c.stack \o SubSeq(tags, 1, k) \in Seq(Controls)
              /\ c.stack \o SubSeq(tags, 1, k + 1) = Append(c.stack \o SubSeq(tags, 1, k), tags[k + 1])
    BY SMTT(30), <2>1, ConcatStep
  <2> QED BY <1>0, <2>2
<1> HIDE DEF to
<1>3. Fits(0)
  <2>1. [c EXCEPT !.stack = c.stack, !.open = c.open] = c
    BY DEF Contexts
  <2>2. f[0] = [c EXCEPT !.stack = to(0), !.open = c.open]
    BY <1>1, <1>2, <2>1
  <2>3. \E m2 : Explains(m2, to(0), c.open, tag)
    BY <1>2 DEF Explained
  <2> QED BY <2>2, <2>3
<1>4. ASSUME NEW k \in 0..n, k < n, Fits(k) PROVE Fits(k + 1)
  <2>1. PICK open : /\ f[k] = [c EXCEPT !.stack = to(k), !.open = open]
                    /\ \E m2 : Explains(m2, to(k), open, tag)
    BY <1>4
  <2>2. k \in 0..n - 1 /\ k + 1 \in 1..n /\ (k + 1) - 1 = k /\ f[k] \in Contexts
    BY <1>0, <1>1, <1>4
  <2> DEFINE d == f[k]
             ch == tags[k + 1]
  <2>3. /\ d \in Contexts /\ ch \in Controls /\ d.stack = to(k) /\ d.open = open
        /\ d.fg = c.fg /\ d.bg = c.bg /\ d.nested = c.nested
    BY <1>0, <2>1, <2>2 DEF Contexts
  <2>4. Explained(d, tag)
    BY <2>1, <2>3 DEF Explained
  <2>5. ch = "color" => Colored(d) /\ tag = ColorTag(d)
    BY <1>0, <2>2, <2>3 DEF Colored, ColorTag
  <2>6. f[k + 1] = OpenTag(d, ch) /\ to(k + 1) = Append(to(k), ch)
    BY <1>1, <1>2, <2>2
  <2>7. PICK open2 : /\ OpenTag(d, ch) = [d EXCEPT !.stack = Append(d.stack, ch), !.open = open2]
                     /\ \E m2 : Explains(m2, Append(d.stack, ch), open2, tag)
    <3> HIDE DEF d, ch
    <3> QED BY <2>3, <2>4, <2>5, OpenOne
  <2>8. f[k + 1] = [c EXCEPT !.stack = to(k + 1), !.open = open2]
    BY <2>1, <2>3, <2>6, <2>7 DEF Contexts
  <2>9. \E m2 : Explains(m2, to(k + 1), open2, tag)
    BY <2>3, <2>6, <2>7
  <2> QED BY <2>8, <2>9
<1> HIDE DEF Fits
<1>5. Fits(n)
  <2>1. 0 \in S /\ \A k \in 0..n : k < n /\ k \in S => k + 1 \in S
    BY <1>0, <1>3, <1>4
  <2> HIDE DEF S
  <2>2. \A k \in 0..n : k \in S
    BY <1>0, <2>1, BoundedInduction
  <2> QED BY <1>0, <2>2 DEF S
<1>6. PICK open : /\ f[n] = [c EXCEPT !.stack = to(n), !.open = open]
                  /\ \E m2 : Explains(m2, to(n), open, tag)
  BY <1>5 DEF Fits
<1>7. Reopened(c, tags) = [c EXCEPT !.stack = c.stack \o tags, !.open = open]
  BY <1>1, <1>2, <1>6
<1>8. \E m2 : Explains(m2, c.stack \o tags, open, tag)
  BY <1>2, <1>6
<1> QED BY <1>7, <1>8

(* What CloseUpTo makes of the context before it looks at the colours. *)
Above(c, p) == SubSeq(c.stack, p + 1, Len(c.stack))
ClosedFrom(c, p) == FoldLeft(CloseTag, c, FromTop(c.stack, p))
Taken(c, p) == Reopened([ClosedFrom(c, p) EXCEPT !.stack = SubSeq(@, 1, p - 1)], Above(c, p))

LEMMA CloseUpToIs ==
  ASSUME NEW c, NEW p, NEW ch, ch = c.stack[p]
  PROVE  CloseUpTo(c, ch, p) =
           IF ch = "color" /\ (Taken(c, p).fg # NoColor \/ Taken(c, p).bg # NoColor)
             THEN OpenTag(Taken(c, p), ch) ELSE Taken(c, p)
BY DEF CloseUpTo, Taken, ClosedFrom, Above, FromTop

LEMMA TakenOut ==
  ASSUME NEW c \in Contexts, c.nested, NEW tag \in ColorTags, Explained(c, tag),
         NEW p \in 1..Len(c.stack),
         \A i \in p + 1..Len(c.stack) : c.stack[i] = "color" => Colored(c) /\ tag = ColorTag(c)
  PROVE  \E open : /\ Taken(c, p) = [c EXCEPT !.stack = RemoveAt(c.stack, p), !.open = open]
                   /\ \E m2 : Explains(m2, RemoveAt(c.stack, p), open, tag)
<1>1. PICK m : Explains(m, c.stack, c.open, tag)
  BY DEF Explained
<1>2. PICK L \in Nat : L = Len(c.stack) /\ p \in 1..L /\ p - 1 \in 0..L /\ \A i \in 1..L : c.stack[i] \in Controls
  <2>1. Len(c.stack) \in Nat /\ \A i \in 1..Len(c.stack) : c.stack[i] \in Controls
    BY LenProperties, ElementOfSeq DEF Contexts
  <2> QED BY <2>1
<1>3. c.stack \in Seq(Controls)
  BY DEF Contexts
<1>4. ClosedFrom(c, p) = [c EXCEPT !.open = m[p - 1]]
  BY ZenonT(30), <1>1, ClosedDown DEF ClosedFrom
<1>5. m[p - 1] \in Seq(Tags)
  BY <1>1, <1>2 DEF Explains
<1> DEFINE low == SubSeq(c.stack, 1, p - 1)
           d == [c EXCEPT !.stack = low, !.open = m[p - 1]]
<1>6. low \in Seq(Controls)
  BY <1>2, SubSeqProperties
<1>7. /\ d \in Contexts /\ d.stack = low /\ d.open = m[p - 1]
      /\ d.fg = c.fg /\ d.bg = c.bg /\ d.nested = c.nested
  BY <1>5, <1>6 DEF Contexts
<1>8. [ClosedFrom(c, p) EXCEPT !.stack = SubSeq(@, 1, p - 1)] = d
  BY <1>4, <1>7 DEF Contexts
<1>9. Explained(d, tag)
  <2>1. Explains([i \in 0..p - 1 |-> m[i]], low, m[p - 1], tag)
    BY <1>1, <1>2, <1>3, Lower
  <2> QED BY <1>7, <2>1 DEF Explained
<1>10. /\ Above(c, p) \in Seq(Controls)
       /\ \A i \in 1..Len(Above(c, p)) : p + i \in p + 1..L /\ Above(c, p)[i] = c.stack[p + i]
  <2>1. \A i \in p + 1..L : c.stack[i] \in Controls
    BY <1>2
  <2>2. /\ SubSeq(c.stack, p + 1, L) \in Seq(Controls)
        /\ Len(SubSeq(c.stack, p + 1, L)) = IF p + 1 <= L THEN L - (p + 1) + 1 ELSE 0
        /\ \A i \in 1..L - (p + 1) + 1 : SubSeq(c.stack, p + 1, L)[i] = c.stack[p + 1 + i - 1]
    BY <1>2, <2>1, SubSeqProperties
  <2>3. Above(c, p) = SubSeq(c.stack, p + 1, L)
    BY <1>2 DEF Above
  <2> QED BY <1>2, <2>2, <2>3
<1>11. (\E i \in 1..Len(Above(c, p)) : Above(c, p)[i] = "color") => Colored(d) /\ tag = ColorTag(d)
  BY <1>2, <1>7, <1>10 DEF Colored, ColorTag
<1> DEFINE ts == Above(c, p)
<1> HIDE DEF d, ts
<1>12. PICK open : /\ Reopened(d, ts) = [d EXCEPT !.stack = d.stack \o ts, !.open = open]
                   /\ \E m2 : Explains(m2, d.stack \o ts, open, tag)
  <2>1. /\ ts \in Seq(Controls)
        /\ (\E i \in 1..Len(ts) : ts[i] = "color") => Colored(d) /\ tag = ColorTag(d)
    BY <1>10, <1>11 DEF ts
  <2> QED BY <1>7, <1>9, <2>1, ReopenedAll
<1>13. d.stack \o ts = RemoveAt(c.stack, p)
  BY <1>7 DEF RemoveAt, ts, Above
<1>14. Taken(c, p) = Reopened(d, ts)
  BY <1>8 DEF Taken, ts
<1>15. [d EXCEPT !.stack = d.stack \o ts, !.open = open]
         = [c EXCEPT !.stack = RemoveAt(c.stack, p), !.open = open]
  BY <1>13 DEF d, Contexts
<1> QED BY <1>12, <1>13, <1>14, <1>15

-----------------------------------------------------------------------------
(* do_colorize *)

PlaceIn(codes, ch) == SelectInSeq(codes, LAMBDA x : x = ch)

LEMMA PlaceOf ==
  ASSUME NEW codes \in Seq(Controls), NEW ch
  PROVE  \E p : /\ p = PlaceIn(codes, ch)
                /\ ch \in ToSet(codes) => p \in 1..Len(codes) /\ codes[p] = ch
                /\ ch \notin ToSet(codes) => p = 0
<1>1. Len(codes) \in Nat /\ DOMAIN codes = 1..Len(codes)
  BY LenProperties
<1> DEFINE I == {i \in 1..Len(codes) : codes[i] = ch}
<1>2. PlaceIn(codes, ch) = IF I # {} THEN Min(I) ELSE 0
  BY DEF PlaceIn, SelectInSeq
<1>3. I # {} <=> ch \in ToSet(codes)
  BY <1>1 DEF ToSet
<1>4. I \in SUBSET (1..Len(codes))
  OBVIOUS
<1>5. I # {} => Min(I) \in I
  <2> HIDE DEF I
  <2> QED BY <1>1, <1>4, MinIn
<1>6. I # {} => Min(I) \in 1..Len(codes) /\ codes[Min(I)] = ch
  BY <1>5
<1> HIDE DEF I
<1> QED BY <1>2, <1>3, <1>6

LEMMA ColorizeIs ==
  ASSUME NEW c, c.stack \in Seq(Controls), NEW ch
  PROVE  IF ch \in ToSet(c.stack)
           THEN \E p \in 1..Len(c.stack) : c.stack[p] = ch /\ do_colorize(c, ch) = CloseUpTo(c, ch, p)
           ELSE do_colorize(c, ch) = OpenTag(c, ch)
<1>1. PICK p : /\ p = PlaceIn(c.stack, ch)
               /\ ch \in ToSet(c.stack) => p \in 1..Len(c.stack) /\ c.stack[p] = ch
               /\ ch \notin ToSet(c.stack) => p = 0
  BY PlaceOf
<1>2. do_colorize(c, ch) = IF p = 0 THEN OpenTag(c, ch) ELSE CloseUpTo(c, ch, p)
  BY <1>1 DEF do_colorize, PlaceIn, SelectInSeq
<1>3. Len(c.stack) \in Nat
  BY LenProperties
<1>4. CASE ch \in ToSet(c.stack)
  <2>1. p \in 1..Len(c.stack) /\ c.stack[p] = ch /\ p # 0
    BY <1>1, <1>3, <1>4
  <2> QED BY <1>2, <1>4, <2>1
<1>5. CASE ch \notin ToSet(c.stack)
  BY <1>1, <1>2, <1>5
<1> QED BY <1>4, <1>5

LEMMA TakenTyped ==
  ASSUME NEW c \in Contexts, NEW p \in 1..Len(c.stack)
  PROVE  Taken(c, p) \in Contexts
<1>1. /\ c.stack \in Seq(Controls) /\ Len(c.stack) \in Nat
      /\ \A i \in 1..Len(c.stack) : c.stack[i] \in Controls
  BY LenProperties, ElementOfSeq DEF Contexts
<1>2. ClosedFrom(c, p) \in Contexts /\ ClosedFrom(c, p).stack = c.stack
  <2>1. PICK tags \in Seq(Controls) : tags = FromTop(c.stack, p)
    BY <1>1, DownIs
  <2>2. PICK n \in Nat : n = Len(tags)
    BY LenProperties
  <2>3. PICK f \in [0..n -> Contexts] :
           /\ f[0] = c /\ \A k \in 1..n : f[k] = CloseTag(f[k - 1], tags[k])
           /\ f[n] = FoldLeft(CloseTag, c, tags)
    BY <2>2, CloseFold
  <2> DEFINE S == {k \in 0..n : f[k].stack = c.stack}
  <2>4. 0 \in S
    BY <2>2, <2>3
  <2>5. ASSUME NEW k \in 0..n, k < n, k \in S PROVE k + 1 \in S
    <3>1. k + 1 \in 1..n /\ (k + 1) - 1 = k /\ f[k] \in Contexts
      BY <2>2, <2>3, <2>5
    <3>2. f[k + 1] = CloseTag(f[k], tags[k + 1])
      BY <2>3, <3>1
    <3>3. CloseTag(f[k], tags[k + 1]).stack = f[k].stack
      BY <3>1 DEF CloseTag, Contexts
    <3> QED BY <2>5, <3>1, <3>2, <3>3
  <2> HIDE DEF S
  <2>6. \A k \in 0..n : k \in S
    BY <2>2, <2>4, <2>5, BoundedInduction
  <2>7. f[n].stack = c.stack /\ f[n] \in Contexts
    BY <2>2, <2>3, <2>6 DEF S
  <2> QED BY <2>1, <2>3, <2>7 DEF ClosedFrom
<1>3. SubSeq(c.stack, 1, p - 1) \in Seq(Controls) /\ Above(c, p) \in Seq(Controls)
  BY <1>1, SubSeqProperties DEF Above
<1> DEFINE d == [ClosedFrom(c, p) EXCEPT !.stack = SubSeq(@, 1, p - 1)]
<1>4. d \in Contexts
  BY <1>2, <1>3 DEF Contexts
<1> HIDE DEF d
<1>5. Reopened(d, Above(c, p)) \in Contexts
  <2>1. PICK tags \in Seq(Controls) : tags = Above(c, p)
    BY <1>3
  <2>2. PICK n \in Nat : n = Len(tags)
    BY LenProperties
  <2>3. PICK f \in [0..n -> Contexts] : f[n] = Reopened(d, tags)
    BY <1>4, <2>2, OpenFold
  <2> QED BY <2>1, <2>2, <2>3
<1> QED BY <1>5 DEF Taken, d

LEMMA ColorizeTyped == \A c \in Contexts, ch \in Controls : do_colorize(c, ch) \in Contexts
<1> SUFFICES ASSUME NEW c \in Contexts, NEW ch \in Controls PROVE do_colorize(c, ch) \in Contexts
  OBVIOUS
<1>1. c.stack \in Seq(Controls)
  BY DEF Contexts
<1>2. CASE ch \in ToSet(c.stack)
  <2>1. PICK p \in 1..Len(c.stack) : c.stack[p] = ch /\ do_colorize(c, ch) = CloseUpTo(c, ch, p)
    BY <1>1, <1>2, ColorizeIs
  <2>2. Taken(c, p) \in Contexts
    BY TakenTyped
  <2> QED BY <2>1, <2>2, CloseUpToIs, OpenTyped
<1>3. CASE ch \notin ToSet(c.stack)
  BY <1>1, <1>3, ColorizeIs, OpenTyped
<1> QED BY <1>2, <1>3

-----------------------------------------------------------------------------
(* What a context shows is what its stack and its colours say. *)
GoodContext(c) ==
  /\ c \in Contexts /\ c.nested
  /\ IsInjective(c.stack)
  /\ {c.fg, c.bg} \subseteq Inks
  /\ "color" \in ToSet(c.stack) <=> Colored(c)
  /\ Explained(c, ColorTag(c))

LEMMA ColorTagTyped ==
  ASSUME NEW c, {c.fg, c.bg} \subseteq Inks
  PROVE  ColorTag(c) \in ColorTags
BY DEF ColorTag, ColorTags

LEMMA ColorInPlace ==
  ASSUME NEW c \in Contexts
  PROVE  /\ c.stack \in Seq(Controls)
         /\ \A i \in 1..Len(c.stack) : c.stack[i] \in ToSet(c.stack)
         /\ \A x \in ToSet(c.stack) : \E i \in 1..Len(c.stack) : c.stack[i] = x
BY LenProperties DEF Contexts, ToSet

LEMMA ToggleStep ==
  ASSUME NEW c, GoodContext(c), NEW ch \in Toggles \cup Silent
  PROVE  LET d == do_colorize(c, ch)
         IN  /\ GoodContext(d) /\ d.fg = c.fg /\ d.bg = c.bg
             /\ ToSet(d.stack) = (ToSet(c.stack) \ {ch}) \cup ({ch} \ ToSet(c.stack))
<1> DEFINE tag == ColorTag(c)
<1>1. /\ c \in Contexts /\ c.stack \in Seq(Controls) /\ ch \in Controls /\ ch # "color"
      /\ tag \in ColorTags /\ Explained(c, tag) /\ IsInjective(c.stack) /\ c.nested
  BY ControlKinds, ColorTagTyped DEF GoodContext, Contexts
<1> HIDE DEF tag
<1>2. ASSUME NEW codes \in Seq(Controls), NEW open, IsInjective(codes),
             ToSet(codes) = (ToSet(c.stack) \ {ch}) \cup ({ch} \ ToSet(c.stack)),
             NEW d, d = [c EXCEPT !.stack = codes, !.open = open], d \in Contexts,
             \E m2 : Explains(m2, codes, open, tag)
      PROVE  /\ GoodContext(d) /\ d.fg = c.fg /\ d.bg = c.bg
             /\ ToSet(d.stack) = (ToSet(c.stack) \ {ch}) \cup ({ch} \ ToSet(c.stack))
  <2>1. d.stack = codes /\ d.open = open /\ d.fg = c.fg /\ d.bg = c.bg /\ d.nested = c.nested
    BY <1>1, <1>2 DEF Contexts
  <2>2. Explained(d, ColorTag(d))
    BY <1>2, <2>1 DEF Explained, ColorTag, tag
  <2>3. "color" \in ToSet(d.stack) <=> Colored(d)
    BY <1>1, <1>2, <2>1 DEF GoodContext, Colored
  <2> QED BY <1>1, <1>2, <2>1, <2>2, <2>3 DEF GoodContext
<1>3. do_colorize(c, ch) \in Contexts
  BY <1>1, ColorizeTyped
<1>4. CASE ch \notin ToSet(c.stack)
  <2>1. do_colorize(c, ch) = OpenTag(c, ch)
    BY <1>1, <1>4, ColorizeIs
  <2>2. PICK open : /\ OpenTag(c, ch) = [c EXCEPT !.stack = Append(c.stack, ch), !.open = open]
                    /\ \E m2 : Explains(m2, Append(c.stack, ch), open, tag)
    BY <1>1, OpenOne
  <2>3. /\ Append(c.stack, ch) \in Seq(Controls) /\ IsInjective(Append(c.stack, ch))
        /\ ToSet(Append(c.stack, ch)) = ToSet(c.stack) \cup {ch}
    BY <1>1, <1>4, AppendedOnce
  <2>4. ToSet(Append(c.stack, ch)) = (ToSet(c.stack) \ {ch}) \cup ({ch} \ ToSet(c.stack))
    BY <1>4, <2>3
  <2> QED BY <1>2, <1>3, <2>1, <2>2, <2>3, <2>4
<1>5. CASE ch \in ToSet(c.stack)
  <2>1. PICK p \in 1..Len(c.stack) : c.stack[p] = ch /\ do_colorize(c, ch) = CloseUpTo(c, ch, p)
    BY <1>1, <1>5, ColorizeIs
  <2>2. do_colorize(c, ch) = Taken(c, p)
    BY <1>1, <2>1, CloseUpToIs
  <2>3. \A i \in p + 1..Len(c.stack) : c.stack[i] = "color" => Colored(c) /\ tag = ColorTag(c)
    <3>1. \A i \in p + 1..Len(c.stack) : i \in 1..Len(c.stack)
      BY <1>1, LenProperties
    <3> QED BY <1>1, <3>1, ColorInPlace DEF GoodContext, tag
  <2>4. PICK open : /\ Taken(c, p) = [c EXCEPT !.stack = RemoveAt(c.stack, p), !.open = open]
                    /\ \E m2 : Explains(m2, RemoveAt(c.stack, p), open, tag)
    BY <1>1, <2>3, TakenOut
  <2>5. p \in DOMAIN c.stack
    BY <1>1, LenProperties
  <2>6. /\ RemoveAt(c.stack, p) \in Seq(Controls) /\ IsInjective(RemoveAt(c.stack, p))
        /\ ToSet(RemoveAt(c.stack, p)) = ToSet(c.stack) \ {ch}
    BY <1>1, <2>1, <2>5, RemovedAt, RemovedOnce
  <2>7. ToSet(RemoveAt(c.stack, p)) = (ToSet(c.stack) \ {ch}) \cup ({ch} \ ToSet(c.stack))
    BY <1>5, <2>6
  <2> QED BY <1>2, <1>3, <2>2, <2>4, <2>6, <2>7
<1> QED BY <1>4, <1>5
(* A colour tag that is opened where there is none. *)
LEMMA FreshColor ==
  ASSUME NEW c \in Contexts, c.nested, IsInjective(c.stack), "color" \notin ToSet(c.stack),
         NEW tag \in ColorTags, Explained(c, tag)
  PROVE  LET d == OpenTag(c, "color")
         IN  /\ GoodContext(d) /\ d.fg = Valid(c.fg) /\ d.bg = Valid(c.bg)
             /\ ToSet(d.stack) \ {"color"} = ToSet(c.stack)
<1> DEFINE fg == Valid(c.fg)
           bg == Valid(c.bg)
           d == [c EXCEPT !.fg = fg, !.bg = bg]
<1>1. fg \in Inks /\ bg \in Inks /\ Valid(fg) = fg /\ Valid(bg) = bg
  BY InvalidIsNoColor DEF Valid, Contexts, Inks
<1>2. /\ d \in Contexts /\ d.stack = c.stack /\ d.open = c.open /\ d.fg = fg /\ d.bg = bg /\ d.nested
      /\ c.stack \in Seq(Controls)
  BY <1>1 DEF Contexts
<1>3. ColorTag(d) \in ColorTags
  BY <1>1, <1>2, ColorTagTyped
<1>4. Explained(d, ColorTag(d))
  <2>1. PICK m : Explains(m, c.stack, c.open, tag)
    BY DEF Explained
  <2>2. Explains(m, c.stack, c.open, ColorTag(d))
    BY <1>2, <2>1, TagIrrelevant
  <2> HIDE DEF d
  <2> QED BY <1>2, <2>2 DEF Explained
<1>5. OpenTag(c, "color") =
        IF fg = NoColor /\ bg = NoColor THEN d
        ELSE [d EXCEPT !.stack = Append(@, "color"), !.open = Append(@, <<"color">> \o Shown(fg, bg))]
  BY ControlKinds DEF OpenTag
<1> HIDE DEF fg, bg, d
<1>6. CASE fg = NoColor /\ bg = NoColor
  <2>1. GoodContext(d)
    BY <1>1, <1>2, <1>4, <1>6 DEF GoodContext, Colored
  <2> QED BY <1>2, <1>5, <1>6, <2>1 DEF fg, bg
<1>7. CASE ~(fg = NoColor /\ bg = NoColor)
  <2>1. Colored(d)
    BY <1>1, <1>2, <1>7 DEF Colored
  <2>2. OpenTag(d, "color") = OpenTag(c, "color")
    <3>1. OpenTag(d, "color") =
            [[d EXCEPT !.fg = fg, !.bg = bg]
               EXCEPT !.stack = Append(@, "color"), !.open = Append(@, <<"color">> \o Shown(fg, bg))]
      BY <1>1, <1>2, <1>7, ControlKinds DEF OpenTag
    <3>2. [d EXCEPT !.fg = fg, !.bg = bg] = d
      BY <1>2 DEF Contexts
    <3> QED BY <1>5, <1>7, <3>1, <3>2
  <2>3. "color" \in Controls
    BY ControlKinds
  <2>4. PICK open : /\ OpenTag(d, "color") = [d EXCEPT !.stack = Append(d.stack, "color"), !.open = open]
                    /\ \E m2 : Explains(m2, Append(d.stack, "color"), open, ColorTag(d))
    BY <1>2, <1>3, <1>4, <2>1, <2>3, OpenOne
  <2> DEFINE e == OpenTag(d, "color")
  <2>5. e \in Contexts
    BY <1>2, <2>3, OpenTyped
  <2> HIDE DEF e
  <2>6. e.stack = Append(d.stack, "color") /\ e.open = open /\ e.fg = fg /\ e.bg = bg /\ e.nested
    BY <1>2, <2>4 DEF Contexts, e
  <2>7. /\ IsInjective(e.stack) /\ ToSet(e.stack) = ToSet(c.stack) \cup {"color"}
    BY <1>2, <2>3, <2>6, AppendedOnce
  <2>8. Explained(e, ColorTag(e))
    BY <1>2, <2>4, <2>6 DEF Explained, ColorTag
  <2>9. GoodContext(e)
    BY <1>1, <1>2, <2>1, <2>5, <2>6, <2>7, <2>8 DEF GoodContext, Colored
  <2> QED BY <2>2, <2>6, <2>7, <2>9 DEF e, fg, bg
<1> QED BY <1>6, <1>7

Colorized(d, c, fg, bg) ==
  /\ GoodContext(d) /\ d.fg = Valid(fg) /\ d.bg = Valid(bg)
  /\ ToSet(d.stack) \ {"color"} = ToSet(c.stack) \ {"color"}

LEMMA ColorStep ==
  ASSUME NEW c, GoodContext(c), NEW fg \in Inks \cup {Invalid}, NEW bg \in Inks \cup {Invalid}
  PROVE  Colorized(do_colorize([c EXCEPT !.fg = fg, !.bg = bg], "color"), c, fg, bg)
<1> USE DEF Colorized
<1> DEFINE e == [c EXCEPT !.fg = fg, !.bg = bg]
           tag == ColorTag(c)
<1>1. /\ e \in Contexts /\ e.stack = c.stack /\ e.open = c.open /\ e.fg = fg /\ e.bg = bg /\ e.nested
      /\ e.stack \in Seq(Controls) /\ IsInjective(e.stack) /\ tag \in ColorTags
  BY ColorTagTyped DEF GoodContext, Contexts
<1>2. Explained(e, tag)
  BY <1>1 DEF GoodContext, Explained
<1> HIDE DEF e, tag
<1>3. CASE "color" \notin ToSet(e.stack)
  <2>1. do_colorize(e, "color") = OpenTag(e, "color")
    BY <1>1, <1>3, ColorizeIs
  <2>2. LET d == OpenTag(e, "color")
        IN  /\ GoodContext(d) /\ d.fg = Valid(e.fg) /\ d.bg = Valid(e.bg)
            /\ ToSet(d.stack) \ {"color"} = ToSet(e.stack)
    BY <1>1, <1>2, <1>3, FreshColor
  <2> QED BY <1>1, <1>3, <2>1, <2>2 DEF e
<1>4. CASE "color" \in ToSet(e.stack)
  <2>1. PICK p \in 1..Len(e.stack) : /\ e.stack[p] = "color"
                                    /\ do_colorize(e, "color") = CloseUpTo(e, "color", p)
    BY <1>1, <1>4, ColorizeIs
  <2> DEFINE t == Taken(e, p)
  <2>2. CloseUpTo(e, "color", p) = IF t.fg # NoColor \/ t.bg # NoColor THEN OpenTag(t, "color") ELSE t
    BY <2>1, CloseUpToIs
  <2>3. \A i \in p + 1..Len(e.stack) : e.stack[i] # "color"
    <3>1. /\ DOMAIN e.stack = 1..Len(e.stack) /\ Len(e.stack) \in Nat
      BY <1>1, LenProperties
    <3> QED BY <1>1, <2>1, <3>1 DEF IsInjective
  <2>4. PICK open : /\ t = [e EXCEPT !.stack = RemoveAt(e.stack, p), !.open = open]
                    /\ \E m2 : Explains(m2, RemoveAt(e.stack, p), open, tag)
    BY <1>1, <1>2, <2>3, TakenOut
  <2>5. p \in DOMAIN e.stack
    BY <1>1, LenProperties
  <2>6. /\ RemoveAt(e.stack, p) \in Seq(Controls) /\ IsInjective(RemoveAt(e.stack, p))
        /\ ToSet(RemoveAt(e.stack, p)) = ToSet(e.stack) \ {"color"}
    BY <1>1, <2>1, <2>5, RemovedAt, RemovedOnce
  <2>7. t \in Contexts
    BY <1>1, TakenTyped
  <2> HIDE DEF t
  <2>8. t.stack = RemoveAt(e.stack, p) /\ t.open = open /\ t.fg = fg /\ t.bg = bg /\ t.nested
    BY <1>1, <2>4 DEF Contexts
  <2>9. Explained(t, tag) /\ IsInjective(t.stack) /\ "color" \notin ToSet(t.stack)
        /\ ToSet(t.stack) = ToSet(e.stack) \ {"color"}
    BY <2>4, <2>6, <2>8 DEF Explained
  <2>10. CASE fg # NoColor \/ bg # NoColor
    <3>1. do_colorize(e, "color") = OpenTag(t, "color")
      BY <2>1, <2>2, <2>8, <2>10
    <3> QED BY <1>1, <2>7, <2>8, <2>9, <3>1, FreshColor DEF e
  <2>11. CASE ~(fg # NoColor \/ bg # NoColor)
    <3>1. do_colorize(e, "color") = t
      BY <2>1, <2>2, <2>8, <2>11
    <3>2. Valid(fg) = NoColor /\ Valid(bg) = NoColor /\ ~Colored(t) /\ NoColor \in Inks
      BY <2>8, <2>11 DEF Valid, Colored, Inks
    <3>3. Explained(t, ColorTag(t))
      <4>1. t.stack \in Seq(Controls)
        BY <2>7 DEF Contexts
      <4>2. PICK m : Explains(m, t.stack, t.open, tag)
        BY <2>9 DEF Explained
      <4>3. Explains(m, t.stack, t.open, ColorTag(t))
        BY <2>9, <4>1, <4>2, TagIrrelevant
      <4> QED BY <4>3 DEF Explained
    <3>4. GoodContext(t)
      BY <2>7, <2>8, <2>9, <2>11, <3>2, <3>3 DEF GoodContext
    <3> QED BY <1>1, <2>8, <2>9, <2>11, <3>1, <3>2, <3>4 DEF e
  <2> QED BY <2>10, <2>11
<1> QED BY <1>3, <1>4 DEF e

LEMMA ColorizeFold ==
  ASSUME NEW c \in Contexts, NEW tags \in Seq(Controls)
  PROVE  \E f \in [0..Len(tags) -> Contexts] :
           /\ f[0] = c /\ \A k \in 1..Len(tags) : f[k] = do_colorize(f[k - 1], tags[k])
           /\ f[Len(tags)] = FoldLeft(do_colorize, c, tags)
<1>0. PICK n \in Nat : n = Len(tags) /\ DOMAIN tags = 1..n /\ \A k \in 1..n : tags[k] \in Controls
  BY LenProperties, ElementOfSeq
<1> DEFINE F == [p \in (1..n) \X Contexts |-> do_colorize(p[2], tags[p[1]])]
           Next(it, s) == IF s = {} THEN c ELSE do_colorize(it[s \ {Max(s)}], tags[Max(s)])
           g == CHOOSE h : h = [s \in SUBSET (1..n) |-> Next(h, s)]
<1>1. Steps(F, Contexts, n)
  BY <1>0, ColorizeTyped DEF Steps
<1>2. \A k \in 1..n, x \in Contexts : F[<<k, x>>] = do_colorize(x, tags[k])
  OBVIOUS
<1>3. FoldLeft(do_colorize, c, tags) = g[1..n]
  BY <1>0 DEF FoldLeft, MapThenFoldSet
<1> HIDE DEF F
<1>4. PICK it : IsFold(it, Contexts, n, c, F)
  BY <1>1, FoldExists
<1>5. it = [s \in SUBSET (1..n) |-> Next(it, s)]
  <2>1. ASSUME NEW s \in SUBSET (1..n), s # {}
        PROVE  it[s] = do_colorize(it[s \ {Max(s)}], tags[Max(s)])
    BY <1>2, <1>4, <2>1, MaxIn DEF IsFold
  <2>2. \A s \in SUBSET (1..n) : it[s] = Next(it, s)
    BY <1>4, <2>1 DEF IsFold
  <2>3. it = [s \in SUBSET (1..n) |-> it[s]]
    BY <1>4 DEF IsFold
  <2> QED BY <2>2, <2>3
<1>6. g = [s \in SUBSET (1..n) |-> Next(g, s)]
  BY <1>5
<1> HIDE DEF g
<1>7. g[{}] = c /\ \A s \in SUBSET (1..n) : s # {} => g[s] = do_colorize(g[s \ {Max(s)}], tags[Max(s)])
  <2>1. {} \in SUBSET (1..n)
    OBVIOUS
  <2> QED BY <1>6, <2>1
<1>8. Recurs(g, Contexts, n, c, F)
  BY <1>2, <1>7, MaxIn DEF Recurs
<1>9. PICK f : IsLeftFold(f, g, Contexts, n, c, F)
  BY <1>0, <1>1, <1>8, FoldValues
<1>10. f \in [0..n -> Contexts] /\ f[0] = c /\ f[n] = FoldLeft(do_colorize, c, tags)
  BY <1>3, <1>9 DEF IsLeftFold
<1>11. ASSUME NEW k \in 1..n PROVE f[k] = do_colorize(f[k - 1], tags[k])
  <2>1. f[k - 1] \in Contexts
    BY <1>0, <1>10
  <2>2. f[k] = F[<<k, f[k - 1]>>]
    BY <1>9 DEF IsLeftFold
  <2> QED BY <1>2, <2>1, <2>2
<1> QED BY <1>0, <1>10, <1>11

LEMMA ReverseIs ==
  ASSUME NEW S, NEW s \in Seq(S)
  PROVE  /\ Reverse(s) \in Seq(S) /\ Len(Reverse(s)) = Len(s)
         /\ \A i \in 1..Len(s) : Reverse(s)[i] = s[Len(s) - i + 1]
<1>1. Len(s) \in Nat /\ \A i \in 1..Len(s) : s[i] \in S
  BY LenProperties, ElementOfSeq
<1>2. \A i \in 1..Len(s) : (Len(s) - i) + 1 \in 1..Len(s)
  BY <1>1
<1>3. Reverse(s) = [i \in 1..Len(s) |-> s[(Len(s) - i) + 1]]
  BY DEF Reverse
<1> QED BY <1>1, <1>2, <1>3

(* MIRC_PLAIN takes the controls from the top, and nothing is opened again. *)
LEMMA PlainStep ==
  ASSUME NEW c, GoodContext(c)
  PROVE  LET d == Plain(c)
         IN  GoodContext(d) /\ d.fg = NoColor /\ d.bg = NoColor /\ ToSet(d.stack) = {}
<1> DEFINE c0 == [c EXCEPT !.fg = NoColor, !.bg = NoColor]
           tag == ColorTag(c)
<1>1. PICK codes \in Seq(Controls) : codes = c.stack /\ IsInjective(codes)
  BY DEF GoodContext, Contexts
<1>2. PICK n \in Nat : n = Len(codes) /\ DOMAIN codes = 1..n /\ \A i \in 1..n : codes[i] \in Controls
  BY LenProperties, ElementOfSeq
<1>3. /\ c0 \in Contexts /\ c0.stack = codes /\ c0.open = c.open /\ c0.fg = NoColor /\ c0.bg = NoColor
      /\ c0.nested /\ tag \in ColorTags
  BY <1>1, ColorTagTyped DEF GoodContext, Contexts, Inks
<1>4. Explained(c0, tag)
  BY <1>1, <1>3 DEF GoodContext, Explained
<1>5. PICK tags \in Seq(Controls) :
        tags = Reverse(codes) /\ Len(tags) = n /\ \A i \in 1..n : tags[i] = codes[n - i + 1]
  BY <1>2, ReverseIs
<1>6. Plain(c) = FoldLeft(do_colorize, c0, tags)
  BY <1>1, <1>5 DEF Plain
<1> HIDE DEF c0, tag
<1>7. PICK f \in [0..n -> Contexts] :
         /\ f[0] = c0 /\ \A k \in 1..n : f[k] = do_colorize(f[k - 1], tags[k])
         /\ f[n] = FoldLeft(do_colorize, c0, tags)
  <2>1. c0 \in Contexts /\ n = Len(tags)
    BY <1>3, <1>5
  <2> QED BY ZenonT(30), <2>1, ColorizeFold
<1> DEFINE Fits(k) == /\ f[k].stack = SubSeq(codes, 1, n - k) /\ f[k].fg = NoColor /\ f[k].bg = NoColor
                      /\ f[k].nested /\ Explained(f[k], tag)
           S == {k \in 0..n : Fits(k)}
<1>8. Fits(0)
  <2>1. SubSeq(codes, 1, n - 0) = codes
    BY <1>2, SubSeqFull
  <2> QED BY <1>3, <1>4, <1>7, <2>1
<1>9. ASSUME NEW k \in 0..n, k < n, Fits(k) PROVE Fits(k + 1)
  <2> DEFINE x == f[k]
             p == n - k
             t == Taken(x, p)
  <2>1. /\ p \in 1..n /\ k + 1 \in 1..n /\ (k + 1) - 1 = k /\ n - (k + 1) + 1 = p /\ n - (k + 1) = p - 1
        /\ p - 1 \in 0..n
    <3>1. n \in Nat /\ k \in 0..n /\ k < n
      BY <1>2, <1>9
    <3> HIDE DEF Fits, x, t
    <3> QED BY <3>1
  <2>2. /\ x \in Contexts /\ x.stack = SubSeq(codes, 1, p) /\ x.fg = NoColor /\ x.bg = NoColor /\ x.nested
        /\ Explained(x, tag)
    <3>1. f[k] \in Contexts
      BY <1>7
    <3> QED BY <1>9, <3>1, Zenon
  <2> HIDE DEF x, p
  <2>3. /\ x.stack \in Seq(Controls) /\ Len(x.stack) = p
        /\ \A i \in 1..p : x.stack[i] = codes[i] /\ i \in 1..n
    BY <1>2, <2>1, <2>2, SubSeqProperties
  <2>4. /\ f[k + 1] = do_colorize(x, codes[p]) /\ codes[p] \in Controls
    <3>1. f[k + 1] = do_colorize(f[(k + 1) - 1], tags[k + 1])
      BY <1>7, <2>1
    <3>2. tags[k + 1] = codes[n - (k + 1) + 1]
      BY <1>5, <2>1
    <3>3. f[k + 1] = do_colorize(f[k], codes[p])
      BY <2>1, <3>1, <3>2
    <3> QED BY <1>2, <2>1, <3>3 DEF x
  <2>5. codes[p] \in ToSet(x.stack)
    <3>1. p \in DOMAIN x.stack
      BY <2>1, <2>3, LenProperties
    <3>2. x.stack[p] = codes[p]
      BY <2>1, <2>3
    <3> QED BY <3>1, <3>2, Zenon DEF ToSet
  <2>6. PICK i \in 1..Len(x.stack) : /\ x.stack[i] = codes[p]
                                    /\ do_colorize(x, codes[p]) = CloseUpTo(x, codes[p], i)
    BY <2>3, <2>5, ColorizeIs
  <2>7. i = p
    BY <1>1, <1>2, <2>1, <2>3, <2>6 DEF IsInjective
  <2>8. PICK open : /\ t = [x EXCEPT !.stack = RemoveAt(x.stack, p), !.open = open]
                    /\ \E m2 : Explains(m2, RemoveAt(x.stack, p), open, tag)
    <3>1. \A j \in p + 1..Len(x.stack) : FALSE
      BY <2>1, <2>3
    <3>2. p \in 1..Len(x.stack)
      BY <2>1, <2>3
    <3> QED BY <1>3, <2>2, <3>1, <3>2, TakenOut
  <2>9. CloseUpTo(x, codes[p], p) =
          IF codes[p] = "color" /\ (t.fg # NoColor \/ t.bg # NoColor) THEN OpenTag(t, codes[p]) ELSE t
    BY <2>6, <2>7, CloseUpToIs
  <2>10. t \in Contexts
    <3>1. p \in 1..Len(x.stack)
      BY <2>1, <2>3
    <3> QED BY <2>2, <3>1, TakenTyped
  <2> HIDE DEF t
  <2>11. t.stack = RemoveAt(x.stack, p) /\ t.open = open /\ t.fg = NoColor /\ t.bg = NoColor /\ t.nested
    BY <2>2, <2>8 DEF Contexts
  <2>12. f[k + 1] = t
    BY <2>4, <2>6, <2>7, <2>9, <2>11
  <2>13. RemoveAt(x.stack, p) = SubSeq(codes, 1, p - 1)
    <3>1. /\ RemoveAt(x.stack, p) \in Seq(Controls) /\ Len(RemoveAt(x.stack, p)) = p - 1
          /\ \A j \in 1..p - 1 : RemoveAt(x.stack, p)[j] = codes[j]
      <4>1. p \in DOMAIN x.stack
        BY <2>1, <2>3, LenProperties
      <4>2. /\ RemoveAt(x.stack, p) \in Seq(Controls)
            /\ Len(RemoveAt(x.stack, p)) = Len(x.stack) - 1
            /\ \A j \in 1..Len(x.stack) - 1 :
                  RemoveAt(x.stack, p)[j] = IF j < p THEN x.stack[j] ELSE x.stack[j + 1]
        BY <2>3, <4>1, RemovedAt
      <4> QED BY <2>1, <2>3, <4>2
    <3>2. /\ SubSeq(codes, 1, p - 1) \in Seq(Controls) /\ Len(SubSeq(codes, 1, p - 1)) = p - 1
          /\ \A j \in 1..p - 1 : SubSeq(codes, 1, p - 1)[j] = codes[j]
      BY <1>2, <2>1, SubSeqProperties
    <3> QED BY <3>1, <3>2, SeqEqual
  <2>14. Explained(t, tag)
    BY <2>8, <2>11 DEF Explained
  <2> QED BY <2>1, <2>11, <2>12, <2>13, <2>14
<1>10. Fits(n)
  <2>1. 0 \in S /\ \A k \in 0..n : k < n /\ k \in S => k + 1 \in S
    BY <1>2, <1>8, <1>9
  <2> HIDE DEF S
  <2>2. \A k \in 0..n : k \in S
    BY <1>2, <2>1, BoundedInduction
  <2> QED BY <1>2, <2>2 DEF S
<1> DEFINE d == f[n]
<1>11. /\ d \in Contexts /\ d.stack = <<>> /\ d.fg = NoColor /\ d.bg = NoColor /\ d.nested
       /\ Explained(d, tag)
  <2>1. SubSeq(codes, 1, n - n) = <<>>
    BY <1>2, SubSeqEmpty
  <2> QED BY <1>2, <1>7, <1>10, <2>1
<1> HIDE DEF d
<1>12. ToSet(d.stack) = {} /\ IsInjective(d.stack)
  BY <1>11 DEF ToSet, IsInjective
<1>13. Explained(d, ColorTag(d))
  <2>1. PICK m : Explains(m, d.stack, d.open, tag)
    BY <1>11 DEF Explained
  <2>2. d.stack \in Seq(Controls) /\ "color" \notin ToSet(d.stack)
    BY <1>11, <1>12 DEF Contexts
  <2>3. Explains(m, d.stack, d.open, ColorTag(d))
    BY <2>1, <2>2, TagIrrelevant
  <2> QED BY <2>3 DEF Explained
<1>14. GoodContext(d)
  BY <1>11, <1>12, <1>13 DEF GoodContext, Colored, Inks
<1> QED BY <1>6, <1>7, <1>11, <1>12, <1>14 DEF d

-----------------------------------------------------------------------------
(* The stack says exactly which tags are open. *)
LEMMA OpenExact ==
  ASSUME NEW codes \in Seq(Controls), IsInjective(codes), NEW open, NEW tag \in ColorTags,
         NEW m, Explains(m, codes, open, tag)
  PROVE  /\ open \in Seq(Tags) /\ IsInjective(open)
         /\ \A t : t \in ToSet(open) <=> \E ch \in ToSet(codes) \ Silent : t = TagOf(ch, tag)
<1>1. PICK n \in Nat : /\ n = Len(codes) /\ DOMAIN codes = 1..n
                       /\ \A i \in 1..n : codes[i] \in Controls
  BY LenProperties, ElementOfSeq
<1> DEFINE Fits(k) == /\ IsInjective(m[k])
                      /\ \A t : t \in ToSet(m[k]) <=>
                                 \E i \in 1..k : codes[i] \notin Silent /\ t = TagOf(codes[i], tag)
           S == {k \in 0..n : Fits(k)}
<1>2. m \in [0..n -> Seq(Tags)] /\ m[0] = <<>> /\ m[n] = open
  BY <1>1 DEF Explains
<1>3. Fits(0)
  <2>1. IsInjective(<<>>) /\ ToSet(<<>>) = {}
    BY DEF IsInjective, ToSet
  <2> QED BY <1>2, <2>1
<1>4. ASSUME NEW k \in 0..n, k < n, Fits(k) PROVE Fits(k + 1)
  <2>1. k + 1 \in 1..n /\ (k + 1) - 1 = k /\ \A i \in 1..k + 1 : i = k + 1 \/ i \in 1..k
    BY <1>1, <1>4
  <2>2. m[k + 1] = IF codes[k + 1] \in Silent THEN m[k] ELSE Append(m[k], TagOf(codes[k + 1], tag))
    BY <1>1, <2>1 DEF Explains
  <2>3. CASE codes[k + 1] \in Silent
    BY <1>4, <2>1, <2>2, <2>3
  <2>4. CASE codes[k + 1] \notin Silent
    <3> DEFINE e == TagOf(codes[k + 1], tag)
    <3>1. e \in Tags /\ m[k] \in Seq(Tags)
      BY <1>1, <1>2, <2>1, TagFacts
    <3>2. e \notin ToSet(m[k])
      <4>1. ASSUME NEW i \in 1..k, e = TagOf(codes[i], tag) PROVE FALSE
        <5>1. i \in 1..n /\ i # k + 1
          BY <1>1, <2>1
        <5>2. codes[i] = codes[k + 1]
          BY <1>1, <2>1, <4>1, <5>1, TagFacts
        <5> QED BY <1>1, <2>1, <5>1, <5>2 DEF IsInjective
      <4> QED BY <1>4, <4>1
    <3>3. IsInjective(Append(m[k], e)) /\ ToSet(Append(m[k], e)) = ToSet(m[k]) \cup {e}
      BY <1>4, <3>1, <3>2, AppendedOnce
    <3>4. m[k + 1] = Append(m[k], e)
      BY <2>2, <2>4
    <3> HIDE DEF e
    <3>5. \A t : t \in ToSet(m[k + 1]) <=> t \in ToSet(m[k]) \/ t = e
      BY <3>3, <3>4
    <3>6. ASSUME NEW t
          PROVE  t \in ToSet(m[k + 1]) <=>
                   \E i \in 1..k + 1 : codes[i] \notin Silent /\ t = TagOf(codes[i], tag)
      <4>1. t \in ToSet(m[k + 1]) => \E i \in 1..k + 1 : codes[i] \notin Silent /\ t = TagOf(codes[i], tag)
        <5>1. \A i \in 1..k : i \in 1..k + 1
          BY <2>1
        <5>2. k + 1 \in 1..k + 1
          BY <1>1
        <5> QED BY <1>4, <2>4, <3>5, <5>1, <5>2 DEF e
      <4>2. ASSUME NEW i \in 1..k + 1, codes[i] \notin Silent, t = TagOf(codes[i], tag)
            PROVE  t \in ToSet(m[k + 1])
        BY <1>4, <2>1, <3>5, <4>2 DEF e
      <4> QED BY <4>1, <4>2
    <3> QED BY <3>3, <3>4, <3>6
  <2> QED BY <2>3, <2>4
<1>5. Fits(n)
  <2> HIDE DEF Fits
  <2>1. 0 \in S /\ \A k \in 0..n : k < n /\ k \in S => k + 1 \in S
    BY <1>1, <1>3, <1>4
  <2> HIDE DEF S
  <2>2. \A k \in 0..n : k \in S
    BY <1>1, <2>1, BoundedInduction
  <2> QED BY <1>1, <2>2 DEF S
<1>6. \A ch : ch \in ToSet(codes) <=> \E i \in 1..n : codes[i] = ch
  BY <1>1 DEF ToSet
<1>7. open \in Seq(Tags)
  BY <1>1, <1>2
<1> QED BY <1>2, <1>5, <1>6, <1>7

MircInv ==
  /\ GoodContext(ctx)
  /\ ink = [fg |-> ctx.fg, bg |-> ctx.bg]
  /\ styles \subseteq Toggles \cup Silent
  /\ ToSet(ctx.stack) \ {"color"} = styles

LEMMA MircInit1 == MircInit => MircInv
<1> SUFFICES ASSUME MircInit PROVE MircInv
  OBVIOUS
<1>1. /\ ctx.stack = <<>> /\ ctx.open = <<>> /\ ctx.fg = NoColor /\ ctx.bg = NoColor /\ ctx.nested
      /\ ctx \in Contexts
  BY DEF MircInit, NoMarkup, Contexts, Inks
<1>2. ToSet(ctx.stack) = {} /\ IsInjective(ctx.stack)
  BY <1>1 DEF ToSet, IsInjective
<1>3. Explains([i \in 0..0 |-> <<>>], ctx.stack, ctx.open, ColorTag(ctx))
  BY <1>1 DEF Explains
<1>4. GoodContext(ctx)
  BY <1>1, <1>2, <1>3 DEF GoodContext, Explained, Colored, Inks
<1> QED BY <1>1, <1>2, <1>4 DEF MircInv, MircInit

LEMMA MircInvKept == MircInv /\ [MircNext]_mircVars => MircInv'
<1> SUFFICES ASSUME MircInv, [MircNext]_mircVars PROVE MircInv'
  OBVIOUS
<1>1. /\ GoodContext(ctx) /\ ink = [fg |-> ctx.fg, bg |-> ctx.bg] /\ styles \subseteq Toggles \cup Silent
      /\ ToSet(ctx.stack) \ {"color"} = styles
  BY DEF MircInv
<1>2. ASSUME NEW ch \in Toggles \cup Silent, ReadToggle(ch) PROVE MircInv'
  <2>1. /\ GoodContext(ctx') /\ ctx'.fg = ctx.fg /\ ctx'.bg = ctx.bg
        /\ ToSet(ctx'.stack) = (ToSet(ctx.stack) \ {ch}) \cup ({ch} \ ToSet(ctx.stack))
    BY <1>1, <1>2, ToggleStep DEF ReadToggle
  <2>2. ToSet(ctx'.stack) \ {"color"} = styles' /\ styles' \subseteq Toggles \cup Silent
    BY <1>1, <1>2, <2>1, ControlKinds DEF ReadToggle, Toggled
  <2> QED BY <1>1, <1>2, <2>1, <2>2 DEF MircInv, ReadToggle
<1>3. ASSUME NEW fg \in Colors \cup {Invalid, Absent}, NEW bg \in Colors \cup {Invalid, Absent}, ReadColor(fg, bg)
      PROVE  MircInv'
  <2> DEFINE New(color, old) == IF fg = Absent /\ bg = Absent THEN NoColor
                                ELSE IF color = Absent THEN old ELSE color
             f == New(fg, ctx.fg)
             b == New(bg, ctx.bg)
  <2>1. f \in Inks \cup {Invalid} /\ b \in Inks \cup {Invalid}
    BY <1>1 DEF GoodContext, Inks
  <2>2. ctx' = do_colorize([ctx EXCEPT !.fg = f, !.bg = b], "color")
    BY <1>1, <1>3 DEF ReadColor
  <2>3. ink' = [fg |-> Valid(f), bg |-> Valid(b)]
    BY <1>1, <1>3 DEF ReadColor
  <2> HIDE DEF f, b
  <2>4. /\ GoodContext(ctx') /\ ctx'.fg = Valid(f) /\ ctx'.bg = Valid(b)
        /\ ToSet(ctx'.stack) \ {"color"} = ToSet(ctx.stack) \ {"color"}
    <3>1. GoodContext(ctx)
      BY <1>1
    <3>2. Colorized(do_colorize([ctx EXCEPT !.fg = f, !.bg = b], "color"), ctx, f, b)
      BY <3>1, <2>1, ColorStep
    <3>3. Colorized(ctx', ctx, f, b)
      BY <3>2, <2>2
    <3> QED BY <3>3 DEF Colorized
  <2> QED BY <1>1, <1>3, <2>3, <2>4 DEF MircInv, ReadColor
<1>4. CASE ReadPlain
  <2>1. GoodContext(ctx') /\ ctx'.fg = NoColor /\ ctx'.bg = NoColor /\ ToSet(ctx'.stack) = {}
    BY <1>1, <1>4, PlainStep DEF ReadPlain
  <2> QED BY <1>4, <2>1 DEF MircInv, ReadPlain
<1>5. CASE UNCHANGED mircVars
  BY <1>1, <1>5 DEF MircInv, mircVars
<1> QED BY <1>2, <1>3, <1>4, <1>5 DEF MircNext

(* After any controls the stack of mirc_colorize_renderer.c holds every    *)
(* style that is on, once; its colours are those asked for; and what is    *)
(* open are the tags for what is on the stack, in the same order.          *)
THEOREM MircInvariance == MircSpec => []MircInv
<1> QED BY MircInit1, MircInvKept, PTL DEF MircSpec

(* do_colorize closes what it has to reopen and reopens what it closed:    *)
(* whatever control characters and colours a text has, each character is   *)
(* shown with what those before it ask for, and the markup stays nested.   *)
THEOREM MarkupIsAsAsked == MircSpec => []ShownAsAsked
<1>1. ASSUME MircInv PROVE ShownAsAsked
  <2> DEFINE tag == ColorTag(ctx)
             styled == {<<ch>> : ch \in styles \cap Toggles}
             colored == IF ink.fg = NoColor /\ ink.bg = NoColor THEN {} ELSE {<<"color">> \o Shown(ink.fg, ink.bg)}
  <2>1. /\ ctx \in Contexts /\ ctx.nested /\ ctx.stack \in Seq(Controls) /\ IsInjective(ctx.stack)
        /\ tag \in ColorTags /\ Explained(ctx, tag) /\ {ctx.fg, ctx.bg} \subseteq Inks
        /\ "color" \in ToSet(ctx.stack) <=> Colored(ctx)
        /\ ink.fg = ctx.fg /\ ink.bg = ctx.bg
        /\ ToSet(ctx.stack) \ {"color"} = styles /\ styles \subseteq Toggles \cup Silent
    BY <1>1, ColorTagTyped DEF MircInv, GoodContext, Contexts
  <2>2. /\ ctx.open \in Seq(Tags) /\ IsInjective(ctx.open)
        /\ \A t : t \in ToSet(ctx.open) <=> \E ch \in ToSet(ctx.stack) \ Silent : t = TagOf(ch, tag)
    <3> HIDE DEF tag
    <3>1. PICK m : Explains(m, ctx.stack, ctx.open, tag)
      BY <2>1 DEF Explained
    <3> QED BY <2>1, <3>1, OpenExact
  <2>3. Len(ctx.open) = Cardinality(ToSet(ctx.open))
    BY <2>2, InjectiveCount
  <2>4. ASSUME NEW t PROVE t \in ToSet(ctx.open) <=> t \in styled \cup colored
    <3>1. \A ch : ch \in ToSet(ctx.stack) \ Silent <=> ch \in styles \cap Toggles \/ (ch = "color" /\ Colored(ctx))
      BY <2>1, ControlKinds
    <3>2. \A ch \in Toggles : TagOf(ch, tag) = <<ch>>
      BY ControlKinds DEF TagOf
    <3>3. TagOf("color", tag) = <<"color">> \o Shown(ink.fg, ink.bg)
      BY <2>1 DEF TagOf, ColorTag
    <3>4. Colored(ctx) <=> ~(ink.fg = NoColor /\ ink.bg = NoColor)
      BY <2>1 DEF Colored
    <3> QED BY SMTT(30), <2>2, <3>1, <3>2, <3>3, <3>4
  <2> QED BY <2>1, <2>3, <2>4 DEF ShownAsAsked
<1> QED BY <1>1, MircInvariance, PTL

(* The context of do_colorize keeps its types: no control is on the stack  *)
(* twice, and no invalid colour is kept.                                   *)
THEOREM MircTypeCorrect == MircSpec => []MircTypeOK
<1>1. MircInv => MircTypeOK
  BY ControlKinds DEF MircInv, GoodContext, MircTypeOK, Contexts, Inks
<1> QED BY <1>1, MircInvariance, PTL

-----------------------------------------------------------------------------
(* The window.                                                             *)

AgreeInv ==
  /\ stack \in Seq(Buffers)
  /\ unread \in [Buffers -> Nat]
  /\ visible \in Live \cup {NoBuffer}
  /\ CurrentAgrees

LEMMA RowRemovedTyped ==
  ASSUME stack \in Seq(Buffers), NEW b \in Live
  PROVE  /\ RowRemoved(b) \in Seq(Buffers)
         /\ Live \ {b} \subseteq ToSet(RowRemoved(b))
<1> DEFINE at == CHOOSE i \in DOMAIN stack : stack[i] = b
<1>1. at \in DOMAIN stack /\ stack[at] = b
  BY DEF Live, ToSet
<1>2. at \in 1..Len(stack) /\ Len(stack) \in Nat
  BY <1>1
<1> DEFINE before == SubSeq(stack, 1, at - 1)
           after == SubSeq(stack, at + 1, Len(stack))
<1> HIDE DEF at
<1>3. /\ before \in Seq(Buffers) /\ Len(before) = at - 1
      /\ \A i \in 1..(at - 1) : before[i] = stack[i]
  BY <1>2
<1>4. /\ after \in Seq(Buffers) /\ Len(after) = Len(stack) - at
      /\ \A i \in 1..(Len(stack) - at) : after[i] = stack[i + at]
  BY <1>2
<1> DEFINE left == before \o after
<1>5. RowRemoved(b) = left
  BY DEF RowRemoved, RemoveAt, at
<1> HIDE DEF before, after
<1>6. left \in Seq(Buffers) /\ DOMAIN left = 1..(Len(stack) - 1)
  BY <1>2, <1>3, <1>4
<1>7. ASSUME NEW x \in Live \ {b} PROVE x \in ToSet(left)
  <2>1. PICK j \in 1..Len(stack) : stack[j] = x
    BY DEF Live, ToSet
  <2>2. j # at
    BY <1>1, <2>1
  <2>3. CASE j < at
    <3>1. j \in 1..Len(before) /\ left[j] = x
      BY <1>2, <1>3, <1>4, <2>1, <2>3
    <3> QED BY <1>2, <1>3, <1>6, <3>1 DEF ToSet
  <2>4. CASE j > at
    <3> DEFINE i == j - at
    <3>1. i \in 1..Len(after) /\ after[i] = x
      BY <1>2, <1>4, <2>1, <2>4
    <3>2. left[Len(before) + i] = x /\ Len(before) + i \in 1..(Len(stack) - 1)
      BY <1>2, <1>3, <1>4, <3>1, <2>1, <2>4
    <3> QED BY <1>6, <3>2 DEF ToSet
  <2> QED BY <1>2, <2>1, <2>2, <2>3, <2>4
<1> QED BY <1>5, <1>6, <1>7

(* Whatever is shown is selected, told to the core and seen. *)
LEMMA ShowAgrees ==
  ASSUME AgreeInv, NEW b \in Buffers \cup {NoBuffer}, NEW added, Show(b, added)
  PROVE  unread' \in [Buffers -> Nat] /\ visible' = b /\ CurrentAgrees'
BY DEF AgreeInv, Show, CutOver, Seen, CurrentAgrees

LEMMA OpenedAgrees ==
  ASSUME AgreeInv, NEW b \in Buffers, Opened(b)
  PROVE  AgreeInv'
<1>1. stack' \in Seq(Buffers) /\ b \in Live'
  BY DEF AgreeInv, Opened, RowAdded, Live, ToSet
<1>2. unread' \in [Buffers -> Nat] /\ visible' = b /\ CurrentAgrees'
  BY ShowAgrees DEF Opened
<1> QED BY <1>1, <1>2 DEF AgreeInv

LEMMA ClosedAgrees ==
  ASSUME AgreeInv, NEW b \in Live, Closed(b)
  PROVE  AgreeInv'
<1>1. /\ stack' = RowRemoved(b) /\ stack' \in Seq(Buffers)
      /\ Live \ {b} \subseteq Live'
  BY RowRemovedTyped DEF AgreeInv, Closed, Live
<1>2. CASE visible # b
  BY <1>1, <1>2 DEF AgreeInv, Closed, CurrentAgrees
<1>3. CASE visible = b
  <2>1. Show(IF stack' = <<>> THEN NoBuffer ELSE Head(stack'), FALSE)
    BY <1>1, <1>3 DEF Closed
  <2>2. stack' # <<>> => Head(stack') \in Live' /\ Live' \subseteq Buffers
    BY <1>1 DEF Live, ToSet
  <2> QED BY <1>1, <2>1, <2>2, ShowAgrees DEF AgreeInv
<1> QED BY <1>2, <1>3

LEMMA AgreeInit == WindowInit => AgreeInv
BY DEF WindowInit, AgreeInv, CurrentAgrees

LEMMA AgreeStep == AgreeInv /\ [WindowNext]_windowVars => AgreeInv'
<1> SUFFICES ASSUME AgreeInv, [WindowNext]_windowVars PROVE AgreeInv'
  OBVIOUS
<1> DEFINE Same == UNCHANGED <<stack, visible, row, core, unread>>
<1>0. Live \subseteq Buffers
  BY DEF AgreeInv, Live, ToSet
<1>1. CASE Same
  BY <1>1 DEF AgreeInv, Live, CurrentAgrees
<1>2. ASSUME NEW b \in Buffers, OpenBuffer(b) PROVE AgreeInv'
  BY <1>2, OpenedAgrees DEF OpenBuffer
<1>3. ASSUME NEW b \in Buffers, CloseBuffer(b) PROVE AgreeInv'
  <2>1. b \in Live /\ Closed(b)
    BY <1>3 DEF CloseBuffer
  <2> QED BY <2>1, ClosedAgrees
<1>4. ASSUME NEW b \in Buffers, SelectRow(b) PROVE AgreeInv'
  <2>1. unread' \in [Buffers -> Nat] /\ visible' = b /\ CurrentAgrees'
    BY <1>4, ShowAgrees DEF SelectRow
  <2> QED BY <1>4, <2>1 DEF SelectRow, AgreeInv, Live
<1>5. ASSUME NEW b \in Buffers, AddMessage(b) PROVE AgreeInv'
  <2>1. unread' \in [Buffers -> Nat] /\ UNCHANGED <<stack, visible, row, core>>
    BY <1>0, <1>5, WindowAssumption DEF AddMessage, AgreeInv, Seen, MoreUnread
  <2>2. visible # NoBuffer => unread'[visible] = 0
    BY <1>0, <1>5 DEF AddMessage, AgreeInv, CurrentAgrees, Seen, MoreUnread
  <2> QED BY <2>1, <2>2 DEF AgreeInv, CurrentAgrees, Live
<1>6. ASSUME NEW b \in Buffers, TickOpen(b) PROVE AgreeInv'
  <2>1. CASE b \notin Live
    BY <1>6, <2>1, OpenedAgrees DEF TickOpen
  <2>2. CASE b \in Live
    <3>1. unread' \in [Buffers -> Nat] /\ visible' = b /\ CurrentAgrees'
      BY <1>6, <2>2, ShowAgrees DEF TickOpen
    <3> QED BY <1>6, <2>2, <3>1 DEF TickOpen, AgreeInv, Live
  <2> QED BY <2>1, <2>2
<1>7. CASE TickClose
  BY <1>7, ClosedAgrees DEF TickClose, SendFirst, TickDue, AgreeInv
<1>8. CASE \/ \E kind \in LineKinds : TypeLine(kind)
           \/ Click \/ TickEmpty \/ TickWait \/ WaitEnds
           \/ \E ok \in BOOLEAN : TickText(ok)
  BY <1>1, <1>8 DEF TypeLine, Click, TickEmpty, TickWait, WaitEnds, TickText
<1>9. CASE UNCHANGED windowVars
  BY <1>1, <1>9 DEF windowVars
<1> QED BY <1>2, <1>3, <1>4, <1>5, <1>6, <1>7, <1>8, <1>9 DEF WindowNext

-----------------------------------------------------------------------------
(* Sending.                                                                *)

TypedLines == [id : 1..MaxTyped, kind : LineKinds]
WaitingCall == [buf : Buffers, line : TypedLines, timer : Nat \ {0}, text : Seq(TypedLines)]

InputTyped ==
  /\ input \in [Buffers -> Seq(TypedLines)] /\ typed \in 0..MaxTyped
  /\ timesSent \in [1..MaxTyped -> Nat]
  /\ \A b \in Buffers : \A i \in DOMAIN input[b] : input[b][i].id <= typed
  /\ \A id \in 1..MaxTyped : timesSent[id] > 0 => id <= typed

TimerInv ==
  /\ clicks \in Nat /\ timer \in {0, clicks} /\ visible \in Buffers \cup {NoBuffer}
  /\ timer # 0 => visible = clickedIn

(* A line is in one place. *)
OneOfEach ==
  \A b, c \in Buffers : \A i \in DOMAIN input[b], j \in DOMAIN input[c] :
    input[b][i].id = input[c][j].id => b = c /\ i = j

(* A line that was sent is gone, or waits, or was disturbed while it did. *)
SentAndGone ==
  \A b \in Buffers : \A i \in DOMAIN input[b] :
    timesSent[input[b][i].id] > 0 => input[b][i].id \in disturbed \cup InWait(b)

(* What an undisturbed call c will find when its wait ends: its line, and  *)
(* no other timer for its buffer.                                          *)
Untouched(c) ==
  /\ input[c.buf] = c.text /\ c.text # <<>> /\ Head(c.text) = c.line
  /\ timer # 0 => timer = c.timer \/ clickedIn # c.buf

CallsInv ==
  /\ calls \in Seq(WaitingCall)
  /\ \A k \in DOMAIN calls : calls[k].timer <= clicks
  /\ \A k \in DOMAIN calls : calls[k].line.id \notin disturbed => Untouched(calls[k])
  /\ \A j, k \in DOMAIN calls :
       j < k /\ calls[j].buf = calls[k].buf => calls[j].line.id \in disturbed

SendInv == InputTyped /\ TimerInv /\ OneOfEach /\ SentAndGone /\ CallsInv

LEMMA SendInit == WindowInit => SendInv
<1> SUFFICES ASSUME WindowInit PROVE SendInv
  OBVIOUS
<1>1. InputTyped /\ TimerInv /\ OneOfEach /\ SentAndGone
  BY WindowAssumption DEF WindowInit, InputTyped, TimerInv, OneOfEach, SentAndGone
<1>2. CallsInv
  BY DEF WindowInit, CallsInv
<1> QED BY <1>1, <1>2 DEF SendInv

LEMMA CallTyped ==
  ASSUME calls \in Seq(WaitingCall), NEW k \in DOMAIN calls
  PROVE  /\ calls[k].buf \in Buffers /\ calls[k].line \in TypedLines
         /\ calls[k].text \in Seq(TypedLines)
         /\ calls[k].timer \in Nat \ {0}
<1>1. calls[k] \in WaitingCall
  OBVIOUS
<1> QED BY <1>1 DEF WaitingCall

LEMMA LineTyped ==
  ASSUME InputTyped, NEW b \in Buffers, NEW i \in DOMAIN input[b]
  PROVE  input[b][i] \in TypedLines /\ input[b][i].id \in 1..MaxTyped /\ i \in Nat \ {0}
<1>1. input[b] \in Seq(TypedLines)
  BY DEF InputTyped
<1>2. input[b][i] \in TypedLines
  BY <1>1
<1> QED BY <1>1, <1>2 DEF TypedLines

LEMMA CallInWait ==
  ASSUME NEW k \in DOMAIN calls
  PROVE  calls[k].line.id \in InWait(calls[k].buf)
BY Zenon DEF InWait

(* While a timer is due for the visible buffer, what waits there was       *)
(* disturbed: by the click that started the timer.                         *)
LEMMA DueDisturbed ==
  ASSUME SendInv, TickDue
  PROVE  /\ visible \in Buffers /\ visible = clickedIn
         /\ InWait(visible) \subseteq disturbed
<1>1. timer # 0 /\ timer \notin Busy /\ visible = clickedIn /\ visible \in Buffers
  BY DEF TickDue, SendInv, TimerInv
<1>2. ASSUME NEW k \in DOMAIN calls, calls[k].buf = visible
      PROVE  calls[k].line.id \in disturbed
  BY <1>1, <1>2 DEF Busy, SendInv, CallsInv, Untouched
<1> QED BY <1>1, <1>2 DEF InWait

(* Buffers come, go and are shown: what changes no input, or empties one   *)
(* with its lines, and leaves the timer alone or stops it.                 *)
LEMMA MoveStep ==
  ASSUME SendInv,
         UNCHANGED <<typed, clicks, calls, clickedIn, timesSent>>,
         timer' \in {timer, 0}, timer' # 0 => visible' = visible,
         visible' \in Buffers \cup {NoBuffer},
         \/ UNCHANGED <<input, disturbed>>
         \/ \E b \in Buffers : /\ input' = [input EXCEPT ![b] = <<>>]
                              /\ disturbed' = disturbed \cup InWait(b)
  PROVE  SendInv'
<1>1. /\ disturbed \subseteq disturbed'
      /\ \A c \in Buffers : input'[c] = input[c] \/ (input'[c] = <<>> /\ InWait(c) \subseteq disturbed')
  BY DEF SendInv, InputTyped
<1>2. input' \in [Buffers -> Seq(TypedLines)]
  <2>1. <<>> \in Seq(TypedLines) /\ input \in [Buffers -> Seq(TypedLines)]
    BY DEF SendInv, InputTyped
  <2>2. ASSUME NEW b \in Buffers, input' = [input EXCEPT ![b] = <<>>]
        PROVE  input' \in [Buffers -> Seq(TypedLines)]
    BY <2>1, <2>2
  <2> QED BY <2>1, <2>2
<1>3. InputTyped' /\ OneOfEach'
  BY SMTT(30), <1>1, <1>2 DEF SendInv, InputTyped, OneOfEach
<1>4. TimerInv'
  BY DEF SendInv, TimerInv
<1>5. SentAndGone'
  BY <1>1 DEF SendInv, SentAndGone, InWait
<1>6. CallsInv'
  <2>1. ASSUME NEW k \in DOMAIN calls, calls[k].line.id \notin disturbed'
        PROVE  input'[calls[k].buf] = input[calls[k].buf]
    <3>1. calls[k].buf \in Buffers
      BY CallTyped DEF SendInv, CallsInv
    <3>2. calls[k].line.id \in InWait(calls[k].buf)
      BY CallInWait
    <3> QED BY <1>1, <2>1, <3>1, <3>2
  <2> QED BY <1>1, <2>1 DEF SendInv, CallsInv, Untouched
<1> QED BY <1>3, <1>4, <1>5, <1>6 DEF SendInv

(* What Show, Opened and Closed do to the timer. *)
LEMMA ShowMoves ==
  ASSUME SendInv, NEW b, NEW added, Show(b, added)
  PROVE  visible' = b /\ timer' \in {timer, 0} /\ (timer' # 0 => visible' = visible)
BY DEF Show, TimerAfterShow

LEMMA ClosedMoves ==
  ASSUME SendInv, AgreeInv, AgreeInv', NEW b, Closed(b)
  PROVE  /\ timer' \in {timer, 0} /\ (timer' # 0 => visible' = visible)
         /\ visible' \in Buffers \cup {NoBuffer}
<1>1. visible' \in Buffers \cup {NoBuffer}
  BY DEF AgreeInv, Live, ToSet
<1>2. CASE visible # b
  BY <1>1, <1>2 DEF Closed
<1>3. CASE visible = b
  BY <1>1, <1>3, ShowMoves DEF Closed
<1> QED BY <1>2, <1>3

(* Positions after the first line is deleted. *)
LEMMA TailFacts ==
  ASSUME NEW s \in Seq(TypedLines), s # <<>>
  PROVE  /\ Tail(s) \in Seq(TypedLines) /\ 1 \in DOMAIN s /\ Head(s) = s[1]
         /\ \A i \in DOMAIN Tail(s) : i + 1 \in DOMAIN s /\ Tail(s)[i] = s[i + 1] /\ i + 1 # 1
OBVIOUS

(* The first line of the visible buffer is sent and deleted, or the buffer *)
(* is closed with it.                                                      *)
LEMMA SentStep ==
  ASSUME SendInv, TickDue, input[visible] # <<>>,
         timesSent' = [timesSent EXCEPT ![Head(input[visible]).id] = @ + 1],
         UNCHANGED <<typed, clicks, calls, clickedIn, disturbed>>,
         timer' \in {timer, 0}, timer' # 0 => visible' = visible,
         visible' \in Buffers \cup {NoBuffer},
         NEW s \in {Tail(input[visible]), <<>>}, input' = [input EXCEPT ![visible] = s]
  PROVE  SendInv'
<1> DEFINE line == Head(input[visible])
<1>1. visible \in Buffers /\ InWait(visible) \subseteq disturbed
  BY DueDisturbed
<1>2. /\ input[visible] \in Seq(TypedLines) /\ 1 \in DOMAIN input[visible]
      /\ line = input[visible][1] /\ line \in TypedLines
  BY <1>1, TailFacts DEF SendInv, InputTyped
<1>3. s \in Seq(TypedLines) /\ \A i \in DOMAIN s :
        /\ i + 1 \in DOMAIN input[visible] /\ i + 1 # 1
        /\ s[i] = input[visible][i + 1]
  <2>1. CASE s = <<>>
    BY <2>1
  <2>2. CASE s = Tail(input[visible])
    BY <1>2, <2>2, TailFacts
  <2> QED BY <2>1, <2>2
<1>4. /\ input'[visible] = s /\ input' \in [Buffers -> Seq(TypedLines)]
      /\ \A c \in Buffers \ {visible} : input'[c] = input[c]
  BY <1>1, <1>3 DEF SendInv, InputTyped
<1>5. ASSUME NEW c \in Buffers, NEW i \in DOMAIN input'[c]
      PROVE  \E j \in DOMAIN input[c] :
               /\ j = (IF c = visible THEN i + 1 ELSE i)
               /\ input'[c][i] = input[c][j] /\ input[c][j].id # line.id
  <2>1. CASE c = visible
    BY <1>1, <1>2, <1>3, <1>4, <1>5, <2>1 DEF SendInv, OneOfEach
  <2>2. CASE c # visible
    BY <1>1, <1>2, <1>4, <1>5, <2>2 DEF SendInv, OneOfEach
  <2> QED BY <2>1, <2>2
<1>6. OneOfEach'
  <2> SUFFICES ASSUME NEW b \in Buffers, NEW c \in Buffers,
                      NEW i \in DOMAIN input'[b], NEW j \in DOMAIN input'[c],
                      input'[b][i].id = input'[c][j].id
               PROVE  b = c /\ i = j
    BY DEF OneOfEach
  <2>1. PICK k \in DOMAIN input[b] :
          k = (IF b = visible THEN i + 1 ELSE i) /\ input'[b][i] = input[b][k]
    BY <1>5
  <2>2. PICK m \in DOMAIN input[c] :
          m = (IF c = visible THEN j + 1 ELSE j) /\ input'[c][j] = input[c][m]
    BY <1>5
  <2>3. b = c /\ k = m
    BY <2>1, <2>2 DEF SendInv, OneOfEach
  <2>4. i \in Nat /\ j \in Nat
    BY <1>4
  <2> QED BY <2>1, <2>2, <2>3, <2>4
<1>7. timesSent' \in [1..MaxTyped -> Nat]
      /\ \A id \in 1..MaxTyped : id # line.id => timesSent'[id] = timesSent[id]
  BY <1>2 DEF SendInv, InputTyped, TypedLines
<1>8. InputTyped'
  <2>1. \A b \in Buffers : \A i \in DOMAIN input'[b] : input'[b][i].id <= typed
    BY <1>5 DEF SendInv, InputTyped
  <2>2. line.id <= typed
    BY <1>1, <1>2 DEF SendInv, InputTyped
  <2>3. \A id \in 1..MaxTyped : timesSent'[id] > 0 => id <= typed
    BY <1>7, <2>2 DEF SendInv, InputTyped
  <2> QED BY <1>4, <1>7, <2>1, <2>3 DEF SendInv, InputTyped
<1>9. SentAndGone'
  <2> SUFFICES ASSUME NEW b \in Buffers, NEW i \in DOMAIN input'[b],
                      timesSent'[input'[b][i].id] > 0
               PROVE  input'[b][i].id \in disturbed \cup InWait(b)
    BY DEF SentAndGone, InWait
  <2>1. PICK j \in DOMAIN input[b] : input'[b][i] = input[b][j] /\ input[b][j].id # line.id
    BY <1>5
  <2>2. input[b][j].id \in 1..MaxTyped
    BY LineTyped DEF SendInv
  <2> QED BY <1>7, <2>1, <2>2 DEF SendInv, SentAndGone
<1>10. CallsInv'
  <2>1. ASSUME NEW k \in DOMAIN calls, calls[k].line.id \notin disturbed
        PROVE  input'[calls[k].buf] = input[calls[k].buf]
    <3>1. calls[k].buf \in Buffers
      BY CallTyped DEF SendInv, CallsInv
    <3>2. calls[k].buf # visible
      BY <1>1, <2>1, CallInWait
    <3> QED BY <1>4, <3>1, <3>2
  <2> QED BY <2>1 DEF SendInv, CallsInv, Untouched
<1>11. TimerInv'
  BY DEF SendInv, TimerInv
<1> QED BY <1>6, <1>8, <1>9, <1>10, <1>11 DEF SendInv

(* What is written while a line of the buffer waits disturbs that line. *)
LEMMA TypeStep ==
  ASSUME SendInv, NEW kind \in LineKinds, TypeLine(kind), visible \in Buffers
  PROVE  SendInv'
<1> DEFINE new == [id |-> typed + 1, kind |-> kind]
           s == input[visible]
<1>1. /\ timer = 0 /\ typed' = typed + 1 /\ typed < MaxTyped
      /\ input' = [input EXCEPT ![visible] = Append(@, new)]
      /\ disturbed' = disturbed \cup InWait(visible)
      /\ UNCHANGED <<visible, timer, clicks, calls, clickedIn, timesSent>>
  BY DEF TypeLine
<1>2. new \in TypedLines /\ typed + 1 \in 1..MaxTyped /\ typed \in Nat
  BY <1>1, WindowAssumption DEF SendInv, InputTyped, TypedLines
<1>3. s \in Seq(TypedLines)
  BY DEF SendInv, InputTyped
<1>4. /\ Append(s, new) \in Seq(TypedLines) /\ DOMAIN Append(s, new) = DOMAIN s \cup {Len(s) + 1}
      /\ Append(s, new)[Len(s) + 1] = new
      /\ \A i \in DOMAIN s : Append(s, new)[i] = s[i]
  BY <1>2, <1>3
<1>5. /\ input' \in [Buffers -> Seq(TypedLines)] /\ input'[visible] = Append(s, new)
      /\ \A b \in Buffers \ {visible} : input'[b] = input[b]
  BY <1>1, <1>4 DEF SendInv, InputTyped
<1>6. ASSUME NEW b \in Buffers, NEW i \in DOMAIN input'[b]
      PROVE  \/ i \in DOMAIN input[b] /\ input'[b][i] = input[b][i] /\ input[b][i].id # typed + 1
             \/ b = visible /\ i = Len(s) + 1 /\ input'[b][i] = new
  <2>1. ASSUME i \in DOMAIN input[b] PROVE input[b][i].id # typed + 1
    <3>1. input[b][i].id <= typed /\ input[b][i].id \in 1..MaxTyped
      BY <2>1, LineTyped DEF SendInv, InputTyped
    <3> QED BY <1>2, <3>1
  <2> QED BY <1>4, <1>5, <1>6, <2>1
<1>7. new.id = typed + 1 /\ timesSent[typed + 1] = 0
  BY <1>2 DEF SendInv, InputTyped
<1> HIDE DEF new
<1>8. InputTyped'
  <2>1. typed' \in 0..MaxTyped
    BY <1>1, <1>2
  <2>2. \A b \in Buffers : \A i \in DOMAIN input'[b] : input'[b][i].id <= typed'
    <3> SUFFICES ASSUME NEW b \in Buffers, NEW i \in DOMAIN input'[b]
                 PROVE  input'[b][i].id <= typed + 1
      BY <1>1
    <3>1. ASSUME i \in DOMAIN input[b] PROVE input[b][i].id <= typed + 1
      <4>1. input[b][i].id <= typed /\ input[b][i].id \in 1..MaxTyped
        BY <3>1, LineTyped DEF SendInv, InputTyped
      <4> QED BY <1>2, <4>1
    <3> QED BY <1>2, <1>6, <1>7, <3>1
  <2>3. \A id \in 1..MaxTyped : timesSent'[id] > 0 => id <= typed'
    BY <1>1, <1>2 DEF SendInv, InputTyped
  <2> QED BY <1>1, <1>5, <2>1, <2>2, <2>3 DEF SendInv, InputTyped
<1>9. OneOfEach'
  BY <1>6, <1>7 DEF SendInv, OneOfEach
<1>10. SentAndGone'
  <2> SUFFICES ASSUME NEW b \in Buffers, NEW i \in DOMAIN input'[b],
                      timesSent[input'[b][i].id] > 0
               PROVE  input'[b][i].id \in disturbed' \cup InWait(b)
    BY SMTT(30), <1>1 DEF SentAndGone, InWait
  <2>1. i \in DOMAIN input[b] /\ input'[b][i] = input[b][i]
    BY <1>6, <1>7
  <2> QED BY <1>1, <2>1 DEF SendInv, SentAndGone
<1>11. CallsInv'
  <2>1. ASSUME NEW k \in DOMAIN calls, calls[k].line.id \notin disturbed'
        PROVE  input'[calls[k].buf] = input[calls[k].buf]
    <3>1. calls[k].buf \in Buffers
      BY CallTyped DEF SendInv, CallsInv
    <3>2. calls[k].buf # visible
      BY <1>1, <2>1, CallInWait
    <3> QED BY <1>5, <3>1, <3>2
  <2> QED BY <1>1, <2>1 DEF SendInv, CallsInv, Untouched
<1>12. TimerInv'
  BY <1>1 DEF SendInv, TimerInv
<1> QED BY <1>8, <1>9, <1>10, <1>11, <1>12 DEF SendInv

LEMMA ClickStep ==
  ASSUME SendInv, Click, visible \in Buffers
  PROVE  SendInv'
<1>1. CASE timer # 0
  <2>1. /\ timer' = 0
        /\ UNCHANGED <<visible, input, typed, clicks, clickedIn, disturbed, calls, timesSent>>
    BY <1>1 DEF Click
  <2> QED BY <2>1, MoveStep
<1>2. CASE timer = 0
  <2>1. /\ clicks' = clicks + 1 /\ timer' = clicks + 1 /\ clickedIn' = visible
        /\ disturbed' = disturbed \cup InWait(visible)
        /\ UNCHANGED <<visible, input, typed, calls, timesSent>>
    BY <1>2 DEF Click
  <2>2. InputTyped' /\ OneOfEach' /\ TimerInv'
    <3>1. InputTyped'
      BY <2>1 DEF SendInv, InputTyped
    <3>2. OneOfEach'
      BY <2>1 DEF SendInv, OneOfEach
    <3>3. TimerInv'
      BY <2>1 DEF SendInv, TimerInv
    <3> QED BY <3>1, <3>2, <3>3
  <2>3. SentAndGone'
    BY <2>1 DEF SendInv, SentAndGone, InWait
  <2>4. ASSUME NEW k \in DOMAIN calls, calls[k].line.id \notin disturbed'
        PROVE  Untouched(calls[k])'
    <3>1. calls[k].buf # visible
      BY <2>1, <2>4, CallInWait
    <3> QED BY <2>1, <2>4, <3>1 DEF SendInv, CallsInv, Untouched
  <2>5. \A k \in DOMAIN calls : calls[k].timer <= clicks'
    <3>1. clicks \in Nat /\ \A k \in DOMAIN calls : calls[k].timer \in Nat /\ calls[k].timer <= clicks
      BY CallTyped DEF SendInv, CallsInv, TimerInv
    <3> QED BY <2>1, <3>1
  <2>6. CallsInv'
    BY <2>1, <2>4, <2>5 DEF SendInv, CallsInv
  <2> QED BY <2>2, <2>3, <2>6 DEF SendInv
<1> QED BY <1>1, <1>2

(* A line that waits: what waited in the buffer before was disturbed. *)
LEMMA WaitStep ==
  ASSUME SendInv, TickWait
  PROVE  SendInv'
<1> DEFINE s == input[visible]
           line == Head(s)
           new == [buf |-> visible, line |-> line, timer |-> timer, text |-> s]
           n == Len(calls)
<1>1. /\ TickDue /\ s # <<>>
      /\ timesSent' = [timesSent EXCEPT ![line.id] = @ + 1]
      /\ calls' = Append(calls, new)
      /\ UNCHANGED <<visible, input, typed, timer, clicks, clickedIn, disturbed>>
  BY DEF TickWait, SendFirst
<1>2. visible \in Buffers /\ InWait(visible) \subseteq disturbed
  BY <1>1, DueDisturbed
<1>3. s \in Seq(TypedLines) /\ line = s[1] /\ 1 \in DOMAIN s /\ line \in TypedLines
  BY <1>1, <1>2, TailFacts DEF SendInv, InputTyped
<1>4. timer \in Nat \ {0} /\ timer = clicks
  BY <1>1 DEF TickDue, SendInv, TimerInv
<1>5. new \in WaitingCall
  BY <1>2, <1>3, <1>4 DEF WaitingCall
<1>6. /\ new.buf = visible /\ new.line = line /\ new.timer = timer /\ new.text = s
  OBVIOUS
<1> HIDE DEF new, line
<1>7. /\ calls \in Seq(WaitingCall) /\ n \in Nat /\ calls' \in Seq(WaitingCall)
      /\ DOMAIN calls' = DOMAIN calls \cup {n + 1} /\ calls'[n + 1] = new
      /\ \A k \in DOMAIN calls : k \in 1..n /\ calls'[k] = calls[k]
  BY <1>1, <1>5 DEF SendInv, CallsInv
<1>8. \A b \in Buffers : InWait(b) \subseteq InWait(b)'
  <2> SUFFICES ASSUME NEW b \in Buffers, NEW id \in InWait(b)
               PROVE  id \in InWait(b)'
    OBVIOUS
  <2>1. PICK k \in DOMAIN calls : calls[k].buf = b /\ calls[k].line.id = id
    BY DEF InWait
  <2>2. k \in DOMAIN calls' /\ calls'[k].buf = b /\ calls'[k].line.id = id
    BY <1>7, <2>1
  <2> QED BY <2>2, Zenon DEF InWait
<1>9. ASSUME NEW b \in Buffers, b = visible PROVE line.id \in InWait(b)'
  <2>1. n + 1 \in DOMAIN calls' /\ calls'[n + 1].buf = visible /\ calls'[n + 1].line.id = line.id
    BY <1>6, <1>7
  <2> QED BY <1>9, <2>1, Zenon DEF InWait
<1>10. timesSent' \in [1..MaxTyped -> Nat]
       /\ \A id \in 1..MaxTyped : id # line.id => timesSent'[id] = timesSent[id]
  BY <1>1, <1>3 DEF SendInv, InputTyped, TypedLines
<1>11. InputTyped'
  <2>1. line.id <= typed
    BY <1>2, <1>3 DEF SendInv, InputTyped
  <2>2. \A id \in 1..MaxTyped : timesSent'[id] > 0 => id <= typed
    BY <1>10, <2>1 DEF SendInv, InputTyped
  <2> QED BY <1>1, <1>10, <2>2 DEF SendInv, InputTyped
<1>12. OneOfEach' /\ TimerInv'
  BY <1>1 DEF SendInv, OneOfEach, TimerInv
<1>13. SentAndGone'
  <2> SUFFICES ASSUME NEW b \in Buffers, NEW i \in DOMAIN input[b], timesSent'[input[b][i].id] > 0
               PROVE  input[b][i].id \in disturbed \cup InWait(b)'
    BY <1>1 DEF SentAndGone
  <2>1. CASE input[b][i].id = line.id
    <3>1. b = visible
      BY <1>2, <1>3, <2>1 DEF SendInv, OneOfEach
    <3> QED BY <1>9, <2>1, <3>1
  <2>2. CASE input[b][i].id # line.id
    <3>1. input[b][i].id \in 1..MaxTyped
      BY LineTyped DEF SendInv
    <3>2. input[b][i].id \in disturbed \cup InWait(b)
      BY <1>10, <2>2, <3>1 DEF SendInv, SentAndGone
    <3> QED BY <1>8, <3>2
  <2> QED BY <2>1, <2>2
<1>14. CallsInv'
  <2>1. \A k \in DOMAIN calls' : calls'[k].timer <= clicks
    BY <1>4, <1>6, <1>7 DEF SendInv, CallsInv
  <2>4. \A k \in DOMAIN calls : calls[k].buf = visible => calls[k].line.id \in disturbed
    BY <1>2, CallInWait
  <2>5. ASSUME NEW j \in DOMAIN calls', NEW k \in DOMAIN calls', j < k,
               calls'[j].buf = calls'[k].buf
        PROVE  calls'[j].line.id \in disturbed
    <3>1. j \in DOMAIN calls
      BY <1>7, <2>5
    <3>2. CASE k = n + 1
      BY <1>6, <1>7, <2>4, <2>5, <3>1, <3>2
    <3>3. CASE k # n + 1
      BY <1>7, <2>5, <3>1, <3>3 DEF SendInv, CallsInv
    <3> QED BY <3>2, <3>3
  <2>6. ASSUME NEW k \in DOMAIN calls', calls'[k].line.id \notin disturbed
        PROVE  Untouched(calls'[k])
    <3>1. CASE k = n + 1
      BY <1>1, <1>3, <1>6, <1>7, <3>1 DEF Untouched, line
    <3>2. CASE k \in DOMAIN calls
      BY <1>7, <2>6, <3>2 DEF SendInv, CallsInv
    <3> QED BY <1>7, <3>1, <3>2
  <2> QED BY <1>1, <1>7, <2>1, <2>5, <2>6 DEF CallsInv, Untouched
<1> QED BY <1>11, <1>12, <1>13, <1>14 DEF SendInv

(* The innermost wait ends: if its line is still undisturbed, it is the    *)
(* first of its input, and deleted.                                        *)
LEMMA WaitEndsStep ==
  ASSUME SendInv, WaitEnds
  PROVE  SendInv'
<1> DEFINE n == Len(calls)
           c == calls[n]
           found == input[c.buf] = c.text
<1>1. /\ calls # <<>> /\ calls' = SubSeq(calls, 1, n - 1)
      /\ input' = IF found THEN [input EXCEPT ![c.buf] = Tail(@)] ELSE input
      /\ timer' \in {timer, 0}
      /\ UNCHANGED <<visible, typed, clicks, clickedIn, timesSent, disturbed>>
  BY DEF WaitEnds, Last, Front
<1>2. /\ calls \in Seq(WaitingCall) /\ n \in Nat \ {0} /\ n \in DOMAIN calls
      /\ calls' \in Seq(WaitingCall) /\ DOMAIN calls' = 1..(n - 1) /\ DOMAIN calls = 1..n
      /\ \A k \in 1..(n - 1) : calls'[k] = calls[k]
  BY <1>1 DEF SendInv, CallsInv
<1>3. c.buf \in Buffers /\ c.line \in TypedLines /\ c.text \in Seq(TypedLines)
  BY <1>2, CallTyped
<1> HIDE DEF c
<1>4. ASSUME c.line.id \notin disturbed
      PROVE  found /\ input[c.buf] # <<>> /\ input[c.buf][1] = c.line
  <2>1. Untouched(c)
    BY <1>2, <1>4 DEF SendInv, CallsInv, c
  <2> QED BY <1>3, <2>1, TailFacts DEF Untouched
<1>5. input[c.buf] \in Seq(TypedLines)
  BY <1>3 DEF SendInv, InputTyped
<1> DEFINE cut == found /\ input[c.buf] # <<>>
<1>6. ASSUME NEW b \in Buffers, NEW i \in DOMAIN input'[b]
      PROVE  \E j \in DOMAIN input[b] :
               /\ j = (IF b = c.buf /\ cut THEN i + 1 ELSE i)
               /\ input'[b][i] = input[b][j]
               /\ b = c.buf /\ cut => j # 1
  <2>1. CASE b = c.buf /\ cut
    <3>1. input'[b] = Tail(input[b])
      BY <1>1, <1>3, <2>1 DEF SendInv, InputTyped
    <3> QED BY <1>5, <1>6, <2>1, <3>1, TailFacts
  <2>2. CASE ~(b = c.buf /\ cut)
    <3>1. Tail(<<>>) = <<>>
      OBVIOUS
    <3>2. input'[b] = input[b]
      BY <1>1, <1>3, <2>2, <3>1 DEF SendInv, InputTyped
    <3> QED BY <1>6, <2>2, <3>2
  <2> QED BY <2>1, <2>2
<1>7. input' \in [Buffers -> Seq(TypedLines)]
  <2>1. Tail(input[c.buf]) \in Seq(TypedLines)
    <3>1. Tail(<<>>) = <<>>
      OBVIOUS
    <3> QED BY <1>5, <3>1, TailFacts
  <2> QED BY <1>1, <1>3, <2>1 DEF SendInv, InputTyped
<1> HIDE DEF cut, found
<1>8. InputTyped'
  <2>1. \A b \in Buffers : \A i \in DOMAIN input'[b] : input'[b][i].id <= typed
    BY <1>6 DEF SendInv, InputTyped
  <2> QED BY <1>1, <1>7, <2>1 DEF SendInv, InputTyped
<1>9. OneOfEach'
  <2> SUFFICES ASSUME NEW b \in Buffers, NEW e \in Buffers,
                      NEW i \in DOMAIN input'[b], NEW j \in DOMAIN input'[e],
                      input'[b][i].id = input'[e][j].id
               PROVE  b = e /\ i = j
    BY DEF OneOfEach
  <2>1. PICK k \in DOMAIN input[b] :
          k = (IF b = c.buf /\ cut THEN i + 1 ELSE i) /\ input'[b][i] = input[b][k]
    BY <1>6
  <2>2. PICK m \in DOMAIN input[e] :
          m = (IF e = c.buf /\ cut THEN j + 1 ELSE j) /\ input'[e][j] = input[e][m]
    BY <1>6
  <2>3. b = e /\ k = m
    BY <2>1, <2>2 DEF SendInv, OneOfEach
  <2>4. i \in Nat /\ j \in Nat
    BY <1>7
  <2> QED BY <2>1, <2>2, <2>3, <2>4
<1>10. ASSUME NEW k \in 1..(n - 1), calls[k].line.id \notin disturbed
       PROVE  input'[calls[k].buf] = input[calls[k].buf]
  <2>1. k \in DOMAIN calls /\ k < n /\ calls[k].buf \in Buffers
    BY SMTT(30), <1>2, CallTyped
  <2>2. calls[k].buf # c.buf
    BY <1>2, <1>10, <2>1 DEF SendInv, CallsInv, c
  <2> QED BY <1>1, <2>1, <2>2 DEF SendInv, InputTyped
<1>11. CallsInv'
  <2>1. ASSUME NEW k \in DOMAIN calls', calls'[k].line.id \notin disturbed
        PROVE  /\ input'[calls'[k].buf] = calls'[k].text /\ calls'[k].text # <<>>
               /\ Head(calls'[k].text) = calls'[k].line
               /\ timer' # 0 => timer' = calls'[k].timer \/ clickedIn # calls'[k].buf
    <3>1. k \in 1..(n - 1) /\ calls'[k] = calls[k] /\ k \in DOMAIN calls
      BY <1>2
    <3>2. Untouched(calls[k])
      BY <2>1, <3>1 DEF SendInv, CallsInv
    <3> QED BY <1>1, <1>10, <2>1, <3>1, <3>2 DEF Untouched
  <2>2. \A k \in DOMAIN calls' : calls'[k] = calls[k] /\ k \in DOMAIN calls
    BY <1>2
  <2> QED BY <1>1, <1>2, <2>1, <2>2 DEF SendInv, CallsInv, Untouched
<1>12. SentAndGone'
  <2> SUFFICES ASSUME NEW b \in Buffers, NEW i \in DOMAIN input'[b],
                      timesSent[input'[b][i].id] > 0, input'[b][i].id \notin disturbed
               PROVE  input'[b][i].id \in InWait(b)'
    BY <1>1 DEF SentAndGone
  <2>1. PICK j \in DOMAIN input[b] :
          input'[b][i] = input[b][j] /\ (b = c.buf /\ cut => j # 1)
    BY <1>6
  <2>2. input[b][j].id \in InWait(b)
    BY <2>1 DEF SendInv, SentAndGone
  <2>3. PICK k \in DOMAIN calls : calls[k].buf = b /\ calls[k].line.id = input[b][j].id
    BY <2>2 DEF InWait
  <2>4. k # n
    <3> SUFFICES ASSUME k = n PROVE FALSE
      OBVIOUS
    <3>1. c.buf = b /\ c.line.id = input[b][j].id
      BY <2>3 DEF c
    <3>2. cut /\ input[b] # <<>> /\ input[b][1] = c.line
      BY <1>4, <2>1, <3>1 DEF cut
    <3>3. 1 \in DOMAIN input[b]
      BY <1>5, <3>1, <3>2
    <3>4. j = 1
      BY <3>1, <3>2, <3>3 DEF SendInv, OneOfEach
    <3> QED BY <2>1, <3>1, <3>2, <3>4
  <2>5. k \in DOMAIN calls' /\ calls'[k] = calls[k]
    BY <1>2, <2>4
  <2>6. calls'[k].buf = b /\ calls'[k].line.id = input'[b][i].id
    BY <2>1, <2>3, <2>5
  <2> QED BY <2>5, <2>6, Zenon DEF InWait
<1>13. TimerInv'
  BY <1>1 DEF SendInv, TimerInv
<1> QED BY <1>8, <1>9, <1>11, <1>12, <1>13 DEF SendInv

-----------------------------------------------------------------------------
(* The action property, of every step.                                     *)

SendsAsAsked ==
  \A i \in 1..MaxTyped :
    timesSent'[i] # timesSent[i] =>
      /\ visible = clickedIn
      /\ timesSent[i] > 0 => i \in disturbed

LEMMA SentStepAsAsked ==
  ASSUME SendInv, NEW kind, SendFirst(kind)
  PROVE  SendsAsAsked
<1>1. TickDue /\ input[visible] # <<>>
      /\ timesSent' = [timesSent EXCEPT ![Head(input[visible]).id] = @ + 1]
  BY DEF SendFirst
<1>2. visible \in Buffers /\ visible = clickedIn /\ InWait(visible) \subseteq disturbed
  BY <1>1, DueDisturbed
<1>3. /\ 1 \in DOMAIN input[visible] /\ Head(input[visible]) = input[visible][1]
  BY <1>1, <1>2, TailFacts DEF SendInv, InputTyped
<1> SUFFICES ASSUME NEW i \in 1..MaxTyped, timesSent'[i] # timesSent[i]
             PROVE  visible = clickedIn /\ (timesSent[i] > 0 => i \in disturbed)
  BY DEF SendsAsAsked
<1>4. i = input[visible][1].id
  BY <1>1, <1>3 DEF SendInv, InputTyped
<1>5. timesSent[i] > 0 => i \in disturbed
  BY <1>2, <1>3, <1>4 DEF SendInv, SentAndGone
<1> QED BY <1>2, <1>5

LEMMA SendStep ==
  ASSUME SendInv, AgreeInv, AgreeInv', [WindowNext]_windowVars
  PROVE  SendInv' /\ (SendsAsAsked \/ UNCHANGED windowVars)
<1>0. visible \in Buffers \cup {NoBuffer} /\ visible' \in Buffers \cup {NoBuffer}
  BY DEF AgreeInv, Live, ToSet
<1> DEFINE Unsent == timesSent' = timesSent
           Goal == SendInv' /\ (SendsAsAsked \/ UNCHANGED windowVars)
<1>1. Unsent => SendsAsAsked
  BY DEF SendsAsAsked
<1>2. ASSUME NEW b \in Buffers, OpenBuffer(b) \/ SelectRow(b) \/ AddMessage(b)
      PROVE  SendInv' /\ Unsent
  <2>1. timer' \in {timer, 0} /\ (timer' # 0 => visible' = visible)
    BY <1>2, ShowMoves DEF OpenBuffer, Opened, SelectRow, AddMessage
  <2>2. UNCHANGED <<input, typed, clicks, calls, clickedIn, timesSent, disturbed>>
    BY <1>2 DEF OpenBuffer, SelectRow, AddMessage
  <2> QED BY <1>0, <2>1, <2>2, MoveStep
<1>3. ASSUME NEW b \in Buffers, CloseBuffer(b) PROVE SendInv' /\ Unsent
  <2>1. /\ input' = [input EXCEPT ![b] = <<>>] /\ disturbed' = disturbed \cup InWait(b)
        /\ UNCHANGED <<typed, clicks, calls, clickedIn, timesSent>>
    BY <1>3 DEF CloseBuffer
  <2>2. timer' \in {timer, 0} /\ (timer' # 0 => visible' = visible)
    BY <1>3, ClosedMoves DEF CloseBuffer
  <2> QED BY <1>0, <2>1, <2>2, MoveStep
<1>4. ASSUME NEW kind \in LineKinds, TypeLine(kind) PROVE SendInv' /\ Unsent
  BY <1>0, <1>4, TypeStep DEF TypeLine
<1>5. CASE Click
  <2>1. SendInv' /\ Unsent
    BY <1>0, <1>5, ClickStep DEF Click
  <2> QED BY <1>1, <2>1
<1>6. ASSUME NEW b \in Buffers, TickOpen(b) PROVE Goal
  <2>1. timer' \in {timer, 0} /\ (timer' # 0 => visible' = visible)
    BY <1>6, ShowMoves DEF TickOpen, Opened
  <2>2. SendInv'
    BY <1>0, <1>6, <2>1, SentStep DEF TickOpen, SendFirst, LinesAfter
  <2> QED BY <1>6, <2>2, SentStepAsAsked DEF TickOpen
<1>7. CASE TickClose
  <2>1. timer' \in {timer, 0} /\ (timer' # 0 => visible' = visible)
    BY <1>7, ClosedMoves DEF TickClose
  <2>2. SendInv'
    BY <1>0, <1>7, <2>1, SentStep DEF TickClose, SendFirst
  <2> QED BY <1>7, <2>2, SentStepAsAsked DEF TickClose
<1>8. ASSUME NEW ok \in BOOLEAN, TickText(ok) PROVE Goal
  <2>1. timer' \in {timer, 0} /\ visible' = visible
    BY <1>8 DEF TickText
  <2>2. SendInv'
    BY <1>0, <1>8, <2>1, SentStep DEF TickText, SendFirst, LinesAfter
  <2> QED BY <1>8, <2>2, SentStepAsAsked DEF TickText
<1>9. CASE TickWait
  BY <1>9, WaitStep, SentStepAsAsked DEF TickWait
<1>10. CASE WaitEnds
  <2>1. Unsent
    BY <1>10 DEF WaitEnds
  <2> QED BY <1>1, <1>10, <2>1, WaitEndsStep
<1>11. CASE UNCHANGED windowVars
  <2>1. InputTyped'
    BY <1>11 DEF windowVars, SendInv, InputTyped
  <2>2. TimerInv' /\ OneOfEach'
    BY <1>11 DEF windowVars, SendInv, TimerInv, OneOfEach
  <2>3. SentAndGone'
    BY <1>11 DEF windowVars, SendInv, SentAndGone, InWait
  <2>4. CallsInv'
    BY <1>11 DEF windowVars, SendInv, CallsInv, Untouched
  <2> QED BY <1>11, <2>1, <2>2, <2>3, <2>4 DEF SendInv
<1>12. CASE TickEmpty
  <2>1. timer' = 0 /\ UNCHANGED <<visible, input, typed, clicks, calls, clickedIn, timesSent, disturbed>>
    BY <1>12 DEF TickEmpty
  <2>2. SendInv'
    BY <1>0, <2>1, MoveStep
  <2> QED BY <1>1, <2>1, <2>2
<1> QED
  BY <1>1, <1>2, <1>3, <1>4, <1>5, <1>6, <1>7, <1>8, <1>9, <1>10, <1>11, <1>12 DEF WindowNext

-----------------------------------------------------------------------------
(* The side bar agrees with the stack, and each line on its way is in one  *)
(* input, one nested loop or one timer: sui_window.c, sui_chat_buffer.c.   *)
THEOREM WindowInvariance == WindowSpec => [](AgreeInv /\ SendInv)
<1>1. AgreeInv /\ SendInv /\ [WindowNext]_windowVars => (AgreeInv /\ SendInv)'
  BY AgreeStep, SendStep
<1>2. WindowInit => AgreeInv /\ SendInv
  BY AgreeInit, SendInit
<1> QED BY <1>1, <1>2, PTL DEF WindowSpec

(* The selected row, the chat the core acts on and the visible buffer are  *)
(* one, for any number of buffers, whatever shows, opens and closes them.  *)
THEOREM CurrentIsVisible == WindowSpec => []CurrentAgrees
<1>1. AgreeInv => CurrentAgrees
  BY DEF AgreeInv
<1> QED BY <1>1, WindowInvariance, PTL

(* send_message_timeout sends each line once and from the buffer the user  *)
(* asked it for, however the waits of commands nest.                       *)
THEOREM LinesSentAsAsked == WindowSpec => SentAsAsked
<1>1. AgreeInv /\ SendInv /\ AgreeInv' /\ [WindowNext]_windowVars
        => [SendsAsAsked]_windowVars
  BY SendStep
<1> QED BY <1>1, WindowInvariance, PTL DEF WindowSpec, SentAsAsked, SendsAsAsked

-----------------------------------------------------------------------------
(* The URL previewer.                                                       *)

Booleans ==
  /\ auto \in BOOLEAN /\ alive \in BOOLEAN /\ hidden \in BOOLEAN /\ previewed \in BOOLEAN
  /\ msg \in BOOLEAN /\ cancelled \in BOOLEAN /\ touched \in BOOLEAN

Pages ==
  /\ stackPage \in {"preload", "loading", "text", "image"}
  /\ ctype \in {"unknown", "unsupported", "image"}
  /\ pending \in {"none", "send", "fill"}

CancelledWhenGone == alive \/ cancelled
ImageIsLast == stackPage = "image" => previewed /\ pending = "none" /\ (alive => ~cancelled)
RequestHasMessage == alive /\ pending # "none" => msg

PreviewInv == Booleans /\ Pages /\ CancelledWhenGone /\ ~touched /\ ImageIsLast /\ RequestHasMessage

LEMMA PreviewInvImplies == PreviewInv => PreviewTypeOK /\ LateAnswersHarmless
BY DEF PreviewInv, Booleans, Pages, CancelledWhenGone, ImageIsLast, RequestHasMessage,
       PreviewTypeOK, LateAnswersHarmless

LEMMA PreviewInvInit == PreviewInit => PreviewInv
BY DEF PreviewInv, Booleans, Pages, CancelledWhenGone, ImageIsLast, RequestHasMessage, PreviewInit

-----------------------------------------------------------------------------
(* One lemma for each of what the user does, and what the callbacks do.    *)

LEMMA PreviewUser ==
  ASSUME PreviewInv, StartPreview \/ CancelPreview \/ DropMessage
  PROVE  PreviewInv'
<1>1. CASE StartPreview
  BY <1>1 DEF PreviewInv, Booleans, Pages, CancelledWhenGone, ImageIsLast, RequestHasMessage, StartPreview
<1>2. CASE CancelPreview
  BY <1>2 DEF PreviewInv, Booleans, Pages, CancelledWhenGone, ImageIsLast, RequestHasMessage, CancelPreview
<1>3. CASE DropMessage
  BY <1>3 DEF PreviewInv, Booleans, Pages, CancelledWhenGone, ImageIsLast, RequestHasMessage,
              DropMessage, CancelledByFinalize
<1> QED BY <1>1, <1>2, <1>3

LEMMA PreviewFailed ==
  ASSUME PreviewInv, NEW op \in {"send", "fill"}, Failed(op)
  PROVE  PreviewInv'
BY DEF PreviewInv, Booleans, Pages, CancelledWhenGone, ImageIsLast, RequestHasMessage, Failed

(* A callback that does not fail finds its previewer, its message, and no  *)
(* image yet.                                                              *)
LEMMA PreviewCallback ==
  ASSUME PreviewInv, NEW op \in {"send", "fill"}, CallbackOf(op)
  PROVE  /\ alive /\ ~cancelled /\ msg /\ stackPage # "image"
         /\ ~touched' /\ touched' \in BOOLEAN
<1>1. touched' \in BOOLEAN
  BY Zenon DEF CallbackOf
<1>2. alive /\ ~cancelled /\ msg /\ stackPage # "image" /\ ~touched'
  BY DEF PreviewInv, Booleans, CancelledWhenGone, ImageIsLast, RequestHasMessage, CallbackOf
<1> QED BY <1>1, <1>2

LEMMA PreviewSendReady ==
  ASSUME PreviewInv, NEW type \in {"image", "unsupported"}, NEW tooLong \in BOOLEAN,
         SendReady(type, tooLong)
  PROVE  PreviewInv'
<1>1. alive /\ ~cancelled /\ msg /\ stackPage # "image" /\ ~touched' /\ touched' \in BOOLEAN
  BY PreviewCallback DEF SendReady
<1>2. CASE tooLong \/ type = "unsupported"
  <2>1. /\ stackPage' = "text" /\ previewed' = FALSE /\ pending' = "none" /\ msg' = FALSE
        /\ hidden' = hidden /\ auto' = auto
    BY <1>2 DEF SendReady, ShowError
  <2>3. alive' \in BOOLEAN /\ cancelled' \in BOOLEAN /\ (alive' \/ cancelled')
    BY <1>2, Zenon DEF SendReady
  <2>2. ctype' \in {"unknown", "unsupported", "image"}
    BY DEF SendReady, PreviewInv, Pages
  <2> QED
    BY <1>1, <2>1, <2>2, <2>3
       DEF PreviewInv, Booleans, Pages, CancelledWhenGone, ImageIsLast, RequestHasMessage
<1>3. CASE ~(tooLong \/ type = "unsupported")
  <2>1. /\ pending' = "fill" /\ hidden' = FALSE /\ alive' = alive /\ stackPage' = stackPage
        /\ previewed' = previewed /\ msg' = msg /\ cancelled' = cancelled /\ auto' = auto
    BY <1>3 DEF SendReady
  <2>2. ctype' \in {"unknown", "unsupported", "image"}
    BY DEF SendReady, PreviewInv, Pages
  <2> QED
    BY <1>1, <2>1, <2>2
       DEF PreviewInv, Booleans, Pages, CancelledWhenGone, ImageIsLast, RequestHasMessage
<1> QED BY <1>2, <1>3

LEMMA PreviewFillReady ==
  ASSUME PreviewInv, NEW what \in {"more", "image", "bad", "none"}, FillReady(what)
  PROVE  PreviewInv'
<1>1. alive /\ ~cancelled /\ msg /\ stackPage # "image" /\ ~touched' /\ touched' \in BOOLEAN
  BY PreviewCallback DEF FillReady
<1>2. auto' = auto /\ alive' = alive /\ hidden' = hidden /\ ctype' = ctype /\ cancelled' = cancelled
  BY DEF FillReady
<1>3. CASE what = "more"
  <2>1. UNCHANGED <<stackPage, previewed, msg, pending>>
    BY <1>3 DEF FillReady
  <2> QED
    BY <1>1, <1>2, <2>1
       DEF PreviewInv, Booleans, Pages, CancelledWhenGone, ImageIsLast, RequestHasMessage
<1>4. CASE what = "image"
  <2>1. stackPage' = "image" /\ previewed' = TRUE /\ pending' = "none" /\ msg' = FALSE
    BY <1>4 DEF FillReady
  <2> QED
    BY <1>1, <1>2, <2>1
       DEF PreviewInv, Booleans, Pages, CancelledWhenGone, ImageIsLast, RequestHasMessage
<1>5. CASE what = "bad"
  <2>1. stackPage' = "text" /\ previewed' = FALSE /\ pending' = "none" /\ msg' = FALSE
    BY <1>5 DEF FillReady, ShowError
  <2> QED
    BY <1>1, <1>2, <2>1
       DEF PreviewInv, Booleans, Pages, CancelledWhenGone, ImageIsLast, RequestHasMessage
<1>6. CASE what = "none"
  <2>1. UNCHANGED <<stackPage, previewed>> /\ pending' = "none" /\ msg' = FALSE
    BY <1>6 DEF FillReady
  <2> QED
    BY <1>1, <1>2, <2>1
       DEF PreviewInv, Booleans, Pages, CancelledWhenGone, ImageIsLast, RequestHasMessage
<1> QED BY <1>3, <1>4, <1>5, <1>6

-----------------------------------------------------------------------------
(* The conjunction above is kept by every step of the preview: of the      *)
(* user, of the network, and of the chat that goes with its messages.      *)
THEOREM PreviewInvariance == PreviewSpec => []PreviewInv
<1>1. PreviewInit => PreviewInv
  BY PreviewInvInit
<1>2. PreviewInv /\ [PreviewNext]_previewVars => PreviewInv'
  <2> SUFFICES ASSUME PreviewInv, [PreviewNext]_previewVars PROVE PreviewInv'
    OBVIOUS
  <2>1. CASE StartPreview \/ CancelPreview \/ DropMessage
    BY <2>1, PreviewUser
  <2>2. ASSUME NEW op \in {"send", "fill"}, Failed(op) PROVE PreviewInv'
    BY <2>2, PreviewFailed
  <2>3. ASSUME NEW type \in {"image", "unsupported"}, NEW tooLong \in BOOLEAN, SendReady(type, tooLong)
        PROVE  PreviewInv'
    BY <2>3, PreviewSendReady
  <2>4. ASSUME NEW what \in {"more", "image", "bad", "none"}, FillReady(what) PROVE PreviewInv'
    BY <2>4, PreviewFillReady
  <2>5. CASE UNCHANGED previewVars
    BY <2>5 DEF previewVars, PreviewInv, Booleans, Pages, CancelledWhenGone, ImageIsLast, RequestHasMessage
  <2> QED BY <2>1, <2>2, <2>3, <2>4, <2>5 DEF PreviewNext
<1> QED BY <1>1, <1>2, PTL DEF PreviewSpec

(* Late answers are harmless in every behaviour of the preview             *)
(* (session_send_ready, buffered_stream_fill_ready).                       *)
THEOREM PreviewLateAnswers == PreviewSpec => []LateAnswersHarmless
BY PreviewInvariance, PreviewInvImplies, PTL

-----------------------------------------------------------------------------
(* The user list.                                                           *)

Statistics == {"total", "full_op", "half_op", "voiced"}
Lists == [rank : [Participants -> Ranks], rowRank : [Participants -> Ranks],
          inList : SUBSET Participants, stat : [Statistics -> Int]]

Count(S, f, r) == Cardinality({u \in S : f[u] = r})

RankCounts(l) == \A r \in Counted : l.stat[r] = Count(l.inList, l.rowRank, r)
Counts(l) == l.stat["total"] = Cardinality(l.inList) /\ RankCounts(l)

Rankless(l) == \A u \in Participants \ l.inList : l.rowRank[u] = "chigua"

SoundList(l) == l \in Lists /\ Counts(l) /\ Rankless(l) /\ \A u \in l.inList : l.rowRank[u] = l.rank[u]

LEMMA RankNames == Counted = {"full_op", "half_op", "voiced"} /\ "total" \notin Counted /\ "chigua" \notin Counted
BY DEF Counted, Ranks

(* One user more or less. *)
LEMMA CountSplit ==
  ASSUME NEW S \in SUBSET Participants, NEW u \in S, NEW f \in [Participants -> Ranks], NEW r
  PROVE  /\ Count(S, f, r) = Count(S \ {u}, f, r) + IF f[u] = r THEN 1 ELSE 0
         /\ Count(S \ {u}, f, r) \in Nat
<1> DEFINE rest == {v \in S \ {u} : f[v] = r}
           all == {v \in S : f[v] = r}
<1>1. IsFiniteSet(rest) /\ u \notin rest
  BY ParticipantsAssumption, FS_Subset
<1>2. Cardinality(rest) \in Nat
  BY <1>1, FS_CardinalityType
<1>3. CASE f[u] = r
  <2>1. all = rest \cup {u}
    BY <1>3
  <2>2. Cardinality(all) = Cardinality(rest) + 1
    BY <1>1, <2>1, FS_AddElement
  <2> QED BY <1>2, <1>3, <2>2 DEF Count
<1>4. CASE f[u] # r
  <2>1. all = rest
    BY <1>4
  <2> QED BY <1>2, <1>4, <2>1 DEF Count
<1> QED BY <1>3, <1>4

(* sui_user_update moves u from one counter to the other. *)
LEMMA CountMoved ==
  ASSUME NEW S \in SUBSET Participants, NEW u \in S, NEW f \in [Participants -> Ranks],
         NEW new \in Ranks, NEW r
  PROVE  Count(S, [f EXCEPT ![u] = new], r) =
           (Count(S, f, r) + IF r = new THEN 1 ELSE 0) - IF r = f[u] THEN 1 ELSE 0
<1> DEFINE g == [f EXCEPT ![u] = new]
<1>1. g \in [Participants -> Ranks] /\ g[u] = new /\ \A v \in S \ {u} : g[v] = f[v]
  OBVIOUS
<1>2. {v \in S \ {u} : g[v] = r} = {v \in S \ {u} : f[v] = r}
  BY <1>1
<1>3. Count(S \ {u}, g, r) = Count(S \ {u}, f, r)
  BY <1>2 DEF Count
<1> HIDE DEF g
<1>4. Count(S, g, r) = Count(S \ {u}, g, r) + IF new = r THEN 1 ELSE 0
  BY <1>1, CountSplit
<1>5. Count(S, f, r) = Count(S \ {u}, f, r) + IF f[u] = r THEN 1 ELSE 0
  BY CountSplit
<1>6. Count(S \ {u}, f, r) \in Nat
  BY CountSplit
<1>7. Count(S, g, r) = (Count(S, f, r) + IF r = new THEN 1 ELSE 0) - IF r = f[u] THEN 1 ELSE 0
  BY <1>3, <1>4, <1>5, <1>6
<1> QED BY <1>7 DEF g

LEMMA UpdateCounts ==
  ASSUME NEW l \in Lists, RankCounts(l), NEW u \in l.inList
  PROVE  /\ Update(l, u) \in Lists /\ RankCounts(Update(l, u))
         /\ Update(l, u).stat["total"] = l.stat["total"]
         /\ Update(l, u).rank = l.rank /\ Update(l, u).inList = l.inList
         /\ Update(l, u).rowRank = [l.rowRank EXCEPT ![u] = l.rank[u]]
<1> DEFINE m == Update(l, u)
           old == l.rowRank[u]
           new == l.rank[u]
<1>1. /\ l.rank \in [Participants -> Ranks] /\ l.rowRank \in [Participants -> Ranks]
      /\ l.inList \in SUBSET Participants /\ l.stat \in [Statistics -> Int]
      /\ u \in Participants /\ new \in Ranks /\ old \in Ranks
  BY DEF Lists
<1> DEFINE Change(r) == IF old = new THEN l.stat[r]
                        ELSE l.stat[r] + (IF r = new THEN 1 ELSE 0) - (IF r = old THEN 1 ELSE 0)
           stat1 == [r \in Statistics |-> IF r = "total" THEN l.stat["total"] ELSE Change(r)]
<1>2. m = [l EXCEPT !.rowRank = [l.rowRank EXCEPT ![u] = new], !.stat = stat1]
  BY <1>1 DEF Update, Lists
<1>3. stat1 \in [Statistics -> Int]
  BY <1>1
<1> HIDE DEF m, stat1
<1>4. /\ m.rank = l.rank /\ m.inList = l.inList /\ m.stat = stat1
      /\ m.rowRank = [l.rowRank EXCEPT ![u] = new] /\ m \in Lists
  BY <1>1, <1>2, <1>3 DEF Lists
<1>5. ASSUME NEW r \in Counted PROVE m.stat[r] = Count(m.inList, m.rowRank, r)
  <2>1. r \in Statistics /\ r # "total" /\ l.stat[r] = Count(l.inList, l.rowRank, r) /\ l.stat[r] \in Int
    BY <1>1, RankNames DEF RankCounts, Statistics
  <2>2. m.stat[r] = Change(r)
    BY <1>4, <2>1 DEF stat1
  <2>3. Count(m.inList, m.rowRank, r)
          = (Count(l.inList, l.rowRank, r) + IF r = new THEN 1 ELSE 0) - IF r = old THEN 1 ELSE 0
    BY <1>1, <1>4, CountMoved
  <2> QED BY <2>1, <2>2, <2>3
<1>6. m.stat["total"] = l.stat["total"]
  BY <1>4 DEF stat1, Statistics
<1>7. RankCounts(m)
  BY <1>5 DEF RankCounts
<1> QED BY <1>4, <1>6, <1>7 DEF m

-----------------------------------------------------------------------------
(* What the handlers are made of.                                          *)

(* sui_user_list_add_user, of a user without a row. *)
LEMMA AddRowGood ==
  ASSUME NEW l, SoundList(l), NEW u \in Participants \ l.inList
  PROVE  SoundList(AddRow(l, u)) /\ AddRow(l, u).inList = l.inList \cup {u}
<1> DEFINE stat1 == [l.stat EXCEPT !["total"] = @ + 1]
           m == [l EXCEPT !.inList = l.inList \cup {u}, !.stat = stat1]
<1>1. l \in Lists /\ l.inList \in SUBSET Participants /\ l.rowRank \in [Participants -> Ranks]
      /\ l.stat \in [Statistics -> Int] /\ l.rank \in [Participants -> Ranks]
  BY DEF SoundList, Lists
<1>2. stat1 \in [Statistics -> Int] /\ stat1["total"] = l.stat["total"] + 1
      /\ \A r \in Counted : stat1[r] = l.stat[r]
  BY <1>1, RankNames DEF Statistics
<1>3. AddRow(l, u) = Update(m, u)
  BY <1>1 DEF AddRow, Lists
<1> HIDE DEF stat1
<1>4. /\ m \in Lists /\ m.inList = l.inList \cup {u} /\ m.stat = stat1
      /\ m.rank = l.rank /\ m.rowRank = l.rowRank
  BY <1>1, <1>2 DEF Lists
<1> HIDE DEF m
<1>5. Cardinality(m.inList) = Cardinality(l.inList) + 1
  BY <1>1, <1>4, ParticipantsAssumption, FS_Subset, FS_AddElement
<1>6. ASSUME NEW r \in Counted PROVE Count(m.inList, m.rowRank, r) = Count(l.inList, l.rowRank, r)
  <2>1. l.rowRank[u] # r
    BY <1>6, RankNames DEF SoundList, Rankless
  <2>2. {v \in m.inList : m.rowRank[v] = r} = {v \in l.inList : l.rowRank[v] = r}
    BY <1>4, <2>1
  <2> QED BY <2>2 DEF Count
<1>7. Counts(m)
  BY <1>2, <1>4, <1>5, <1>6 DEF SoundList, Counts, RankCounts
<1> DEFINE o == Update(m, u)
<1>9. /\ o \in Lists /\ RankCounts(o) /\ o.stat["total"] = m.stat["total"]
      /\ o.rank = m.rank /\ o.inList = m.inList /\ o.rowRank = [m.rowRank EXCEPT ![u] = m.rank[u]]
  BY <1>4, <1>7, UpdateCounts DEF Counts
<1> HIDE DEF o
<1>10. Counts(o) /\ Rankless(o)
  BY <1>1, <1>4, <1>7, <1>9 DEF SoundList, Counts, Rankless
<1>11. \A v \in o.inList : o.rowRank[v] = o.rank[v]
  BY <1>1, <1>4, <1>9 DEF SoundList
<1>8. SoundList(Update(m, u)) /\ Update(m, u).inList = m.inList
  BY <1>9, <1>10, <1>11 DEF SoundList, o
<1> QED BY <1>3, <1>4, <1>8

(* sui_user_list_rm_user, of a user with a row. *)
LEMMA RemoveRowGood ==
  ASSUME NEW l, SoundList(l), NEW u \in l.inList
  PROVE  SoundList(RemoveRow(l, u))
<1> DEFINE stat1 == [l.stat EXCEPT !["total"] = @ - 1]
           k == [l EXCEPT !.rank = [l.rank EXCEPT ![u] = "chigua"], !.stat = stat1]
           j == Update(k, u)
           o == RemoveRow(l, u)
<1>1. l \in Lists /\ l.inList \in SUBSET Participants /\ l.rowRank \in [Participants -> Ranks]
      /\ l.stat \in [Statistics -> Int] /\ l.rank \in [Participants -> Ranks] /\ u \in Participants
  BY DEF SoundList, Lists
<1>2. stat1 \in [Statistics -> Int] /\ stat1["total"] = l.stat["total"] - 1
      /\ \A r \in Counted : stat1[r] = l.stat[r]
  BY <1>1, RankNames DEF Statistics
<1>3. o = [j EXCEPT !.inList = @ \ {u}]
  BY <1>1 DEF RemoveRow, RankOfRemoved, Lists
<1> HIDE DEF stat1
<1>4. /\ k \in Lists /\ k.inList = l.inList /\ k.stat = stat1 /\ k.rowRank = l.rowRank
      /\ k.rank = [l.rank EXCEPT ![u] = "chigua"]
  BY <1>1, <1>2 DEF Lists, Ranks
<1> HIDE DEF k
<1>5. RankCounts(k)
  BY <1>2, <1>4 DEF SoundList, Counts, RankCounts
<1>6. /\ j \in Lists /\ RankCounts(j) /\ j.stat["total"] = l.stat["total"] - 1
      /\ j.inList = l.inList /\ j.rank = [l.rank EXCEPT ![u] = "chigua"]
      /\ j.rowRank = [l.rowRank EXCEPT ![u] = "chigua"]
  BY <1>1, <1>2, <1>4, <1>5, UpdateCounts
<1> HIDE DEF j, o
<1>7. /\ o \in Lists /\ o.inList = l.inList \ {u} /\ o.rank = j.rank /\ o.rowRank = j.rowRank
      /\ o.stat = j.stat
  BY <1>1, <1>3, <1>6 DEF Lists
<1>9. Cardinality(o.inList) = Cardinality(l.inList) - 1
  BY <1>1, <1>7, ParticipantsAssumption, FS_Subset, FS_RemoveElement
<1>10. ASSUME NEW r \in Counted PROVE Count(o.inList, o.rowRank, r) = Count(j.inList, j.rowRank, r)
  <2>1. {v \in o.inList : o.rowRank[v] = r} = {v \in j.inList : j.rowRank[v] = r}
    BY <1>1, <1>6, <1>7, <1>10, RankNames
  <2> QED BY <2>1 DEF Count
<1>11. Counts(o)
  BY <1>6, <1>7, <1>9, <1>10 DEF SoundList, Counts, RankCounts
<1>12. SoundList(o)
  BY <1>1, <1>6, <1>7, <1>11 DEF SoundList, Rankless
<1> QED BY <1>12 DEF o

(* srn_chat_user_set_is_joined. *)
LEMMA SetJoinedGood ==
  ASSUME NEW l, SoundList(l), NEW u \in Participants, NEW is \in BOOLEAN
  PROVE  SoundList(SetJoined(l, u, is))
<1>1. CASE is = (u \in l.inList)
  BY <1>1 DEF SetJoined
<1>2. CASE is /\ u \notin l.inList
  BY <1>2, AddRowGood DEF SetJoined
<1>3. CASE ~is /\ u \in l.inList
  BY <1>3, RemoveRowGood DEF SetJoined
<1> QED BY <1>1, <1>2, <1>3

(* srn_chat_user_set_type. *)
LEMMA SetRankGood ==
  ASSUME NEW l, SoundList(l), NEW u \in Participants, NEW r \in Ranks
  PROVE  SoundList(SetRank(l, u, r))
<1> DEFINE m == [l EXCEPT !.rank = [l.rank EXCEPT ![u] = r]]
<1>1. /\ l \in Lists /\ l.rank \in [Participants -> Ranks] /\ l.rowRank \in [Participants -> Ranks]
      /\ l.inList \in SUBSET Participants
  BY DEF SoundList, Lists
<1>2. /\ m \in Lists /\ m.inList = l.inList /\ m.stat = l.stat /\ m.rowRank = l.rowRank
      /\ m.rank = [l.rank EXCEPT ![u] = r]
  BY <1>1 DEF Lists
<1>3. SetRank(l, u, r) = IF l.rank[u] = r \/ u \notin l.inList THEN m ELSE Update(m, u)
  BY <1>1 DEF SetRank, Lists
<1> HIDE DEF m
<1>4. Counts(m) /\ Rankless(m)
  BY <1>2 DEF SoundList, Counts, RankCounts, Rankless
<1>5. l.rank[u] = r \/ u \notin l.inList => SoundList(m)
  BY <1>1, <1>2, <1>4 DEF SoundList
<1>6. u \in l.inList => SoundList(Update(m, u))
  <2> SUFFICES ASSUME u \in l.inList PROVE SoundList(Update(m, u))
    OBVIOUS
  <2>1. /\ Update(m, u) \in Lists /\ Counts(Update(m, u))
        /\ Update(m, u).rank = m.rank /\ Update(m, u).inList = l.inList
        /\ Update(m, u).rowRank = [l.rowRank EXCEPT ![u] = r]
    BY <1>1, <1>2, <1>4, UpdateCounts DEF Counts
  <2> QED BY <1>1, <1>2, <2>1 DEF SoundList, Rankless
<1> QED BY <1>3, <1>5, <1>6

LEMMA UpdateGood ==
  ASSUME NEW l, SoundList(l), NEW u \in l.inList
  PROVE  SoundList(Update(l, u))
<1>1. l \in Lists /\ l.rowRank \in [Participants -> Ranks] /\ l.inList \in SUBSET Participants
  BY DEF SoundList, Lists
<1>2. /\ Update(l, u) \in Lists /\ Counts(Update(l, u))
      /\ Update(l, u).rank = l.rank /\ Update(l, u).inList = l.inList
      /\ Update(l, u).rowRank = [l.rowRank EXCEPT ![u] = l.rank[u]]
  BY UpdateCounts DEF SoundList, Counts
<1> QED BY <1>1, <1>2 DEF SoundList, Rankless

-----------------------------------------------------------------------------
(* The steps.                                                              *)

RankInv == SoundList(List)

LEMMA BecomesGood ==
  ASSUME NEW l, SoundList(l), Becomes(l)
  PROVE  RankInv'
<1>1. l \in Lists
  BY DEF SoundList
<1>2. l = [rank |-> l.rank, rowRank |-> l.rowRank, inList |-> l.inList, stat |-> l.stat]
  BY <1>1 DEF Lists
<1>3. List' = l
  BY <1>2 DEF List, Becomes
<1>4. SoundList(List')
  BY <1>3
<1> QED BY <1>4 DEF RankInv, SoundList, Counts, RankCounts, Rankless

LEMMA RankInit == UserListInit => RankInv
<1> SUFFICES ASSUME UserListInit PROVE RankInv
  OBVIOUS
<1>1. List \in Lists
  BY DEF UserListInit, List, Lists, Ranks, Statistics
<1>2. /\ List.inList = {} /\ List.rowRank = [u \in Participants |-> "chigua"]
      /\ List.stat = [total |-> 0, full_op |-> 0, half_op |-> 0, voiced |-> 0]
  BY DEF UserListInit, List
<1>3. \A f, r : Count({}, f, r) = 0
  <2>1. \A f, r : {u \in {} : f[u] = r} = {}
    OBVIOUS
  <2> QED BY <2>1, FS_EmptySet DEF Count
<1>4. Counts(List)
  BY <1>2, <1>3, FS_EmptySet, RankNames DEF Counts, RankCounts
<1> QED BY <1>1, <1>2, <1>4 DEF RankInv, SoundList, Rankless

(* srn_chat_set_is_joined: every counter ends where it began. *)
LEMMA ChannelLeftStep ==
  ASSUME RankInv, ChannelLeft
  PROVE  RankInv'
<1>1. /\ rank \in [Participants -> Ranks] /\ rowRank \in [Participants -> Ranks]
      /\ inList \in SUBSET Participants /\ stat \in [Statistics -> Int]
  BY DEF RankInv, SoundList, List, Lists
<1>2. /\ \A r \in Counted : stat[r] = Count(inList, rowRank, r)
      /\ \A u \in Participants \ inList : rowRank[u] = "chigua"
  BY DEF RankInv, SoundList, List, Counts, RankCounts, Rankless
<1>3. /\ rank' \in [Participants -> Ranks] /\ rowRank' \in [Participants -> Ranks]
      /\ \A u \in Participants : rowRank'[u] = "chigua"
  BY <1>1, <1>2 DEF ChannelLeft, RankOfRemoved, Ranks
<1>4. ASSUME NEW r \in Counted PROVE stat'[r] = 0
  <2>1. r \in Statistics /\ r # "total" /\ r # "chigua"
    BY RankNames DEF Statistics
  <2>2. {u \in inList : rowRank'[u] = r} = {}
    BY <1>1, <1>3, <2>1
  <2>3. Cardinality({u \in inList : rowRank'[u] = r}) = 0
    BY <2>2, FS_EmptySet
  <2>4. stat'[r] = (stat[r] + 0) - Count(inList, rowRank, r)
    BY <1>1, <2>1, <2>3 DEF ChannelLeft, Count
  <2> QED BY <1>1, <1>2, <2>1, <2>4
<1>5. inList' = {} /\ stat'["total"] = 0 /\ DOMAIN stat' = Statistics
      /\ stat' = [r \in Statistics |-> stat'[r]]
  BY <1>1 DEF ChannelLeft, Statistics
<1>6. stat' \in [Statistics -> Int]
  BY <1>4, <1>5, RankNames DEF Statistics
<1>7. \A f, r : Count({}, f, r) = 0
  <2>1. \A f, r : {u \in {} : f[u] = r} = {}
    OBVIOUS
  <2> QED BY <2>1, FS_EmptySet DEF Count
<1> DEFINE l == [rank |-> rank', rowRank |-> rowRank', inList |-> inList', stat |-> stat']
<1>8. l \in Lists /\ Becomes(l)
  BY <1>3, <1>5, <1>6 DEF Lists, Becomes
<1>9. Counts(l)
  BY <1>4, <1>5, <1>7, FS_EmptySet DEF Counts, RankCounts
<1>10. SoundList(l)
  BY <1>3, <1>5, <1>8, <1>9 DEF SoundList, Rankless
<1> QED BY <1>8, <1>10, BecomesGood

LEMMA RankStep == RankInv /\ [UserListNext]_rankVars => RankInv'
<1> SUFFICES ASSUME RankInv, [UserListNext]_rankVars PROVE RankInv'
  OBVIOUS
<1>0. SoundList(List) /\ List.inList = inList
  BY DEF RankInv, List
<1>1. ASSUME NEW u \in Participants, UserJoins(u) \/ UserLeaves(u) PROVE RankInv'
  BY <1>0, <1>1, SetJoinedGood, BecomesGood DEF UserJoins, UserLeaves
<1>2. ASSUME NEW u \in Participants, UserUpdated(u) PROVE RankInv'
  BY <1>0, <1>2, UpdateGood, BecomesGood DEF UserUpdated
<1>3. ASSUME NEW u \in Participants, NEW r \in Ranks, UserNamed(u, r) \/ UserMode(u, r)
      PROVE  RankInv'
  <2>1. SoundList(SetRank(SetJoined(List, u, TRUE), u, r)) /\ SoundList(SetRank(List, u, r))
    BY <1>0, SetJoinedGood, SetRankGood
  <2> QED BY <1>3, <2>1, BecomesGood DEF UserNamed, UserMode
<1>4. CASE ChannelLeft
  BY <1>4, ChannelLeftStep
<1>5. CASE UNCHANGED rankVars
  BY <1>0, <1>5, BecomesGood DEF rankVars, Becomes, List
<1> QED BY <1>1, <1>2, <1>3, <1>4, <1>5 DEF UserListNext

-----------------------------------------------------------------------------
(* The counters of sui_user_list.c agree with its rows, and whoever has no *)
(* row is remembered without a rank.                                       *)
THEOREM RankInvariance == UserListSpec => []RankInv
<1> QED BY RankInit, RankStep, PTL DEF UserListSpec

(* The counters of SuiUserList are what its rows add up to, and every row  *)
(* shows the rank of its user, for any number of users and any history of  *)
(* joins, leaves, modes and replies to NAMES.                              *)
THEOREM StatisticsAddUp == UserListSpec => []StatisticsAgree
<1>1. RankInv => StatisticsAgree
  <2> SUFFICES ASSUME RankInv PROVE StatisticsAgree
    OBVIOUS
  <2>1. /\ stat["total"] = Cardinality(inList)
        /\ \A r \in Counted : stat[r] = Cardinality({u \in inList : rowRank[u] = r})
        /\ \A u \in inList : rowRank[u] = rank[u]
    BY DEF RankInv, SoundList, Counts, RankCounts, Count, List
  <2>2. \A r : {u \in inList : rowRank[u] = r} = {u \in inList : rank[u] = r}
    BY <2>1
  <2> QED BY <2>1, <2>2 DEF StatisticsAgree
<1> QED BY <1>1, RankInvariance, PTL

-----------------------------------------------------------------------------
(* The join panel.                                                         *)

LastLine == Len(Listing) + 1
FirstLine == IF announces THEN 0 ELSE 1

(* An answer is its first line, the rows and its last line: 0..LastLine. *)
LineAt(p) == IF p = 0 THEN Start ELSE IF p = LastLine THEN End ELSE Row(Listing[p])
Follows(p, q) == q = IF p = LastLine THEN FirstLine ELSE p + 1

PlacedAt(at) ==
  /\ at \in [1..Len(answer) -> FirstLine..LastLine]
  /\ \A i \in 1..Len(answer) : answer[i] = LineAt(at[i])
  /\ \A i \in 1..Len(answer) - 1 : Follows(at[i], at[i + 1])
  /\ answer # <<>> => at[Len(answer)] = LastLine

Loading(at) ==
  announces /\ answer # <<>> /\ at[1] # 0 => adding /\ rows = kept \o SubSeq(Listing, 1, at[1] - 1)

AnswerLines == {LineAt(p) : p \in 0..LastLine}

RowsTypes ==
  /\ announces \in BOOLEAN /\ adding \in BOOLEAN /\ listed \in BOOLEAN
  /\ lists \in 0..MaxRequests /\ cuts \in 0..MaxListCuts
  /\ answer \in Seq(AnswerLines)
  /\ rows \in Seq(ToSet(Listing)) /\ kept \in Seq(ToSet(Listing))

RowsInv ==
  /\ RowsTypes
  /\ \E at : PlacedAt(at) /\ Loading(at)
  /\ ~announces => ~adding /\ ~listed
  /\ ListShown

LEMMA ListingFacts ==
  /\ Len(Listing) \in Nat /\ DOMAIN Listing = 1..Len(Listing) /\ LastLine \in Nat /\ LastLine > 0
  /\ \A p \in 1..Len(Listing) : Listing[p] \in ToSet(Listing)
BY ListingIsList, LenProperties DEF LastLine, ToSet

LEMMA AnswerKinds ==
  ASSUME NEW p \in 0..LastLine
  PROVE  /\ LineAt(p) = Start <=> p = 0
         /\ LineAt(p) = End <=> p = LastLine
         /\ \A c : LineAt(p) = Row(c) => p \in 1..Len(Listing) /\ c = Listing[p]
<1>1. \A c : Start # End /\ Row(c) # Start /\ Row(c) # End
  BY DEF Start, Row, End
<1>2. \A c, d : Row(c) = Row(d) => c = d
  BY DEF Row
<1> HIDE DEF Start, Row, End
<1> QED BY <1>1, <1>2, ListingFacts DEF LineAt, LastLine

(* The first line of what is under way, and what comes behind it. *)
LEMMA PlacesTail ==
  ASSUME RowsTypes, NEW at, PlacedAt(at), answer # <<>>, answer' = Tail(answer), announces' = announces,
         NEW rest, rest = [i \in 1..Len(answer) - 1 |-> at[i + 1]]
  PROVE  /\ PlacedAt(rest)' /\ answer' \in Seq(AnswerLines)
         /\ at[1] \in FirstLine..LastLine /\ answer[1] = LineAt(at[1])
         /\ answer' # <<>> => rest[1] \in FirstLine..LastLine /\ Follows(at[1], rest[1])
<1>1. Len(answer) \in Nat \ {0} /\ answer \in Seq(AnswerLines)
  BY EmptySeq DEF RowsTypes
<1>2. /\ answer' \in Seq(AnswerLines) /\ Len(answer') = Len(answer) - 1
      /\ \A i \in 1..Len(answer) - 1 : answer'[i] = answer[i + 1]
  BY <1>1, HeadTailProperties
<1>3. answer' # <<>> => Len(answer') > 0
  BY <1>2, EmptySeq
<1>4. FirstLine' = FirstLine
  BY DEF FirstLine
<1>5. rest \in [1..Len(answer) - 1 -> FirstLine..LastLine]
  BY <1>1 DEF PlacedAt
<1>6. \A i \in 1..Len(answer) - 1 : answer'[i] = LineAt(rest[i])
  BY <1>1, <1>2 DEF PlacedAt
<1>7. \A i \in 1..Len(answer) - 2 : Follows(rest[i], rest[i + 1])
  BY <1>1 DEF PlacedAt
<1>8. answer' # <<>> => rest[Len(answer) - 1] = LastLine
  BY <1>1, <1>2, <1>3 DEF PlacedAt
<1>9. \A p, q : Follows(p, q)' <=> Follows(p, q)
  BY <1>4 DEF Follows, LastLine
<1>10. PlacedAt(rest)'
  BY <1>1, <1>2, <1>4, <1>5, <1>6, <1>7, <1>8, <1>9 DEF PlacedAt
<1>11. answer' # <<>> => rest[1] \in FirstLine..LastLine /\ Follows(at[1], rest[1])
  BY SMTT(30), <1>1, <1>2, <1>3, <1>5 DEF PlacedAt
<1>12. at[1] \in FirstLine..LastLine /\ answer[1] = LineAt(at[1])
  <2>1. 1 \in 1..Len(answer)
    BY <1>1
  <2> QED BY <2>1 DEF PlacedAt
<1> QED BY <1>2, <1>10, <1>11, <1>12

LEMMA RowsInit == JoinInit => RowsInv
<1> SUFFICES ASSUME JoinInit PROVE RowsInv
  OBVIOUS
<1>1. answer = <<>> /\ Len(answer) = 0
  BY DEF JoinInit
<1>2. PlacedAt([i \in 1..0 |-> 0]) /\ Loading([i \in 1..0 |-> 0])
  BY <1>1 DEF PlacedAt, Loading
<1>3. RowsTypes
  <2>1. <<>> \in Seq(AnswerLines) /\ <<>> \in Seq(ToSet(Listing))
    BY EmptySeq
  <2>2. 0 \in 0..MaxRequests /\ 0 \in 0..MaxListCuts
    BY ListBounds
  <2> QED BY <2>1, <2>2 DEF JoinInit, RowsTypes
<1>4. ~adding /\ ~listed /\ rows = <<>>
  BY DEF JoinInit
<1> QED BY <1>2, <1>3, <1>4 DEF RowsInv, ListShown

LEMMA ListStartStep == ASSUME RowsInv, ListStart PROVE RowsInv'
<1>1. PICK at : PlacedAt(at) /\ Loading(at)
  BY DEF RowsInv
<1>0. PICK rest : rest = [i \in 1..Len(answer) - 1 |-> at[i + 1]]
  OBVIOUS
<1>2. /\ answer # <<>> /\ Head(answer) = Start /\ answer' = Tail(answer)
      /\ UNCHANGED <<announces, lists, cuts>>
  BY DEF ListStart, Receive
<1>3. /\ PlacedAt(rest)' /\ answer' \in Seq(AnswerLines)
      /\ at[1] \in FirstLine..LastLine /\ answer[1] = LineAt(at[1])
      /\ answer' # <<>> => rest[1] \in FirstLine..LastLine /\ Follows(at[1], rest[1])
  BY <1>0, <1>1, <1>2, PlacesTail DEF RowsInv
<1>4. at[1] = 0 /\ announces
  BY <1>2, <1>3, AnswerKinds, ListingFacts DEF FirstLine
<1>5. /\ adding' = TRUE /\ listed' = listed
      /\ rows' = IF adding THEN rows ELSE <<>>
      /\ kept' = IF adding THEN rows ELSE <<>>
  BY DEF ListStart, RowsAtStart
<1>6. rows' \in Seq(ToSet(Listing)) /\ kept' = rows'
  BY <1>5 DEF RowsInv, RowsTypes
<1>7. Loading(rest)'
  <2> SUFFICES ASSUME answer' # <<>>
               PROVE  rows' = kept' \o SubSeq(Listing, 1, rest[1] - 1)
    BY <1>5 DEF Loading
  <2>1. rest[1] = 1
    BY <1>3, <1>4, ListingFacts DEF Follows
  <2>2. SubSeq(Listing, 1, 0) = <<>>
    BY SubSeqEmpty
  <2> QED BY <1>6, <2>1, <2>2, ConcatEmptySeq
<1> QED BY <1>2, <1>3, <1>4, <1>5, <1>6, <1>7 DEF RowsInv, RowsTypes, ListShown

LEMMA ListAddStep == ASSUME RowsInv, NEW c \in ToSet(Listing), ListAdd(c) PROVE RowsInv'
<1>1. PICK at : PlacedAt(at) /\ Loading(at)
  BY DEF RowsInv
<1>0. PICK rest : rest = [i \in 1..Len(answer) - 1 |-> at[i + 1]]
  OBVIOUS
<1>2. /\ answer # <<>> /\ Head(answer) = Row(c) /\ answer' = Tail(answer)
      /\ UNCHANGED <<announces, lists, cuts, adding, kept, listed>>
      /\ rows' = IF adding THEN Append(rows, c) ELSE rows
  BY DEF ListAdd, Receive
<1>3. /\ PlacedAt(rest)' /\ answer' \in Seq(AnswerLines)
      /\ at[1] \in FirstLine..LastLine /\ answer[1] = LineAt(at[1])
      /\ answer' # <<>> => rest[1] \in FirstLine..LastLine /\ Follows(at[1], rest[1])
  BY <1>0, <1>1, <1>2, PlacesTail DEF RowsInv
<1>4. at[1] \in 1..Len(Listing) /\ c = Listing[at[1]]
  BY <1>2, <1>3, AnswerKinds, ListingFacts DEF FirstLine
<1>5. rows' \in Seq(ToSet(Listing))
  BY <1>2, AppendProperties DEF RowsInv, RowsTypes
<1>6. CASE ~announces
  BY <1>2, <1>3, <1>5, <1>6 DEF RowsInv, RowsTypes, ListShown, Loading
<1>7. CASE announces
  <2>1. adding /\ rows = kept \o SubSeq(Listing, 1, at[1] - 1)
    BY SMTT(30), <1>1, <1>2, <1>4, <1>7 DEF Loading
  <2>2. rows' = kept \o SubSeq(Listing, 1, at[1])
    <3> DEFINE L == ToSet(Listing)
               a == SubSeq(Listing, 1, at[1] - 1)
    <3>1. Listing \in Seq(L) /\ c \in L /\ kept \in Seq(L)
      BY ListingIsList DEF RowsInv, RowsTypes
    <3>2. \A i \in 1..at[1] : Listing[i] \in L
      BY <1>4, ListingFacts
    <3>3. a \in Seq(L)
      BY <1>4, <3>2, SubSeqProperties
    <3>4. SubSeq(Listing, 1, at[1]) = a \o <<c>>
      <4>1. 1 \in 1..Len(Listing) /\ at[1] \in 1..Len(Listing)
        BY <1>4, ListingFacts
      <4> QED BY <1>4, <3>1, <4>1, SubSeqRecursiveSecond
    <3> HIDE DEF a, L
    <3>5. Append(kept \o a, c) = (kept \o a) \o <<c>>
      BY <3>1, <3>3, ConcatProperties, AppendIsConcat
    <3>6. (kept \o a) \o <<c>> = kept \o (a \o <<c>>)
      BY <3>1, <3>3, ConcatAssociative
    <3> QED BY <1>2, <2>1, <3>4, <3>5, <3>6 DEF a
  <2>3. Loading(rest)'
    <3> SUFFICES ASSUME answer' # <<>>
                 PROVE  rows' = kept \o SubSeq(Listing, 1, rest[1] - 1)
      BY <1>2, <2>1 DEF Loading
    <3>1. rest[1] - 1 = at[1]
      BY <1>3, <1>4, ListingFacts DEF Follows, LastLine
    <3> QED BY <2>2, <3>1
  <2> QED BY <1>2, <1>3, <1>5, <1>7, <2>1, <2>3 DEF RowsInv, RowsTypes, ListShown
<1> QED BY <1>6, <1>7

LEMMA ListEndStep == ASSUME RowsInv, ListEnd PROVE RowsInv'
<1>1. PICK at : PlacedAt(at) /\ Loading(at)
  BY DEF RowsInv
<1>0. PICK rest : rest = [i \in 1..Len(answer) - 1 |-> at[i + 1]]
  OBVIOUS
<1>2. /\ answer # <<>> /\ Head(answer) = End /\ answer' = Tail(answer)
      /\ UNCHANGED <<announces, lists, cuts, rows, kept>>
      /\ adding' = FALSE /\ listed' = (listed \/ adding)
  BY DEF ListEnd, Receive
<1>3. /\ PlacedAt(rest)' /\ answer' \in Seq(AnswerLines)
      /\ at[1] \in FirstLine..LastLine /\ answer[1] = LineAt(at[1])
      /\ answer' # <<>> => rest[1] \in FirstLine..LastLine /\ Follows(at[1], rest[1])
  BY <1>0, <1>1, <1>2, PlacesTail DEF RowsInv
<1>4. at[1] = LastLine /\ LastLine # 0
  BY <1>2, <1>3, AnswerKinds, ListingFacts DEF FirstLine
<1>5. RowsTypes'
  BY <1>2, <1>3 DEF RowsInv, RowsTypes
<1>6. CASE ~announces
  BY <1>2, <1>3, <1>5, <1>6 DEF RowsInv, ListShown, Loading
<1>7. CASE announces
  <2>1. adding /\ rows = kept \o SubSeq(Listing, 1, Len(Listing))
    BY <1>1, <1>2, <1>4, <1>7, ListingFacts DEF Loading, LastLine
  <2>2. rows = kept \o Listing
    BY <2>1, ListingIsList, SubSeqFull
  <2>3. Loading(rest)'
    BY <1>2, <1>3, <1>4, <1>7 DEF Loading, Follows, FirstLine
  <2> QED BY <1>2, <1>3, <1>5, <1>7, <2>1, <2>2, <2>3 DEF RowsInv, ListShown
<1> QED BY <1>6, <1>7

(* One whole answer more behind those under way. *)
LEMMA RefreshStep == ASSUME RowsInv, Refresh PROVE RowsInv'
<1>1. PICK at : PlacedAt(at) /\ Loading(at)
  BY DEF RowsInv
<1> DEFINE start == IF announces THEN <<Start>> ELSE <<>>
           body == [i \in DOMAIN Listing |-> Row(Listing[i])]
           block == start \o body \o <<End>>
           n == Len(answer)
           m == LastLine + 1 - FirstLine
<1>2. /\ answer' = answer \o start \o body \o <<End>>
      /\ lists < MaxRequests /\ lists' = lists + 1
      /\ UNCHANGED <<announces, cuts, adding, rows, kept, listed>>
  BY DEF Refresh
<1>3. n \in Nat /\ m \in Nat /\ m > 0 /\ FirstLine \in {0, 1} /\ (FirstLine = 0 <=> announces)
  BY ListingFacts, LenProperties DEF RowsInv, RowsTypes, FirstLine
<1>4. /\ start \in Seq(AnswerLines) /\ Len(start) = 1 - FirstLine
      /\ announces => start[1] = LineAt(FirstLine)
  <2>1. LineAt(0) = Start /\ LineAt(0) \in AnswerLines
    BY ListingFacts DEF LineAt, AnswerLines
  <2> QED BY <2>1 DEF FirstLine
<1>5. /\ body \in Seq(AnswerLines) /\ Len(body) = Len(Listing)
      /\ \A i \in 1..Len(Listing) : body[i] = LineAt(i)
  <2>1. \A i \in 1..Len(Listing) : Row(Listing[i]) = LineAt(i) /\ LineAt(i) \in AnswerLines
    BY ListingFacts DEF LineAt, AnswerLines, LastLine
  <2>2. body \in [1..Len(Listing) -> AnswerLines]
    BY <2>1, ListingFacts
  <2>3. body \in Seq(AnswerLines)
    BY <2>2, ListingFacts, SeqDef
  <2> QED BY <2>1, <2>2, <2>3, ListingFacts, LenProperties
<1>6. <<End>> \in Seq(AnswerLines) /\ Len(<<End>>) = 1 /\ <<End>>[1] = LineAt(LastLine)
  <2>1. LineAt(LastLine) = End /\ LineAt(LastLine) \in AnswerLines
    BY ListingFacts DEF LineAt, AnswerLines
  <2> QED BY <2>1
<1> HIDE DEF start, body
<1>7. /\ block \in Seq(AnswerLines) /\ Len(block) = m
      /\ \A i \in 1..m : block[i] = LineAt(FirstLine + i - 1)
  <2> DEFINE two == start \o body
  <2>1. /\ two \in Seq(AnswerLines) /\ Len(two) = 1 - FirstLine + Len(Listing)
        /\ \A i \in 1..Len(two) : two[i] = IF i <= Len(start) THEN start[i] ELSE body[i - Len(start)]
    BY <1>4, <1>5, ConcatProperties
  <2>2. \A i \in 1..Len(two) : two[i] = LineAt(FirstLine + i - 1)
    <3> SUFFICES ASSUME NEW i \in 1..Len(two) PROVE two[i] = LineAt(FirstLine + i - 1)
      OBVIOUS
    <3>1. CASE i <= Len(start)
      BY <1>3, <1>4, <2>1, <3>1
    <3>2. CASE ~(i <= Len(start))
      <4>1. i - Len(start) \in 1..Len(Listing) /\ i - Len(start) = FirstLine + i - 1
        BY <1>3, <1>4, <2>1, <3>2, ListingFacts
      <4> QED BY <1>5, <2>1, <3>2, <4>1
    <3> QED BY <3>1, <3>2
  <2> HIDE DEF two
  <2>3. /\ two \o <<End>> \in Seq(AnswerLines) /\ Len(two \o <<End>>) = Len(two) + 1
        /\ \A i \in 1..Len(two) + 1 : (two \o <<End>>)[i] = IF i <= Len(two) THEN two[i] ELSE <<End>>[i - Len(two)]
    BY <1>6, <2>1, ConcatProperties
  <2>4. Len(two) + 1 = m /\ FirstLine + m - 1 = LastLine
    BY <1>3, <2>1, ListingFacts DEF LastLine
  <2>5. \A i \in 1..m : (two \o <<End>>)[i] = LineAt(FirstLine + i - 1)
    <3> SUFFICES ASSUME NEW i \in 1..m PROVE (two \o <<End>>)[i] = LineAt(FirstLine + i - 1)
      OBVIOUS
    <3>1. CASE i <= Len(two)
      BY <2>2, <2>3, <2>4, <3>1
    <3>2. CASE ~(i <= Len(two))
      <4>1. i = m /\ i - Len(two) = 1
        BY <1>3, <1>4, <2>1, <2>4, <3>2, ListingFacts
      <4> QED BY <1>6, <2>3, <2>4, <3>2, <4>1
    <3> QED BY <3>1, <3>2
  <2> QED BY <2>3, <2>4, <2>5 DEF two
<1>8. answer' = answer \o block
  <2>1. answer \in Seq(AnswerLines)
    BY DEF RowsInv, RowsTypes
  <2>2. (answer \o start) \o body = answer \o (start \o body)
    BY SMTT(30), <1>4, <1>5, <2>1, ConcatAssociative
  <2>3. start \o body \in Seq(AnswerLines)
    BY <1>4, <1>5, ConcatProperties
  <2>4. (answer \o (start \o body)) \o <<End>> = answer \o ((start \o body) \o <<End>>)
    <3>1. PICK both \in Seq(AnswerLines) : both = start \o body
      BY <2>3
    <3>2. PICK ending \in Seq(AnswerLines) : ending = <<End>>
      BY <1>6
    <3>3. (answer \o both) \o ending = answer \o (both \o ending)
      BY <2>1, ConcatAssociative
    <3> QED BY <3>1, <3>2, <3>3, Zenon
  <2> QED BY <1>2, <2>2, <2>4
<1> HIDE DEF block, m, n
<1>9. /\ answer' \in Seq(AnswerLines) /\ Len(answer') = n + m
      /\ \A i \in 1..n + m : answer'[i] = IF i <= n THEN answer[i] ELSE block[i - n]
  BY <1>7, <1>8, ConcatProperties DEF RowsInv, RowsTypes, n
<1>10. PICK more : more = [i \in 1..n + m |-> IF i <= n THEN at[i] ELSE FirstLine + (i - n) - 1]
  OBVIOUS
<1>11. /\ \A i \in 1..n : at[i] \in FirstLine..LastLine /\ answer[i] = LineAt(at[i])
       /\ \A i \in 1..n - 1 : Follows(at[i], at[i + 1])
       /\ n > 0 => at[n] = LastLine
  <2>1. n > 0 => answer # <<>>
    BY EmptySeq DEF n
  <2>2. /\ \A i \in 1..n : at[i] \in FirstLine..LastLine /\ answer[i] = LineAt(at[i])
        /\ \A i \in 1..n - 1 : Follows(at[i], at[i + 1])
        /\ answer # <<>> => at[n] = LastLine
    BY <1>1 DEF PlacedAt, n
  <2> QED BY <2>1, <2>2
<1>12. FirstLine' = FirstLine
  BY <1>2 DEF FirstLine
<1>13. more \in [1..n + m -> FirstLine..LastLine]
  <2> SUFFICES ASSUME NEW i \in 1..n + m PROVE more[i] \in FirstLine..LastLine
    BY <1>10
  <2>1. CASE i <= n
    BY <1>3, <1>10, <1>11, <2>1
  <2>2. CASE ~(i <= n)
    BY <1>3, <1>10, <2>2, ListingFacts DEF m
  <2> QED BY <2>1, <2>2
<1>14. \A i \in 1..n + m : answer'[i] = LineAt(more[i])
  <2> SUFFICES ASSUME NEW i \in 1..n + m PROVE answer'[i] = LineAt(more[i])
    OBVIOUS
  <2>1. CASE i <= n
    <3>1. i \in 1..n
      BY <1>3, <2>1
    <3>2. answer'[i] = answer[i]
      BY <1>9, <2>1
    <3>3. more[i] = at[i]
      BY <1>10, <2>1
    <3> QED BY <1>11, <3>1, <3>2, <3>3, Zenon
  <2>2. CASE ~(i <= n)
    <3>1. i - n \in 1..m
      BY <1>3, <2>2
    <3> QED BY <1>7, <1>9, <1>10, <2>2, <3>1
  <2> QED BY <2>1, <2>2
<1>15. ASSUME NEW i \in 1..n + m - 1
       PROVE  Follows(more[i], more[i + 1])
  <2>0. i \in 1..n + m /\ i + 1 \in 1..n + m
    BY <1>3
  <2>1. CASE i < n
    <3>1. i \in 1..n - 1 /\ more[i] = at[i] /\ more[i + 1] = at[i + 1]
      BY <1>3, <1>10, <2>0, <2>1
    <3> QED BY <1>11, <3>1
  <2>2. CASE i = n
    <3>1. more[i] = LastLine /\ more[i + 1] = FirstLine
      BY <1>3, <1>10, <1>11, <2>0, <2>2
    <3> QED BY <3>1 DEF Follows
  <2>3. CASE i > n
    <3>1. more[i] = FirstLine + (i - n) - 1 /\ more[i + 1] = FirstLine + (i + 1 - n) - 1
      BY <1>3, <1>10, <2>0, <2>3
    <3>2. more[i] # LastLine /\ more[i + 1] = more[i] + 1
      BY <1>3, <3>1, ListingFacts DEF m
    <3> QED BY <3>2 DEF Follows
  <2> QED BY <1>3, <2>1, <2>2, <2>3
<1>16. more[n + m] = LastLine
  BY <1>3, <1>10, ListingFacts DEF m
<1>17. PlacedAt(more)'
  <2>1. \A p, q : Follows(p, q)' <=> Follows(p, q)
    BY <1>12 DEF Follows
  <2>2. Len(answer') = n + m
    BY <1>9
  <2>4. \A i \in 1..n + m : answer'[i] = LineAt(more[i])
    BY <1>14
  <2>5. FirstLine' = FirstLine
    BY <1>12
  <2>6. more \in [1..Len(answer') -> FirstLine'..LastLine]
    BY <1>13, <2>2, <2>5
  <2>7. answer' # <<>> => more[Len(answer')] = LastLine
    BY <1>16, <2>2, <2>5
  <2>8. \A i \in 1..Len(answer') - 1 : Follows(more[i], more[i + 1])'
    BY <1>3, <1>15, <2>1, <2>2
  <2>9. \A i \in 1..Len(answer') : answer'[i] = LineAt(more[i])
    BY <2>2, <2>4
  <2> QED BY <2>6, <2>7, <2>8, <2>9, Zenon DEF PlacedAt
<1>18. Loading(more)'
  <2>1. CASE n = 0
    BY <1>2, <1>3, <1>10, <2>1 DEF Loading
  <2>2. CASE n > 0
    <3>1. more[1] = at[1] /\ answer # <<>>
      BY <1>3, <1>10, <2>2, EmptySeq DEF n
    <3> QED BY <1>1, <1>2, <3>1 DEF Loading
  <2> QED BY <1>3, <2>1, <2>2
<1>19. RowsTypes'
  BY <1>2, <1>9, ListBounds DEF RowsInv, RowsTypes
<1> QED BY <1>2, <1>17, <1>18, <1>19 DEF RowsInv, ListShown

LEMMA CutStep == ASSUME RowsInv, Cut PROVE RowsInv'
<1>1. /\ answer' = <<>> /\ cuts < MaxListCuts /\ cuts' = cuts + 1
      /\ UNCHANGED <<announces, lists, adding, rows, kept, listed>>
  BY DEF Cut
<1>2. (PlacedAt([i \in 1..0 |-> 0]) /\ Loading([i \in 1..0 |-> 0]))'
  BY <1>1 DEF PlacedAt, Loading
<1>3. RowsTypes'
  BY <1>1, ListBounds DEF RowsInv, RowsTypes
<1> QED BY <1>1, <1>2, <1>3 DEF RowsInv, ListShown

LEMMA RowsStep == RowsInv /\ [JoinNext]_joinVars => RowsInv'
<1> SUFFICES ASSUME RowsInv, [JoinNext]_joinVars PROVE RowsInv'
  OBVIOUS
<1>1. CASE UNCHANGED listVars
  BY <1>1 DEF listVars, RowsInv, RowsTypes, PlacedAt, Loading, Follows, FirstLine, LastLine, ListShown
<1>2. CASE Refresh \/ Cut \/ ListStart \/ ListEnd \/ \E c \in ToSet(Listing) : ListAdd(c)
  BY <1>2, RefreshStep, CutStep, ListStartStep, ListEndStep, ListAddStep
<1>3. CASE TurnPage \/ ClickCancel
  BY <1>1, <1>3 DEF TurnPage, ClickCancel
<1>4. ASSUME NEW c, LookupDone(c) \/ ActivateRow(c) \/ TypeChannel(c) PROVE RowsInv'
  BY <1>1, <1>4 DEF LookupDone, ActivateRow, TypeChannel
<1>5. ASSUME NEW c, NEW remember, NEW ok, ClickJoin(c, remember, ok) PROVE RowsInv'
  BY <1>1, <1>5 DEF ClickJoin
<1>6. ASSUME NEW k, TypeKey(k) PROVE RowsInv'
  BY <1>1, <1>6 DEF TypeKey
<1>7. CASE UNCHANGED joinVars
  BY <1>1, <1>7 DEF joinVars, listVars
<1> QED BY <1>2, <1>3, <1>4, <1>5, <1>6, <1>7 DEF JoinNext

(* The rows of the panel, the answers on their way and is_adding determine *)
(* each other: sui_chan_list_start, sui_chan_list_add, sui_chan_list_end.  *)
THEOREM RowsInvariance == JoinSpec => []RowsInv
<1> QED BY RowsInit, RowsStep, PTL DEF JoinSpec

(* Whenever the panel does not say that it loads, it shows the whole list  *)
(* of the last answer, behind what a connection that ended left of one.    *)
THEOREM ListIsWhole == JoinSpec => []ListShown
<1>1. RowsInv => ListShown
  BY DEF RowsInv
<1> QED BY <1>1, RowsInvariance, PTL

EntryTypes ==
  /\ page \in {"join", "search"}
  /\ entry \in Channels \cup {NoChannel} /\ key \in Passwords \cup {NoPassword}
  /\ lookups \subseteq Channels
  /\ keyring \in [Channels -> Passwords \cup {NoPassword}]

LEMMA EntryStep == EntryTypes /\ [JoinNext]_joinVars => EntryTypes'
<1> SUFFICES ASSUME EntryTypes, [JoinNext]_joinVars PROVE EntryTypes'
  OBVIOUS
<1> USE DEF EntryTypes
<1>1. CASE UNCHANGED entryVars
  BY <1>1 DEF entryVars
<1>2. CASE Refresh \/ Cut \/ ListStart \/ ListEnd \/ \E c \in ToSet(Listing) : ListAdd(c)
  BY <1>1, <1>2 DEF Refresh, Cut, ListStart, ListEnd, ListAdd, Receive
<1>3. CASE TurnPage \/ ClickCancel
  BY <1>3 DEF TurnPage, ClickCancel, ClearPanel
<1>4. ASSUME NEW c \in Channels, LookupDone(c) \/ ActivateRow(c) PROVE EntryTypes'
  BY <1>4 DEF LookupDone, LookedUp, ActivateRow, SetEntry
<1>5. ASSUME NEW c \in Channels \cup {NoChannel}, TypeChannel(c) PROVE EntryTypes'
  BY <1>5 DEF TypeChannel, SetEntry
<1>6. ASSUME NEW c \in Channels \cup {NoChannel}, NEW remember, NEW ok, ClickJoin(c, remember, ok)
      PROVE  EntryTypes'
  BY <1>6 DEF ClickJoin, ClearPanel, Stored
<1>7. ASSUME NEW k \in Passwords \cup {NoPassword}, TypeKey(k) PROVE EntryTypes'
  BY <1>7 DEF TypeKey
<1>8. CASE UNCHANGED joinVars
  BY <1>1, <1>8 DEF joinVars, entryVars
<1> QED BY <1>2, <1>3, <1>4, <1>5, <1>6, <1>7, <1>8 DEF JoinNext

(* The state of sui_join_panel.c keeps its types for any list and any      *)
(* number of requests.                                                     *)
THEOREM JoinTypeCorrect == JoinSpec => []JoinTypeOK
<1>1. JoinInit => EntryTypes
  BY DEF JoinInit, EntryTypes
<1>2. RowsInv /\ EntryTypes => JoinTypeOK
  BY DEF RowsInv, RowsTypes, EntryTypes, JoinTypeOK
<1> QED BY <1>1, <1>2, EntryStep, RowsInvariance, PTL DEF JoinSpec

-----------------------------------------------------------------------------
(* What a text buffer recalls. *)
OnceMore(h, l) == IF h # <<>> /\ Last(h) = l THEN h ELSE Append(h, l)

AreRuns(f, X, s, n) ==
  /\ f \in [0..n -> Seq(X)] /\ f[0] = <<>> /\ f[n] = Runs(s)
  /\ \A k \in 1..n : f[k] = OnceMore(f[k - 1], s[k])

LEMMA OnceMoreTyped ==
  ASSUME NEW X, NEW h \in Seq(X), NEW l \in X
  PROVE  OnceMore(h, l) \in Seq(X)
BY DEF OnceMore

LEMMA RunsFold ==
  ASSUME NEW X, NEW s \in Seq(X), NEW n, n = Len(s)
  PROVE  \E f : AreRuns(f, X, s, n)
<1>0. n \in Nat /\ DOMAIN s = 1..n /\ \A k \in 1..n : s[k] \in X
  BY LenProperties, ElementOfSeq
<1> DEFINE Y == Seq(X)
           F == [p \in (1..n) \X Y |-> OnceMore(p[2], s[p[1]])]
           Next(it, t) == IF t = {} THEN <<>> ELSE OnceMore(it[t \ {Max(t)}], s[Max(t)])
           g == CHOOSE h : h = [t \in SUBSET (1..n) |-> Next(h, t)]
<1>1. Steps(F, Y, n)
  <2>1. \A p \in (1..n) \X Y : OnceMore(p[2], s[p[1]]) \in Y
    BY <1>0, OnceMoreTyped
  <2> HIDE DEF Y
  <2> QED BY <2>1 DEF Steps
<1>2. \A k \in 1..n, x \in Y : F[<<k, x>>] = OnceMore(x, s[k])
  <2> HIDE DEF Y
  <2> QED OBVIOUS
<1>3. Runs(s) = g[1..n]
  BY <1>0 DEF Runs, FoldLeft, MapThenFoldSet, OnceMore
<1>4. <<>> \in Y
  OBVIOUS
<1> HIDE DEF F, Y
<1>5. PICK it : IsFold(it, Y, n, <<>>, F)
  BY <1>0, <1>1, <1>4, FoldExists
<1>6. it = [t \in SUBSET (1..n) |-> Next(it, t)]
  <2>1. ASSUME NEW t \in SUBSET (1..n), t # {}
        PROVE  it[t] = OnceMore(it[t \ {Max(t)}], s[Max(t)])
    <3>1. Max(t) \in 1..n /\ t \ {Max(t)} \in SUBSET (1..n)
      BY <1>0, <2>1, MaxIn
    <3>2. it[t \ {Max(t)}] \in Y /\ it[t] = F[<<Max(t), it[t \ {Max(t)}]>>]
      BY <1>5, <2>1, <3>1 DEF IsFold
    <3> QED BY <1>2, <3>1, <3>2
  <2>2. \A t \in SUBSET (1..n) : it[t] = Next(it, t)
    BY <1>5, <2>1 DEF IsFold
  <2>3. it = [t \in SUBSET (1..n) |-> it[t]]
    BY <1>5 DEF IsFold
  <2> QED BY <2>2, <2>3
<1>7. g = [t \in SUBSET (1..n) |-> Next(g, t)]
  BY <1>6
<1> HIDE DEF g
<1>8. Recurs(g, Y, n, <<>>, F)
  <2>1. ASSUME NEW t \in SUBSET (1..n), t # {}, g[t \ {Max(t)}] \in Y
        PROVE  g[t] = F[<<Max(t), g[t \ {Max(t)}]>>]
    <3>1. Max(t) \in 1..n
      BY <1>0, <2>1, MaxIn
    <3>2. g[t] = OnceMore(g[t \ {Max(t)}], s[Max(t)])
      BY <1>7, <2>1
    <3> QED BY <1>2, <2>1, <3>1, <3>2
  <2>2. g[{}] = <<>>
    BY <1>7
  <2> QED BY <2>1, <2>2 DEF Recurs
<1>9. PICK f : IsLeftFold(f, g, Y, n, <<>>, F)
  BY <1>0, <1>1, <1>4, <1>8, FoldValues
<1>10. f \in [0..n -> Y] /\ f[0] = <<>> /\ f[n] = Runs(s)
  BY <1>3, <1>9 DEF IsLeftFold
<1>11. ASSUME NEW k \in 1..n PROVE f[k] = OnceMore(f[k - 1], s[k])
  <2>1. k - 1 \in 0..n
    BY <1>0
  <2>2. f[k - 1] \in Y /\ f[k] = F[<<k, f[k - 1]>>]
    BY <1>9, <1>10, <2>1 DEF IsLeftFold
  <2> QED BY <1>2, <2>2
<1> QED BY <1>0, <1>10, <1>11 DEF AreRuns, Y

LEMMA RunsAt ==
  ASSUME NEW X, NEW s, NEW n \in Nat, NEW f, AreRuns(f, X, s, n), NEW k \in Nat, k < n
  PROVE  f[k + 1] = OnceMore(f[k], s[k + 1])
<1>1. PICK j \in 1..n : j = k + 1
  OBVIOUS
<1>2. f[j] = OnceMore(f[j - 1], s[j])
  BY DEF AreRuns
<1>3. j - 1 = k
  BY <1>1
<1> QED BY <1>1, <1>2, <1>3

LEMMA RunsAppend ==
  ASSUME NEW X, NEW s \in Seq(X), NEW l \in X
  PROVE  Runs(s) \in Seq(X) /\ Runs(Append(s, l)) = OnceMore(Runs(s), l)
<1> DEFINE t == Append(s, l)
<1>0. PICK n \in Nat : n = Len(s)
  BY LenProperties
<1>1. t \in Seq(X) /\ Len(t) = n + 1 /\ t[n + 1] = l /\ \A k \in 1..n : t[k] = s[k]
  BY <1>0, AppendProperties
<1> HIDE DEF t
<1>2. PICK f : AreRuns(f, X, s, n)
  BY <1>0, RunsFold
<1>3. PICK m \in Nat : m = n + 1
  BY <1>0
<1>4. PICK g : AreRuns(g, X, t, m)
  BY <1>1, <1>3, RunsFold
<1> DEFINE S == {k \in 0..n : f[k] = g[k]}
<1>5. 0 \in S
  BY <1>0, <1>2, <1>4 DEF AreRuns
<1>6. ASSUME NEW k \in 0..n, k < n, k \in S PROVE k + 1 \in S
  <2>1. k \in Nat /\ k + 1 \in 1..n /\ k + 1 \in 0..n /\ k < m
    BY <1>0, <1>3, <1>6
  <2>2. f[k + 1] = OnceMore(f[k], s[k + 1])
    <3>1. k < n
      BY <1>6
    <3>2. n \in Nat
      BY <1>0
    <3> QED BY <1>2, <2>1, <3>1, <3>2, RunsAt
  <2>3. g[k + 1] = OnceMore(g[k], t[k + 1])
    BY <1>3, <1>4, <2>1, RunsAt
  <2>4. f[k] = g[k] /\ t[k + 1] = s[k + 1]
    BY <1>1, <1>6, <2>1 DEF S
  <2> QED BY <2>1, <2>2, <2>3, <2>4 DEF S
<1> HIDE DEF S
<1>7. \A k \in 0..n : k \in S
  BY <1>5, <1>6, BoundedInduction
<1>8. f[n] = g[n]
  BY <1>0, <1>7 DEF S
<1>10. g[n + 1] = OnceMore(g[n], t[n + 1])
  BY <1>3, <1>4, RunsAt, n < m
<1>11. f[n] = Runs(s) /\ f[n] \in Seq(X) /\ g[m] = Runs(t)
  <2>1. n \in 0..n
    OBVIOUS
  <2> QED BY <1>2, <1>4, <2>1 DEF AreRuns
<1> QED BY <1>1, <1>3, <1>8, <1>10, <1>11 DEF t

(* The last elements of r that the history has room for. *)
LastKept(r) == SubSeq(r, IF Len(r) > MaxHistory THEN Len(r) - MaxHistory + 1 ELSE 1, Len(r))

EndOf(h, X, r, n, m) ==
  /\ m = IF n > MaxHistory THEN MaxHistory ELSE n
  /\ h \in Seq(X) /\ Len(h) = m
  /\ \A i \in 1..m : h[i] = r[n - m + i]

LEMMA KeptIs ==
  ASSUME NEW X, NEW r \in Seq(X), NEW n \in Nat, n = Len(r)
  PROVE  \E m \in 0..n : EndOf(LastKept(r), X, r, n, m)
<1>1. PICK M \in Nat : M = MaxHistory /\ M > 0
  BY InputBounds
<1>2. PICK m \in 0..n : m = IF n > M THEN M ELSE n
  BY <1>1
<1>3. PICK a \in Int, b \in Int : a = (IF n > M THEN n - M + 1 ELSE 1) /\ b = n
  <2>1. CASE n > M
    <3>1. n - M + 1 \in Int /\ n \in Int
      BY <1>1
    <3> QED BY <2>1, <3>1
  <2>2. CASE ~(n > M)
    <3>1. 1 \in Int /\ n \in Int
      OBVIOUS
    <3> QED BY <2>2, <3>1
  <2> QED BY <2>1, <2>2
<1>4. a = n - m + 1 /\ \A j \in a..b : r[j] \in X
  BY <1>1, <1>2, <1>3, ElementOfSeq
<1>5. /\ SubSeq(r, a, b) \in Seq(X) /\ Len(SubSeq(r, a, b)) = IF a <= b THEN b - a + 1 ELSE 0
      /\ \A j \in 1..b - a + 1 : SubSeq(r, a, b)[j] = r[a + j - 1]
  BY <1>4, SubSeqProperties
<1>6. LastKept(r) = SubSeq(r, a, b)
  BY <1>1, <1>3 DEF LastKept
<1>7. Len(LastKept(r)) = m /\ b - a + 1 = m
  BY <1>2, <1>3, <1>4, <1>5, <1>6
<1>8. ASSUME NEW i \in 1..m PROVE LastKept(r)[i] = r[n - m + i]
  <2>1. a + i - 1 = n - m + i
    BY <1>2, <1>4
  <2> QED BY <1>5, <1>6, <1>7, <2>1
<1> QED BY <1>1, <1>2, <1>5, <1>6, <1>7, <1>8 DEF EndOf

LEMMA KeptAppend ==
  ASSUME NEW X, NEW r \in Seq(X), NEW l \in X
  PROVE  LastKept(OnceMore(r, l)) = Pushed(LastKept(r), l)
<1>0. PICK n \in Nat : n = Len(r)
  BY LenProperties
<1>1. PICK M \in Nat : M = MaxHistory /\ M > 0
  BY InputBounds
<1> DEFINE h == LastKept(r)
<1>2. PICK m \in 0..n : /\ m = IF n > M THEN M ELSE n
                        /\ h \in Seq(X) /\ Len(h) = m /\ \A i \in 1..m : h[i] = r[n - m + i]
  <2>1. PICK j \in 0..n : EndOf(h, X, r, n, j)
    BY <1>0, KeptIs
  <2> HIDE DEF h
  <2> QED BY <1>1, <2>1 DEF EndOf
<1> HIDE DEF h
<1>3. (h = <<>> <=> m = 0) /\ (r = <<>> <=> n = 0)
  BY <1>0, <1>2, EmptySeq
<1>4. n > 0 => m > 0 /\ Last(h) = Last(r)
  <2>1. n > 0 => m > 0
    BY <1>1, <1>2
  <2>2. ASSUME n > 0 PROVE h[m] = r[n]
    <3>1. m \in 1..m /\ n - m + m = n
      BY <2>1, <2>2
    <3> QED BY <1>2, <3>1
  <2> QED BY <1>0, <1>2, <2>1, <2>2 DEF Last
<1>5. CASE r # <<>> /\ Last(r) = l
  BY <1>3, <1>4, <1>5 DEF OnceMore, Pushed, h
<1>6. CASE ~(r # <<>> /\ Last(r) = l)
  <2> DEFINE r1 == Append(r, l)
             h1 == LastKept(r1)
  <2>1. r1 \in Seq(X) /\ Len(r1) = n + 1 /\ r1[n + 1] = l /\ \A i \in 1..n : r1[i] = r[i]
    BY <1>0, AppendProperties
  <2>2. OnceMore(r, l) = r1
    BY <1>6 DEF OnceMore
  <2> HIDE DEF r1
  <2>3. PICK n1 \in Nat : n1 = n + 1
    OBVIOUS
  <2>4. PICK m1 \in 0..n1 : /\ m1 = IF n1 > M THEN M ELSE n1
                            /\ h1 \in Seq(X) /\ Len(h1) = m1 /\ \A i \in 1..m1 : h1[i] = r1[n1 - m1 + i]
    <3>1. n1 = Len(r1)
      BY <2>1, <2>3
    <3>2. PICK j \in 0..n1 : EndOf(h1, X, r1, n1, j)
      BY <2>1, <3>1, KeptIs
    <3> HIDE DEF h1
    <3> QED BY <1>1, <3>2 DEF EndOf
  <2> HIDE DEF h1
  <2>5. ~(h # <<>> /\ Last(h) = l)
    BY <1>3, <1>4, <1>6
  <2>6. CASE m = M
    <3> DEFINE p == Append(Tail(h), l)
    <3>1. Pushed(h, l) = p
      BY <1>1, <1>2, <2>5, <2>6 DEF Pushed
    <3>2. Tail(h) \in Seq(X) /\ Len(Tail(h)) = m - 1 /\ \A i \in 1..m - 1 : Tail(h)[i] = h[i + 1]
      BY <1>1, <1>2, <1>3, <2>6
    <3>3. p \in Seq(X) /\ Len(p) = m - 1 + 1 /\ p[m - 1 + 1] = l /\ \A i \in 1..m - 1 : p[i] = Tail(h)[i]
      BY <3>2, AppendProperties
    <3> HIDE DEF p
    <3>4. m1 = m /\ n1 - m1 = n - m + 1 /\ Len(p) = m1 /\ p[m] = l
      BY <1>1, <1>2, <2>3, <2>4, <2>6, <3>3
    <3>5. ASSUME NEW i \in 1..m1 PROVE h1[i] = p[i]
      <4>1. CASE i = m
        <5>1. n1 - m1 + i = n + 1
          BY <2>3, <3>4, <4>1
        <5> QED BY <2>1, <2>4, <3>4, <4>1, <5>1
      <4>2. CASE i # m
        <5>a. i \in 1..m - 1 /\ i + 1 \in 1..m
          BY <3>4, <4>2
        <5>b. n1 - m1 + i = n - m + (i + 1)
          BY <3>4, <5>a
        <5>c. n - m + (i + 1) \in 1..n
          BY <5>a
        <5>1. i \in 1..m - 1 /\ i + 1 \in 1..m /\ n1 - m1 + i = n - m + (i + 1) /\ n - m + (i + 1) \in 1..n
          BY <5>a, <5>b, <5>c
        <5>2. p[i] = r[n - m + (i + 1)]
          BY <1>2, <3>2, <3>3, <5>1
        <5>3. h1[i] = r1[n - m + (i + 1)]
          BY <2>4, <5>1
        <5> QED BY <2>1, <5>1, <5>2, <5>3
      <4> QED BY <4>1, <4>2
    <3>6. h1 = p
      BY <2>4, <3>3, <3>4, <3>5, SeqEqual
    <3> QED BY <2>2, <3>1, <3>6 DEF h, h1
  <2>7. CASE m # M
    <3> DEFINE p == Append(h, l)
    <3>1. Pushed(h, l) = p
      BY <1>1, <1>2, <2>5, <2>7 DEF Pushed
    <3>2. p \in Seq(X) /\ Len(p) = m + 1 /\ p[m + 1] = l /\ \A i \in 1..m : p[i] = h[i]
      BY <1>2, AppendProperties
    <3> HIDE DEF p
    <3>3. m = n /\ m1 = n1 /\ n1 - m1 = 0
      BY <1>1, <1>2, <2>3, <2>4, <2>7
    <3>4. ASSUME NEW i \in 1..m1 PROVE h1[i] = p[i]
      <4>1. h1[i] = r1[i]
        <5>1. n1 - m1 + i = i
          BY <3>3
        <5> QED BY <2>4, <5>1
      <4>2. CASE i = n + 1
        BY <2>1, <3>2, <3>3, <4>1, <4>2
      <4>3. CASE i # n + 1
        <5>1. i \in 1..n /\ n - m + i = i
          BY <2>3, <3>3, <4>3
        <5> QED BY <1>2, <2>1, <3>2, <3>3, <4>1, <5>1
      <4> QED BY <4>2, <4>3
    <3>5. h1 = p
      BY <2>3, <2>4, <3>2, <3>3, <3>4, SeqEqual
    <3> QED BY <2>2, <3>1, <3>5 DEF h, h1
  <2> QED BY <2>6, <2>7
<1> QED BY <1>5, <1>6

(* What is recalled after one more line. *)
LEMMA RecalledAppend ==
  ASSUME NEW X, NEW s \in Seq(X), NEW l \in X
  PROVE  Recalled(s) \in Seq(X) /\ Recalled(Append(s, l)) = Pushed(Recalled(s), l)
<1>1. Runs(s) \in Seq(X) /\ Runs(Append(s, l)) = OnceMore(Runs(s), l)
  BY RunsAppend
<1>2. PICK n \in Nat : n = Len(Runs(s))
  BY <1>1, LenProperties
<1>3. LastKept(Runs(s)) \in Seq(X)
  <2>1. PICK j \in 0..n : EndOf(LastKept(Runs(s)), X, Runs(s), n, j)
    BY <1>1, <1>2, KeptIs
  <2> QED BY <2>1 DEF EndOf
<1>4. \A t : Recalled(t) = LastKept(Runs(t))
  BY DEF Recalled, LastKept
<1> QED BY <1>1, <1>3, <1>4, KeptAppend

-----------------------------------------------------------------------------
(* Letters, folded. *)
Low(c) == IF c = "A" THEN "a" ELSE c

LEMMA BlankIsLow == \A c : Low(c) = Low(Blank) => c = Blank
<1>1. Blank # "A" /\ Blank # "a"
  BY DEF Blank
<1> QED BY <1>1 DEF Low

LEMMA FoldedIs ==
  ASSUME NEW X, NEW s \in Seq(X)
  PROVE  /\ Folded(s) \in Seq({Low(x) : x \in X}) /\ Len(Folded(s)) = Len(s)
         /\ \A i \in 1..Len(s) : Folded(s)[i] = Low(s[i])
<1>1. PICK n \in Nat : n = Len(s) /\ DOMAIN s = 1..n /\ \A i \in 1..n : s[i] \in X
  BY LenProperties, ElementOfSeq
<1>2. Folded(s) = [i \in 1..n |-> Low(s[i])]
  BY <1>1 DEF Folded, Low
<1>3. [i \in 1..n |-> Low(s[i])] \in [1..n -> {Low(x) : x \in X}]
  BY <1>1
<1> DEFINE F == Folded(s)
           Y == {Low(x) : x \in X}
<1>4. F \in [1..n -> Y] /\ \A i \in 1..n : F[i] = Low(s[i])
  BY <1>2, <1>3
<1> HIDE DEF F, Y
<1>5. F \in Seq(Y) /\ Len(F) = n
  BY <1>4
<1> QED BY <1>1, <1>4, <1>5 DEF F, Y

LEMMA SameFolded ==
  ASSUME NEW X, NEW s \in Seq(X), NEW t \in Seq(X), Len(s) = Len(t),
         \A i \in 1..Len(s) : Low(s[i]) = Low(t[i])
  PROVE  Folded(s) = Folded(t)
<1>1. PICK n \in Nat : n = Len(s) /\ DOMAIN s = 1..n /\ DOMAIN t = 1..n
  BY LenProperties
<1> QED BY <1>1 DEF Folded, Low

LEMMA FoldedSame ==
  ASSUME NEW X, NEW s \in Seq(X), NEW t \in Seq(X), Folded(s) = Folded(t)
  PROVE  Len(s) = Len(t) /\ \A i \in 1..Len(s) : Low(s[i]) = Low(t[i])
<1>1. /\ Len(Folded(s)) = Len(s) /\ \A i \in 1..Len(s) : Folded(s)[i] = Low(s[i])
  BY FoldedIs
<1>2. /\ Len(Folded(t)) = Len(t) /\ \A i \in 1..Len(t) : Folded(t)[i] = Low(t[i])
  BY FoldedIs
<1> QED BY <1>1, <1>2

LEMMA PrefixFolded ==
  ASSUME NEW X, NEW s \in Seq(X), NEW t \in Seq(X), IsPrefix(Folded(s), Folded(t))
  PROVE  Len(s) <= Len(t) /\ \A i \in 1..Len(s) : Low(s[i]) = Low(t[i])
<1> DEFINE Y == {Low(x) : x \in X}
           f == Folded(s)
           g == Folded(t)
<1>0. PICK n \in Nat, m \in Nat : n = Len(s) /\ m = Len(t)
  BY LenProperties
<1>1. /\ f \in Seq(Y) /\ g \in Seq(Y) /\ Len(f) = n /\ Len(g) = m
      /\ (\A i \in 1..n : f[i] = Low(s[i])) /\ (\A i \in 1..m : g[i] = Low(t[i]))
  BY <1>0, FoldedIs
<1>2. Len(f) <= Len(g) /\ SubSeq(f, 1, Len(f)) = SubSeq(g, 1, Len(f))
  BY DEF IsPrefix
<1> HIDE DEF f, g, Y
<1>3. n <= m /\ SubSeq(f, 1, n) = SubSeq(g, 1, n)
  BY <1>1, <1>2
<1>4. \A i \in 1..n : f[i] \in Y /\ g[i] \in Y
  BY <1>0, <1>1, <1>3, ElementOfSeq
<1>5. \A i \in 1..n : SubSeq(f, 1, n)[i] = f[i] /\ SubSeq(g, 1, n)[i] = g[i]
  <2>1. \A i \in 1..n - 1 + 1 : SubSeq(f, 1, n)[i] = f[1 + i - 1]
    BY <1>1, <1>4, SubSeqProperties
  <2>2. \A i \in 1..n - 1 + 1 : SubSeq(g, 1, n)[i] = g[1 + i - 1]
    BY <1>1, <1>4, SubSeqProperties
  <2> QED BY <2>1, <2>2
<1> QED BY <1>0, <1>1, <1>3, <1>5

LEMMA SuffixIs ==
  ASSUME NEW X, NEW s \in Seq(X), NEW t \in Seq(X), IsSuffix(s, t)
  PROVE  Len(s) <= Len(t) /\ \A i \in 1..Len(s) : s[i] = t[Len(t) - Len(s) + i]
<1> DEFINE f == Reverse(s)
           g == Reverse(t)
<1>0. PICK n \in Nat, m \in Nat : n = Len(s) /\ m = Len(t)
  BY LenProperties
<1>1. /\ f \in Seq(X) /\ Len(f) = n /\ \A i \in 1..n : f[i] = s[n - i + 1]
  <2>1. f = [i \in 1..n |-> s[n - i + 1]]
    BY <1>0 DEF Reverse
  <2>2. \A i \in 1..n : s[n - i + 1] \in X
    BY <1>0, ElementOfSeq
  <2>3. f \in [1..n -> X] /\ \A i \in 1..n : f[i] = s[n - i + 1]
    BY <2>1, <2>2
  <2> HIDE DEF f
  <2> QED BY <2>3
<1>2. /\ g \in Seq(X) /\ Len(g) = m /\ \A i \in 1..m : g[i] = t[m - i + 1]
  <2>1. g = [i \in 1..m |-> t[m - i + 1]]
    BY <1>0 DEF Reverse
  <2>2. \A i \in 1..m : t[m - i + 1] \in X
    BY <1>0, ElementOfSeq
  <2>3. g \in [1..m -> X] /\ \A i \in 1..m : g[i] = t[m - i + 1]
    BY <2>1, <2>2
  <2> HIDE DEF g
  <2> QED BY <2>3
<1>3. Len(f) <= Len(g) /\ SubSeq(f, 1, Len(f)) = SubSeq(g, 1, Len(f))
  BY DEF IsPrefix, IsSuffix
<1> HIDE DEF f, g
<1>4. n <= m /\ SubSeq(f, 1, n) = SubSeq(g, 1, n)
  BY <1>1, <1>2, <1>3
<1>5. \A i \in 1..n : f[i] \in X /\ g[i] \in X
  BY <1>0, <1>1, <1>2, <1>4, ElementOfSeq
<1>6. \A i \in 1..n : SubSeq(f, 1, n)[i] = f[i] /\ SubSeq(g, 1, n)[i] = g[i]
  <2>1. \A i \in 1..n - 1 + 1 : SubSeq(f, 1, n)[i] = f[1 + i - 1]
    BY <1>1, <1>5, SubSeqProperties
  <2>2. \A i \in 1..n - 1 + 1 : SubSeq(g, 1, n)[i] = g[1 + i - 1]
    BY <1>2, <1>5, SubSeqProperties
  <2> QED BY <2>1, <2>2
<1>7. ASSUME NEW i \in 1..n PROVE s[i] = t[m - n + i]
  <2>1. PICK j \in 1..n : j = n - i + 1
    OBVIOUS
  <2>2. f[j] = g[j]
    BY <1>4, <1>6
  <2>3. n - j + 1 = i /\ m - j + 1 = m - n + i /\ j \in 1..m
    BY <1>4, <2>1
  <2>4. f[j] = s[i] /\ g[j] = t[m - n + i]
    BY <1>1, <1>2, <2>3
  <2> QED BY <2>2, <2>4
<1> QED BY <1>0, <1>4, <1>7

-----------------------------------------------------------------------------
(* The names of a list that are in a set. *)
LEMMA AmongIs ==
  ASSUME NEW X, NEW names \in Seq(X), NEW set
  PROVE  Among(names, set) \in Seq(X \cap set)
<1>0. PICK n \in Nat : n = Len(names) /\ DOMAIN names = 1..n /\ \A k \in 1..n : names[k] \in X
  BY LenProperties, ElementOfSeq
<1> DEFINE Step(found, x) == IF x \in set THEN Append(found, x) ELSE found
           Y == Seq(X \cap set)
           F == [p \in (1..n) \X Y |-> Step(p[2], names[p[1]])]
           Next(it, t) == IF t = {} THEN <<>> ELSE Step(it[t \ {Max(t)}], names[Max(t)])
           g == CHOOSE h : h = [t \in SUBSET (1..n) |-> Next(h, t)]
<1>1. Steps(F, Y, n)
  <2>1. \A p \in (1..n) \X Y : Step(p[2], names[p[1]]) \in Y
    <3> SUFFICES ASSUME NEW k \in 1..n, NEW y \in Y PROVE Step(y, names[k]) \in Y
      OBVIOUS
    <3>1. CASE names[k] \in set
      <4>1. names[k] \in X \cap set
        BY <1>0, <3>1
      <4> QED BY <3>1, <4>1
    <3>2. CASE names[k] \notin set
      BY <3>2
    <3> QED BY <3>1, <3>2
  <2> HIDE DEF Y, Step
  <2> QED BY <2>1 DEF Steps
<1>2. \A k \in 1..n, x \in Y : F[<<k, x>>] = Step(x, names[k])
  <2> HIDE DEF Y, Step
  <2> QED OBVIOUS
<1>3. Among(names, set) = g[1..n]
  BY <1>0 DEF Among, FoldLeft, MapThenFoldSet
<1>4. <<>> \in Y
  OBVIOUS
<1> HIDE DEF F, Y, Step
<1>5. PICK it : IsFold(it, Y, n, <<>>, F)
  BY <1>0, <1>1, <1>4, FoldExists
<1>6. it = [t \in SUBSET (1..n) |-> Next(it, t)]
  <2>1. ASSUME NEW t \in SUBSET (1..n), t # {}
        PROVE  it[t] = Step(it[t \ {Max(t)}], names[Max(t)])
    <3>1. Max(t) \in 1..n /\ t \ {Max(t)} \in SUBSET (1..n)
      BY <1>0, <2>1, MaxIn
    <3>2. it[t \ {Max(t)}] \in Y /\ it[t] = F[<<Max(t), it[t \ {Max(t)}]>>]
      BY <1>5, <2>1, <3>1 DEF IsFold
    <3> QED BY <1>2, <3>1, <3>2
  <2>2. \A t \in SUBSET (1..n) : it[t] = Next(it, t)
    BY <1>5, <2>1 DEF IsFold
  <2>3. it = [t \in SUBSET (1..n) |-> it[t]]
    BY <1>5 DEF IsFold
  <2> QED BY <2>2, <2>3
<1>7. g = [t \in SUBSET (1..n) |-> Next(g, t)]
  BY <1>6
<1> HIDE DEF g
<1>8. Recurs(g, Y, n, <<>>, F)
  <2>1. ASSUME NEW t \in SUBSET (1..n), t # {}, g[t \ {Max(t)}] \in Y
        PROVE  g[t] = F[<<Max(t), g[t \ {Max(t)}]>>]
    <3>1. Max(t) \in 1..n
      BY <1>0, <2>1, MaxIn
    <3>2. g[t] = Step(g[t \ {Max(t)}], names[Max(t)])
      BY <1>7, <2>1
    <3> QED BY <1>2, <2>1, <3>1, <3>2
  <2>2. g[{}] = <<>>
    BY <1>7
  <2> QED BY <2>1, <2>2 DEF Recurs
<1>9. PICK f : IsLeftFold(f, g, Y, n, <<>>, F)
  BY <1>0, <1>1, <1>4, <1>8, FoldValues
<1>10. n \in 0..n /\ f \in [0..n -> Y] /\ f[n] = g[1..n]
  BY <1>0, <1>9 DEF IsLeftFold
<1> QED BY <1>3, <1>10 DEF Y

-----------------------------------------------------------------------------
(* What is offered for a word begins like it, and makes it a name. *)
Text == Seq(Letters)
Offer == [prefix : Text, suffix : Text]
MemberNicks == ToSet(Members)
OfferedNames == ToSet(Bound) \cup MemberNicks \cup {n \o Suffix : n \in MemberNicks}

Fits(c, w) ==
  /\ c \in Offer /\ Len(c.prefix) = Len(w) /\ Folded(c.prefix) = Folded(w)
  /\ \E name \in OfferedNames : name # <<>> /\ Folded(c.prefix \o c.suffix) = Folded(name)

AllFit(os, w) == os \in Seq(Offer) /\ \A i \in DOMAIN os : Fits(os[i], w)

LEMMA NameTypes ==
  /\ ToSet(Bound) \subseteq Text /\ MemberNicks \subseteq Text /\ OfferedNames \subseteq Text
  /\ Members \in Seq(Text) /\ Bound \in Seq(Text) /\ Bound \in Seq(ToSet(Bound)) /\ Members \in Seq(MemberNicks)
  /\ Suffix \in Text /\ \A n \in OfferedNames : n # <<>>
<1>1. Members \in Seq(Text) /\ Bound \in Seq(Text)
  BY NamesAreWords DEF Text
<1>2. ToSet(Bound) \subseteq Text /\ MemberNicks \subseteq Text
  BY <1>1, LenProperties, ElementOfSeq DEF ToSet, MemberNicks
<1>3. Colon \in Letters
  BY DEF Letters
<1>4. Suffix \in Text /\ Len(Suffix) = 1
  BY <1>3 DEF Suffix, Text
<1>5. ASSUME NEW n \in MemberNicks PROVE n \o Suffix \in Text /\ n \o Suffix # <<>>
  <2>1. n \in Text /\ Len(n) \in Nat
    BY <1>2, LenProperties DEF Text
  <2>2. n \o Suffix \in Text /\ Len(n \o Suffix) = Len(n) + 1
    <3>1. PICK a \in Nat, k \in Nat : a = Len(n) /\ k = a + 1
      BY <2>1
    <3>2. 1 \in Nat
      OBVIOUS
    <3>3. Joined(n \o Suffix, Letters, n, a, Suffix, k)
      BY <1>4, <2>1, <3>1, <3>2, ConcatIs DEF Text
    <3> QED BY <3>1, <3>3 DEF Joined, Text
  <2>3. Len(<<>>) = 0
    OBVIOUS
  <2>4. PICK t : t = n \o Suffix
    OBVIOUS
  <2>5. t # <<>>
    BY <2>1, <2>2, <2>3, <2>4
  <2> QED BY <2>2, <2>4, <2>5
<1>6. \A n \in ToSet(Bound) \cup MemberNicks : n # <<>>
  BY NamesAreWords DEF MemberNicks
<1>7. Bound \in Seq(ToSet(Bound)) /\ Members \in Seq(MemberNicks)
  BY <1>1 DEF ToSet, MemberNicks
<1> QED BY <1>1, <1>2, <1>4, <1>5, <1>6, <1>7 DEF OfferedNames

(* The rest of a name that begins like the word. *)
LEMMA AfterIs ==
  ASSUME NEW X, NEW name \in Seq(X), NEW word \in Seq(X), Len(word) <= Len(name)
  PROVE  /\ After(name, word) \in Seq(X) /\ Len(After(name, word)) = Len(name) - Len(word)
         /\ \A i \in 1..Len(name) - Len(word) : After(name, word)[i] = name[Len(word) + i]
<1>0. PICK n \in Nat, m \in Nat : n = Len(word) /\ m = Len(name) /\ n <= m
  BY LenProperties
<1>1. PICK a \in Nat : a = n + 1
  OBVIOUS
<1>2. \A i \in a..m : name[i] \in X
  BY <1>0, <1>1, ElementOfSeq
<1>3. /\ SubSeq(name, a, m) \in Seq(X) /\ Len(SubSeq(name, a, m)) = IF a <= m THEN m - a + 1 ELSE 0
      /\ \A i \in 1..m - a + 1 : SubSeq(name, a, m)[i] = name[a + i - 1]
  BY <1>2, SubSeqProperties
<1>4. After(name, word) = SubSeq(name, a, m)
  BY <1>0, <1>1 DEF After
<1>5. m - a + 1 = m - n /\ \A i \in 1..m - n : a + i - 1 = n + i
  BY <1>0, <1>1
<1>6. Len(SubSeq(name, a, m)) = m - n
  BY <1>0, <1>1, <1>3
<1>7. \A i \in 1..m - n : SubSeq(name, a, m)[i] = name[n + i]
  BY <1>3, <1>5
<1> QED BY <1>0, <1>3, <1>4, <1>6, <1>7

LEMMA ExtendingIs ==
  ASSUME NEW X, NEW names \in Seq(X), NEW word
  PROVE  Extending(names, word) \in Seq({n \in X : IsPrefix(Folded(word), Folded(n))})
<1> DEFINE set == {n \in ToSet(names) : IsPrefix(Folded(word), Folded(n))}
           Z == {n \in X : IsPrefix(Folded(word), Folded(n))}
           A == Among(names, set)
<1>1. Among(names, set) \in Seq(X \cap set)
  BY AmongIs
<1>2. X \cap set \subseteq Z
  OBVIOUS
<1>3. A = Extending(names, word)
  BY DEF Extending
<1>4. A \in Seq(X \cap set)
  BY <1>1
<1> HIDE DEF A, set, Z
<1>5. A \in Seq(Z)
  BY <1>2, <1>4
<1> QED BY <1>3, <1>5 DEF Z

LEMMA CommandFits ==
  ASSUME NEW n \in Text, n \in ToSet(Bound), NEW w \in Text, IsPrefix(Folded(w), Folded(n))
  PROVE  Fits([prefix |-> w, suffix |-> After(n, w)], w)
<1> DEFINE t == w \o After(n, w)
<1>0. PICK a \in Nat, b \in Nat : a = Len(w) /\ b = Len(n)
  BY LenProperties DEF Text
<1>1. a <= b /\ \A i \in 1..a : Low(w[i]) = Low(n[i])
  BY <1>0, PrefixFolded DEF Text
<1>2. /\ After(n, w) \in Text /\ Len(After(n, w)) = b - a
      /\ \A i \in 1..b - a : After(n, w)[i] = n[a + i]
  BY <1>0, <1>1, AfterIs DEF Text
<1>3. /\ t \in Text /\ Len(t) = b
      /\ \A i \in 1..b : t[i] = IF i <= a THEN w[i] ELSE After(n, w)[i - a]
  <2>1. PICK d \in Nat : d = b - a /\ d = Len(After(n, w)) /\ b = a + d
    BY <1>1, <1>2
  <2>2. Joined(t, Letters, w, a, After(n, w), b)
    BY <1>0, <1>2, <2>1, ConcatIs DEF Text
  <2>3. \A i \in 1..b : t[i] = IF i <= a THEN w[i] ELSE After(n, w)[i - a]
    BY <2>2 DEF Joined
  <2>4. t \in Text /\ Len(t) = b
    BY <2>2 DEF Joined, Text
  <2> QED BY <2>3, <2>4
<1> HIDE DEF t
<1>4. \A i \in 1..b : Low(t[i]) = Low(n[i])
  <2> SUFFICES ASSUME NEW i \in 1..b PROVE Low(t[i]) = Low(n[i])
    OBVIOUS
  <2>1. CASE i <= a
    BY <1>1, <1>3, <2>1
  <2>2. CASE ~(i <= a)
    <3>1. PICK j \in 1..b - a : j = i - a
      BY <1>0, <2>2
    <3>2. a + j = i
      BY <3>1
    <3> QED BY <1>2, <1>3, <2>2, <3>1, <3>2
  <2> QED BY <2>1, <2>2
<1>5. Folded(t) = Folded(n)
  BY <1>0, <1>3, <1>4, SameFolded DEF Text
<1>6. n \in OfferedNames /\ n # <<>>
  BY NameTypes DEF OfferedNames
<1>7. PICK c : c = [prefix |-> w, suffix |-> After(n, w)]
  OBVIOUS
<1>8. c \in Offer /\ c.prefix = w /\ c.suffix = After(n, w)
  BY <1>2, <1>7 DEF Offer
<1>9. Folded(c.prefix \o c.suffix) = Folded(n)
  BY <1>5, <1>8 DEF t
<1> QED BY <1>6, <1>7, <1>8, <1>9 DEF Fits

LEMMA NickFits ==
  ASSUME NEW n \in MemberNicks, NEW w \in Text, IsPrefix(Folded(w), Folded(n)), NEW suffix \in {<<>>, Suffix}
  PROVE  Fits([prefix |-> SubSeq(n, 1, Len(w)), suffix |-> After(n, w) \o suffix], w)
<1> DEFINE p == SubSeq(n, 1, Len(w))
           q == After(n, w)
           s == q \o suffix
           t == p \o s
           u == n \o suffix
<1>0. n \in Text /\ Suffix \in Text
  BY NameTypes
<1>a. PICK a \in Nat, b \in Nat, e \in Nat : a = Len(w) /\ b = Len(n) /\ e = Len(suffix)
  <2>1. Len(w) \in Nat /\ Len(n) \in Nat
    BY <1>0, LenProperties DEF Text
  <2>2. suffix \in Text
    <3>1. <<>> \in Text
      BY DEF Text
    <3> QED BY <1>0, <3>1
  <2>3. Len(suffix) \in Nat
    BY <2>2, LenProperties DEF Text
  <2> QED BY <2>1, <2>3
<1>1. a <= b /\ \A i \in 1..a : Low(w[i]) = Low(n[i])
  BY <1>0, <1>a, PrefixFolded DEF Text
<1>2. q \in Text /\ Len(q) = b - a /\ \A i \in 1..b - a : q[i] = n[a + i]
  BY <1>0, <1>a, <1>1, AfterIs DEF Text
<1>3. \A i \in 1..a : n[i] \in Letters
  BY <1>0, <1>a, <1>1, ElementOfSeq DEF Text
<1>4. p \in Text /\ Len(p) = a /\ \A i \in 1..a : p[i] = n[i]
  <2>1. /\ SubSeq(n, 1, a) \in Seq(Letters) /\ Len(SubSeq(n, 1, a)) = IF 1 <= a THEN a - 1 + 1 ELSE 0
        /\ \A i \in 1..a - 1 + 1 : SubSeq(n, 1, a)[i] = n[1 + i - 1]
    BY <1>0, <1>3, SubSeqProperties DEF Text
  <2> QED BY <1>a, <2>1 DEF Text
<1> HIDE DEF p, q
<1>5. suffix \in Text
  <2>1. <<>> \in Text
    BY DEF Text
  <2> QED BY <1>0, <2>1
<1>6. /\ s \in Text /\ Len(s) = b - a + e
      /\ \A i \in 1..b - a + e : s[i] = IF i <= b - a THEN q[i] ELSE suffix[i - (b - a)]
  <2>1. PICK d \in Nat, k \in Nat : d = b - a /\ d = Len(q) /\ k = d + e
    BY <1>1, <1>2
  <2>2. s \in Text /\ Len(s) = k /\ \A i \in 1..k : s[i] = IF i <= d THEN q[i] ELSE suffix[i - d]
    <3>1. Joined(s, Letters, q, d, suffix, k)
      BY <1>a, <1>2, <1>5, <2>1, ConcatIs DEF Text
    <3> HIDE DEF s
    <3> QED BY <3>1 DEF Joined, Text
  <2> QED BY <2>1, <2>2
<1> HIDE DEF s
<1>7. /\ t \in Text /\ Len(t) = b + e
      /\ \A i \in 1..b + e : t[i] = IF i <= a THEN p[i] ELSE s[i - a]
  <2>a. PICK d \in Nat : d = b - a + e
    BY <1>1
  <2>b. PICK k \in Nat : k = b + e
    OBVIOUS
  <2>1. d = Len(s) /\ k = a + d
    BY <1>1, <1>6, <2>a, <2>b
  <2>2. Joined(t, Letters, p, a, s, k)
    BY <1>a, <1>4, <1>6, <2>1, ConcatIs DEF Text
  <2> HIDE DEF t
  <2> QED BY <2>b, <2>2 DEF Joined, Text
<1>8. /\ u \in Text /\ Len(u) = b + e
      /\ \A i \in 1..b + e : u[i] = IF i <= b THEN n[i] ELSE suffix[i - b]
  <2>1. PICK k \in Nat : k = b + e
    OBVIOUS
  <2>2. Joined(u, Letters, n, b, suffix, k)
    BY <1>0, <1>a, <1>5, <2>1, ConcatIs DEF Text
  <2> HIDE DEF u
  <2> QED BY <2>1, <2>2 DEF Joined, Text
<1> HIDE DEF t, u
<1>9. \A i \in 1..b + e : t[i] = u[i]
  <2> SUFFICES ASSUME NEW i \in 1..b + e PROVE t[i] = u[i]
    OBVIOUS
  <2>1. CASE i <= a
    <3>1. i \in 1..a /\ i <= b
      BY <1>1, <2>1
    <3> QED BY <1>4, <1>7, <1>8, <2>1, <3>1
  <2>2. CASE ~(i <= a)
    <3>1. PICK j \in 1..b - a + e : j = i - a
      BY <1>1, <2>2
    <3>2. t[i] = IF j <= b - a THEN q[j] ELSE suffix[j - (b - a)]
      BY <1>6, <1>7, <2>2, <3>1
    <3>3. CASE i <= b
      <4>1. j \in 1..b - a /\ a + j = i /\ j <= b - a
        BY <3>1, <3>3
      <4>2. q[j] = n[a + j]
        BY <1>2, <4>1
      <4>3. t[i] = n[i]
        BY <3>2, <4>1, <4>2
      <4> QED BY <1>8, <3>3, <4>3
    <3>4. CASE ~(i <= b)
      <4>1. ~(j <= b - a) /\ j - (b - a) = i - b
        BY <1>1, <3>1, <3>4
      <4> QED BY <1>8, <3>2, <3>4, <4>1
    <3> QED BY <3>3, <3>4
  <2> QED BY <2>1, <2>2
<1>10. t = u
  BY <1>7, <1>8, <1>9, SeqEqual DEF Text
<1>11. Folded(p) = Folded(w) /\ Len(p) = Len(w)
  <2>1. \A i \in 1..Len(p) : Low(p[i]) = Low(w[i])
    BY <1>1, <1>4
  <2> QED BY <1>a, <1>4, <2>1, SameFolded DEF Text
<1>12. u \in OfferedNames /\ u # <<>>
  <2>1. n \o <<>> = n
    BY <1>0 DEF Text
  <2>2. u \in OfferedNames
    BY <2>1 DEF u, OfferedNames
  <2> QED BY <2>2, NameTypes
<1>13. PICK c : c = [prefix |-> p, suffix |-> s]
  OBVIOUS
<1>14. c \in Offer /\ c.prefix = p /\ c.suffix = s
  BY <1>4, <1>6, <1>13 DEF Offer
<1>15. Folded(c.prefix \o c.suffix) = Folded(u)
  BY <1>10, <1>14 DEF t
<1>16. Fits(c, w)
  BY <1>11, <1>12, <1>14, <1>15 DEF Fits
<1> QED BY <1>13, <1>16 DEF p, q, s

LEMMA AllFitConcat ==
  ASSUME NEW w, NEW p, AllFit(p, w), NEW q, AllFit(q, w)
  PROVE  AllFit(p \o q, w)
<1> DEFINE t == p \o q
<1>0. p \in Seq(Offer) /\ q \in Seq(Offer)
  BY DEF AllFit
<1>1. PICK n \in Nat, m \in Nat : n = Len(p) /\ m = Len(q) /\ DOMAIN p = 1..n /\ DOMAIN q = 1..m
  BY <1>0, LenProperties
<1>2. t \in Seq(Offer) /\ Len(t) = n + m /\ \A i \in 1..n + m : t[i] = IF i <= n THEN p[i] ELSE q[i - n]
  <2>1. PICK k \in Nat : k = n + m
    OBVIOUS
  <2>2. Joined(t, Offer, p, n, q, k)
    BY <1>0, <1>1, <2>1, ConcatIs
  <2> HIDE DEF t
  <2> QED BY <2>1, <2>2 DEF Joined
<1> HIDE DEF t
<1>3. DOMAIN t = 1..n + m
  BY <1>1, <1>2, LenProperties
<1>4. ASSUME NEW i \in 1..n + m PROVE Fits(t[i], w)
  <2>1. CASE i <= n
    BY <1>1, <1>2, <2>1 DEF AllFit
  <2>2. CASE ~(i <= n)
    <3>1. PICK j \in 1..m : j = i - n
      BY <2>2
    <3> QED BY <1>1, <1>2, <2>2, <3>1 DEF AllFit
  <2> QED BY <2>1, <2>2
<1>5. AllFit(t, w)
  BY <1>2, <1>3, <1>4 DEF AllFit
<1> QED BY <1>5 DEF t

LEMMA NoneFit == \A w : AllFit(<<>>, w)
BY DEF AllFit

LEMMA WordIs ==
  ASSUME NEW s \in Text, NEW n \in Nat, n = Len(s)
  PROVE  /\ LastWord(s) \in Text
         /\ \E k \in 0..n : /\ Len(LastWord(s)) = n - k /\ \A i \in 1..n - k : LastWord(s)[i] = s[k + i]
                            /\ (\A i \in 1..n : s[i] # Blank) => k = 0
<1> DEFINE I == {i \in 1..n : s[i] = Blank}
           w == LastWord(s)
<1>1. BeforeWord(s) = IF I # {} THEN Max(I) ELSE 0
  BY DEF BeforeWord, SelectLastInSeq
<1>2. PICK k \in 0..n : k = BeforeWord(s) /\ (I = {} => k = 0)
  <2>1. CASE I = {}
    BY <1>1, <2>1
  <2>2. CASE I # {}
    <3>1. I \in SUBSET (1..n) /\ \A i \in I : i \in 0..n
      OBVIOUS
    <3> HIDE DEF I
    <3>2. Max(I) \in I
      BY <2>2, <3>1, MaxIn
    <3>3. BeforeWord(s) = Max(I)
      BY <1>1, <2>2
    <3>4. Max(I) \in 0..n
      BY <3>1, <3>2
    <3> QED BY <2>2, <3>3, <3>4
  <2> QED BY <2>1, <2>2
<1>3. (\A i \in 1..n : s[i] # Blank) => k = 0
  BY <1>2
<1>4. PICK a \in Nat : a = k + 1
  OBVIOUS
<1>5. w = SubSeq(s, a, n)
  BY <1>2, <1>4 DEF LastWord
<1>6. \A i \in a..n : s[i] \in Letters
  BY <1>4, ElementOfSeq DEF Text
<1>7. /\ SubSeq(s, a, n) \in Seq(Letters) /\ Len(SubSeq(s, a, n)) = IF a <= n THEN n - a + 1 ELSE 0
      /\ \A i \in 1..n - a + 1 : SubSeq(s, a, n)[i] = s[a + i - 1]
  BY <1>6, SubSeqProperties DEF Text
<1> HIDE DEF w, I
<1>8. w \in Text /\ Len(w) = n - k
  BY <1>4, <1>5, <1>7 DEF Text
<1>9. ASSUME NEW i \in 1..n - k PROVE w[i] = s[k + i]
  <2>1. i \in 1..n - a + 1 /\ a + i - 1 = k + i
    BY <1>4
  <2> QED BY <1>5, <1>7, <2>1
<1> QED BY <1>3, <1>8, <1>9 DEF w

(* A word that a command begins with has no blank. *)
LEMMA CommandHasNoBlank ==
  ASSUME NEW s \in Text, NEW n \in ToSet(Bound), IsPrefix(Folded(s), Folded(n))
  PROVE  LastWord(s) = s
<1>0. n \in Text /\ Blank \notin ToSet(n)
  BY NameTypes, NamesAreWords
<1>1. PICK a \in Nat, b \in Nat : a = Len(s) /\ b = Len(n)
  BY <1>0, LenProperties DEF Text
<1>2. a <= b /\ \A i \in 1..a : Low(s[i]) = Low(n[i])
  BY <1>0, <1>1, PrefixFolded DEF Text
<1>3. \A i \in 1..b : n[i] # Blank
  <2>1. DOMAIN n = 1..b
    BY <1>0, <1>1, LenProperties DEF Text
  <2> QED BY <1>0, <2>1 DEF ToSet
<1>4. \A i \in 1..a : s[i] # Blank
  <2> SUFFICES ASSUME NEW i \in 1..a, s[i] = Blank PROVE FALSE
    OBVIOUS
  <2>1. i \in 1..b /\ Low(n[i]) = Low(Blank)
    BY <1>1, <1>2
  <2> QED BY <1>3, <2>1, BlankIsLow
<1>5. PICK k \in 0..a : /\ LastWord(s) \in Text /\ Len(LastWord(s)) = a - k
                        /\ \A i \in 1..a - k : LastWord(s)[i] = s[k + i]
                        /\ k = 0
  BY <1>1, <1>4, WordIs
<1>6. Len(LastWord(s)) = a /\ \A i \in 1..a : LastWord(s)[i] = s[i]
  BY <1>1, <1>5
<1> QED BY <1>1, <1>5, <1>6, SeqEqual DEF Text

LEMMA CommandOffersFit ==
  ASSUME NEW s \in Text
  PROVE  AllFit(CommandOffers(s), LastWord(s))
<1> DEFINE fit == Extending(Bound, s)
           os == [i \in DOMAIN fit |-> [prefix |-> s, suffix |-> After(fit[i], s)]]
<1>1. CASE s = <<>> \/ s[1] # Slash
  <2>1. CommandOffers(s) = <<>>
    BY <1>1 DEF CommandOffers
  <2> QED BY <2>1, NoneFit
<1>2. CASE ~(s = <<>> \/ s[1] # Slash)
  <2>1. CommandOffers(s) = os
    BY <1>2 DEF CommandOffers
  <2> DEFINE Z == {n \in ToSet(Bound) : IsPrefix(Folded(s), Folded(n))}
  <2>2. fit \in Seq(Z)
    BY NameTypes, ExtendingIs
  <2> HIDE DEF fit
  <2>3. PICK m \in Nat : DOMAIN fit = 1..m /\ m = Len(fit) /\ \A i \in 1..m : fit[i] \in Z
    BY <2>2, LenProperties, ElementOfSeq
  <2>4. ASSUME NEW i \in 1..m PROVE Fits(os[i], LastWord(s))
    <3>1. fit[i] \in ToSet(Bound) /\ IsPrefix(Folded(s), Folded(fit[i])) /\ fit[i] \in Text
      BY <2>3, NameTypes
    <3>2. Fits([prefix |-> s, suffix |-> After(fit[i], s)], s)
      BY <3>1, CommandFits
    <3>3. LastWord(s) = s
      BY <3>1, CommandHasNoBlank
    <3>4. os[i] = [prefix |-> s, suffix |-> After(fit[i], s)]
      BY <2>3
    <3> QED BY <3>2, <3>3, <3>4
  <2>5. os \in [1..m -> Offer]
    <3>1. \A i \in 1..m : os[i] \in Offer
      BY <2>4 DEF Fits
    <3>2. os = [i \in 1..m |-> os[i]]
      BY <2>3
    <3> HIDE DEF os
    <3> QED BY <3>1, <3>2
  <2> HIDE DEF os
  <2>6. os \in Seq(Offer) /\ DOMAIN os = 1..m
    BY <2>5
  <2> QED BY <2>1, <2>4, <2>6 DEF AllFit
<1> QED BY <1>1, <1>2

LEMMA NickOffersFit ==
  ASSUME NEW nicks \in Seq(MemberNicks), NEW w \in Text, NEW suffix \in {<<>>, Suffix}
  PROVE  AllFit(NickOffers(nicks, w, suffix), w)
<1> DEFINE fit == Extending(nicks, w)
           Made(n) == [prefix |-> SubSeq(n, 1, Len(w)), suffix |-> After(n, w) \o suffix]
           os == [i \in DOMAIN fit |-> Made(fit[i])]
           Z == {n \in MemberNicks : IsPrefix(Folded(w), Folded(n))}
<1>1. NickOffers(nicks, w, suffix) = os
  BY DEF NickOffers
<1>2. fit \in Seq(Z)
  BY ExtendingIs
<1> HIDE DEF fit
<1>3. PICK m \in Nat : DOMAIN fit = 1..m /\ m = Len(fit) /\ \A i \in 1..m : fit[i] \in Z
  BY <1>2, LenProperties, ElementOfSeq
<1>4. ASSUME NEW i \in 1..m PROVE Fits(os[i], w)
  <2>1. PICK n \in MemberNicks : n = fit[i] /\ IsPrefix(Folded(w), Folded(n))
    BY <1>3
  <2>2. Fits(Made(n), w)
    BY <2>1, NickFits
  <2> HIDE DEF Made
  <2>3. os[i] = Made(fit[i])
    BY <1>3
  <2> QED BY <2>1, <2>2, <2>3
<1>5. os \in [1..m -> Offer]
  <2>1. \A i \in 1..m : os[i] \in Offer
    BY <1>4 DEF Fits
  <2>2. os = [i \in 1..m |-> os[i]]
    BY <1>3
  <2> HIDE DEF os
  <2> QED BY <2>1, <2>2
<1> HIDE DEF os
<1>6. os \in Seq(Offer) /\ DOMAIN os = 1..m
  BY <1>5
<1> QED BY <1>1, <1>4, <1>6 DEF AllFit

LEMMA OffersFit ==
  ASSUME NEW s \in Text, senders \in Seq(MemberNicks), present \subseteq MemberNicks
  PROVE  AllFit(Offers(s), LastWord(s))
<1> DEFINE w == LastWord(s)
<1>0. w \in Text
  <2>1. PICK n \in Nat : n = Len(s)
    BY LenProperties DEF Text
  <2> QED BY <2>1, WordIs
<1>1. AllFit(CommandOffers(s), w)
  BY CommandOffersFit
<1> HIDE DEF w
<1>2. AllFit(NickOffers(senders, w, <<>>), w)
  BY <1>0, NickOffersFit
<1>3. AllFit(BufferOffers(s), w)
  BY <1>1, <1>2, AllFitConcat DEF BufferOffers, w
<1>4. AllFit(NickOffers(Among(Members, present), w, Suffix), w)
  <2>1. Among(Members, present) \in Seq(MemberNicks \cap present)
    BY NameTypes, AmongIs
  <2>2. MemberNicks \cap present \subseteq MemberNicks
    OBVIOUS
  <2>3. PICK a : a = Among(Members, present)
    OBVIOUS
  <2>4. a \in Seq(MemberNicks)
    BY <2>1, <2>2, <2>3
  <2> QED BY <1>0, <2>3, <2>4, NickOffersFit
<1> DEFINE more == IF w = <<>> THEN <<>> ELSE NickOffers(Among(Members, present), w, Suffix)
<1>5. AllFit(more, w)
  BY <1>4, NoneFit
<1>6. Offers(s) = BufferOffers(s) \o more
  BY DEF Offers, w
<1> HIDE DEF more
<1>7. AllFit(Offers(s), w)
  BY <1>3, <1>5, <1>6, AllFitConcat
<1> QED BY <1>7 DEF w

PartIs(u, X, s, a, d) ==
  u \in Seq(X) /\ Len(u) = d /\ \A i \in 1..d : u[i] = s[a + i]

LEMMA PartIsCut ==
  ASSUME NEW X, NEW s \in Seq(X), NEW n \in Nat, n = Len(s), NEW a \in 0..n, NEW b \in a..n, NEW d \in Nat, d = b - a
  PROVE  PartIs(SubSeq(s, a + 1, b), X, s, a, d)
<1> DEFINE u == SubSeq(s, a + 1, b)
<1>1. PICK e \in Nat : e = a + 1
  OBVIOUS
<1>2. \A i \in e..b : s[i] \in X
  BY <1>1, ElementOfSeq
<1>3. /\ SubSeq(s, e, b) \in Seq(X) /\ Len(SubSeq(s, e, b)) = IF e <= b THEN b - e + 1 ELSE 0
      /\ \A i \in 1..b - e + 1 : SubSeq(s, e, b)[i] = s[e + i - 1]
  BY <1>2, SubSeqProperties
<1>4. u = SubSeq(s, e, b)
  BY <1>1
<1> HIDE DEF u
<1>5. u \in Seq(X) /\ Len(u) = d
  BY <1>1, <1>3, <1>4
<1>6. \A i \in 1..d : u[i] = s[a + i]
  <2> SUFFICES ASSUME NEW i \in 1..d PROVE u[i] = s[a + i]
    OBVIOUS
  <2>1. i \in 1..b - e + 1 /\ e + i - 1 = a + i
    BY <1>1
  <2> QED BY <1>3, <1>4, <2>1
<1> QED BY <1>5, <1>6 DEF PartIs, u

LEMMA Associated ==
  ASSUME NEW X, NEW x \in Seq(X), NEW y \in Seq(X), NEW z \in Seq(X)
  PROVE  (x \o y) \o z = x \o (y \o z)
BY ConcatAssociative

(* The text new has a name where old has something that begins like it. *)
NameReplaced(old, new) ==
  \E k \in 0..Len(old) - 1 :
    /\ SubSeq(new, 1, k) = SubSeq(old, 1, k)
    /\ \E name \in OfferedNames : /\ Folded(SubSeq(new, k + 1, Len(new))) = Folded(name)
                           /\ Folded(old)[k + 1] = Folded(name)[1]

LEMMA InsertStep ==
  ASSUME content \in Text, NEW m \in 0..Len(content), NEW w \in Text, NEW os, AllFit(os, w),
         NEW o \in DOMAIN os, NEW u \in Text, Folded(u) = Folded(w), Len(u) <= m,
         \A i \in 1..Len(u) : u[i] = content[m - Len(u) + i],
         Insert(m, os, o)
  PROVE  /\ content' \in Text /\ mark' \in 0..Len(content') /\ offers' = os /\ offer' \in DOMAIN os
         /\ last' \in Offer /\ Folded(last'.prefix) = Folded(w)
         /\ content' # content => NameReplaced(content, content')
<1>0. PICK n \in Nat, a \in Nat, l \in Nat :
        n = Len(content) /\ a = Len(w) /\ l = Len(os) /\ DOMAIN os = 1..l /\ o \in 1..l
  BY LenProperties DEF Text, AllFit
<1>1. Len(u) = a /\ \A i \in 1..a : Low(u[i]) = Low(w[i])
  BY <1>0, FoldedSame DEF Text
<1>2. a <= m /\ m \in 0..n /\ \A i \in 1..a : u[i] = content[m - a + i]
  BY <1>0, <1>1
<1>3. PICK c : c = os[o]
  OBVIOUS
<1>4. c \in Offer /\ Len(c.prefix) = a /\ Folded(c.prefix) = Folded(w)
  BY <1>0, <1>3 DEF AllFit, Fits
<1>5. PICK name \in OfferedNames : name # <<>> /\ Folded(c.prefix \o c.suffix) = Folded(name)
  BY <1>3 DEF AllFit, Fits
<1>6. last' = c /\ offers' = os
  BY <1>3 DEF Insert
<1>7. PICK p, q : p = c.prefix /\ q = c.suffix /\ p \in Text /\ q \in Text /\ Len(p) = a
  BY <1>4 DEF Offer
<1>8. CASE p = <<>>
  <2>1. content' = content /\ mark' = m /\ offer' = o
    BY <1>3, <1>7, <1>8 DEF Insert
  <2> QED BY <1>4, <1>6, <2>1
<1>9. CASE p # <<>>
  <2>0. a > 0
    BY <1>7, <1>9, EmptySeq DEF Text
  <2>1. PICK k \in 0..n - 1 : k = m - a /\ k <= n
    BY <1>2, <2>0
  <2> DEFINE x == SubSeq(content, 1, k)
             r == p \o q
             z == x \o r
  <2>2. content' = (x \o p) \o q /\ mark' = k /\ offer' \in DOMAIN os
    <3>1. content' = SubSeq(content, 1, m - a) \o p \o q /\ mark' = m - a
      BY <1>3, <1>4, <1>7, <1>9 DEF Insert
    <3>2. offer' = IF o = l THEN 1 ELSE o + 1
      BY <1>0, <1>3, <1>7, <1>9 DEF Insert
    <3> QED BY <1>0, <2>1, <3>1, <3>2
  <2>3. PartIs(x, Letters, content, 0, k)
    <3>1. 0 \in 0..n /\ k \in 0..n /\ k = k - 0 /\ 0 + 1 = 1
      BY <2>1
    <3>2. PICK d \in Nat : d = 0 + 1 /\ PartIs(SubSeq(content, 0 + 1, k), Letters, content, 0, k)
      BY <1>0, <2>1, <3>1, PartIsCut DEF Text
    <3> QED BY <3>1, <3>2
  <2> HIDE DEF x
  <2>4. x \in Text /\ Len(x) = k /\ \A i \in 1..k : x[i] = content[i]
    BY <2>3 DEF PartIs, Text
  <2>5. PICK e \in Nat, f \in Nat : e = Len(q) /\ f = a + e
    BY <1>7, LenProperties DEF Text
  <2>6. r \in Text /\ Len(r) = f /\ \A i \in 1..f : r[i] = IF i <= a THEN p[i] ELSE q[i - a]
    <3>1. Joined(r, Letters, p, a, q, f)
      BY <1>7, <2>5, ConcatIs DEF Text
    <3> HIDE DEF r
    <3> QED BY <3>1 DEF Joined, Text
  <2>7. content' = z
    <3>0. x \in Seq(Letters) /\ p \in Seq(Letters) /\ q \in Seq(Letters)
      BY <1>7, <2>4 DEF Text
    <3>1. (x \o p) \o q = x \o (p \o q)
      BY <3>0, Associated
    <3> QED BY <2>2, <3>1
  <2> HIDE DEF r
  <2>8. PICK g \in Nat : g = k + f
    BY <2>1
  <2>9. z \in Text /\ Len(z) = g /\ \A i \in 1..g : z[i] = IF i <= k THEN x[i] ELSE r[i - k]
    <3>1. Joined(z, Letters, x, k, r, g)
      BY <2>1, <2>4, <2>6, <2>8, ConcatIs DEF Text
    <3> HIDE DEF z
    <3> QED BY <3>1 DEF Joined, Text
  <2> HIDE DEF z
  <2>10. SubSeq(z, 1, k) = x
    <3>1. PICK y : y = SubSeq(z, 0 + 1, k)
      OBVIOUS
    <3>2. 0 \in 0..g /\ k \in 0..g /\ k = k - 0 /\ 0 + 1 = 1
      BY <2>1, <2>8
    <3>3. PartIs(y, Letters, z, 0, k)
      BY <2>9, <3>1, <3>2, PartIsCut DEF Text
    <3>4. y \in Text /\ Len(y) = k /\ \A i \in 1..k : y[i] = z[i]
      BY <3>3 DEF PartIs, Text
    <3>5. \A i \in 1..k : y[i] = x[i]
      BY <2>8, <2>9, <3>4
    <3>6. y = x
      BY <2>4, <3>4, <3>5, SeqEqual DEF Text
    <3> QED BY <3>1, <3>2, <3>6
  <2>11. SubSeq(z, k + 1, Len(z)) = r
    <3>1. PICK y : y = SubSeq(z, k + 1, g)
      OBVIOUS
    <3>2. k \in 0..g /\ g \in k..g /\ f = g - k
      BY <2>1, <2>8
    <3>3. PartIs(y, Letters, z, k, f)
      BY <2>9, <3>1, <3>2, PartIsCut DEF Text
    <3>4. y \in Text /\ Len(y) = f /\ \A i \in 1..f : y[i] = z[k + i]
      BY <3>3 DEF PartIs, Text
    <3>5. ASSUME NEW i \in 1..f PROVE y[i] = r[i]
      <4>1. PICK j \in 1..g : j = k + i /\ ~(j <= k) /\ j - k = i
        BY <2>1, <2>8
      <4> QED BY <2>9, <3>4, <4>1
    <3>6. y = r
      BY <2>6, <3>4, <3>5, SeqEqual DEF Text
    <3> QED BY <2>9, <3>1, <3>6
  <2>12. Folded(r) = Folded(name) /\ name \in Text /\ name # <<>>
    BY <1>5, <1>7, NameTypes DEF r
  <2>13. Len(r) = Len(name) /\ \A i \in 1..Len(r) : Low(r[i]) = Low(name[i])
    BY <2>6, <2>12, FoldedSame DEF Text
  <2>14. 1 \in 1..a /\ 1 \in 1..f /\ 1 <= a
    BY <2>0, <2>5
  <2>15. Low(name[1]) = Low(p[1])
    BY <2>6, <2>13, <2>14
  <2>16. Low(p[1]) = Low(w[1])
    <3>1. Len(p) = Len(w) /\ \A i \in 1..Len(p) : Low(p[i]) = Low(w[i])
      BY <1>4, <1>7, FoldedSame DEF Text
    <3> QED BY <1>7, <2>14, <3>1
  <2>17. Low(w[1]) = Low(content[k + 1])
    BY <1>1, <1>2, <2>1, <2>14
  <2>18. Folded(content)[k + 1] = Low(content[k + 1])
    <3>1. \A i \in 1..n : Folded(content)[i] = Low(content[i])
      BY <1>0, FoldedIs DEF Text
    <3>2. k + 1 \in 1..n
      BY <2>1
    <3> QED BY <3>1, <3>2
  <2>19. Folded(name)[1] = Low(name[1])
    <3>1. \A i \in 1..f : Folded(name)[i] = Low(name[i])
      BY <2>6, <2>12, <2>13, FoldedIs DEF Text
    <3> QED BY <2>14, <3>1
  <2>20. NameReplaced(content, z)
    <3>1. Folded(SubSeq(z, k + 1, Len(z))) = Folded(name)
      BY <2>11, <2>12
    <3>2. Folded(content)[k + 1] = Folded(name)[1]
      BY <2>15, <2>16, <2>17, <2>18, <2>19
    <3>3. SubSeq(z, 1, k) = SubSeq(content, 1, k)
      BY <2>10 DEF x
    <3>4. k \in 0..Len(content) - 1 /\ name \in OfferedNames
      BY <1>0, <1>5, <2>1
    <3> QED BY <3>1, <3>2, <3>3, <3>4 DEF NameReplaced
  <2>21. k \in 0..Len(z)
    BY <2>1, <2>8, <2>9
  <2> QED BY <1>4, <1>6, <2>2, <2>7, <2>9, <2>20, <2>21
<1> QED BY <1>8, <1>9

-----------------------------------------------------------------------------
(* The invariant. *)
InputTypes ==
  /\ content \in Text /\ history \in Seq(Text) /\ sentLines \in Seq(Text) /\ draft \in Text
  /\ staged \in BOOLEAN /\ present \subseteq MemberNicks /\ senders \in Seq(MemberNicks)
  /\ mark \in 0..Len(content)
  /\ iter \in (IF history = <<>> THEN {0} ELSE DOMAIN history)

HistoryInv ==
  /\ (IF staged THEN Front(history) ELSE history) = Recalled(sentLines)
  /\ staged => history # <<>> /\ history[Len(history)] = draft

OffersInv ==
  /\ last \in Offer /\ offer \in (IF offers = <<>> THEN {1} ELSE DOMAIN offers)
  /\ \E w \in Text : AllFit(offers, w) /\ (offers # <<>> => Folded(last.prefix) = Folded(w))

InputInv == InputTypes /\ HistoryInv /\ OffersInv

(* What a step does to the text. *)
TextStep ==
  /\ pressed' = "down" /\ staged' /\ iter' = Len(history') => content' = draft
  /\ pressed' = "tab" /\ content' # content => NameReplaced(content, content')

LEMMA NoTextIsText == <<>> \in Text
BY DEF Text

LEMMA InputInvInit == InputInit => InputInv
<1> SUFFICES ASSUME InputInit PROVE InputInv
  OBVIOUS
<1>1. Recalled(<<>>) = <<>>
  <2>1. PICK f : AreRuns(f, Text, <<>>, 0)
    <3>1. <<>> \in Seq(Text) /\ Len(<<>>) = 0
      OBVIOUS
    <3> QED BY <3>1, RunsFold
  <2>2. Runs(<<>>) = <<>>
    BY <2>1 DEF AreRuns
  <2>3. PICK r : r = Runs(<<>>)
    OBVIOUS
  <2>a. PICK n \in Nat : r \in Seq(Text) /\ n = Len(r) /\ n = 0
    <3>1. r = <<>>
      BY <2>2, <2>3
    <3>2. Len(<<>>) = 0 /\ <<>> \in Seq(Text) /\ 0 \in Nat
      OBVIOUS
    <3> QED BY <3>1, <3>2
  <2>4. PICK m \in 0..n : EndOf(LastKept(r), Text, r, n, m)
    BY <2>a, KeptIs
  <2>5. LastKept(r) \in Seq(Text) /\ Len(LastKept(r)) = 0
    BY <2>4, <2>a DEF EndOf
  <2>6. LastKept(r) = <<>>
    BY <2>5, EmptySeq
  <2> QED BY <2>3, <2>6 DEF Recalled, LastKept
<1>2. InputTypes
  <2>1. <<>> \in Text /\ <<>> \in Seq(Text) /\ <<>> \in Seq(MemberNicks) /\ Len(<<>>) = 0
    BY NoTextIsText
  <2>2. ToSet(Members) = MemberNicks
    BY DEF MemberNicks
  <2>3. content \in Text /\ history \in Seq(Text) /\ sentLines \in Seq(Text) /\ draft \in Text
    BY <2>1 DEF InputInit
  <2>4. staged \in BOOLEAN /\ present \subseteq MemberNicks /\ senders \in Seq(MemberNicks)
    BY <2>1, <2>2 DEF InputInit
  <2>5. mark \in 0..Len(content) /\ iter \in (IF history = <<>> THEN {0} ELSE DOMAIN history)
    BY <2>1 DEF InputInit
  <2> QED BY <2>3, <2>4, <2>5 DEF InputTypes
<1>3. HistoryInv
  BY <1>1 DEF InputInit, HistoryInv
<1>4. OffersInv
  <2>1. NoOffer \in Offer
    BY NoTextIsText DEF NoOffer, Offer
  <2> QED BY <2>1, NoneFit, NoTextIsText DEF InputInit, OffersInv
<1> QED BY <1>2, <1>3, <1>4 DEF InputInv

-----------------------------------------------------------------------------
(* The sequence less its last element. *)
LEMMA FrontIs ==
  ASSUME NEW X, NEW s \in Seq(X), s # <<>>
  PROVE  Front(s) \in Seq(X) /\ Len(Front(s)) = Len(s) - 1 /\ Len(s) \in Nat \ {0}
<1>1. PICK n \in Nat : n = Len(s) /\ n # 0
  BY LenProperties, EmptySeq
<1>2. PICK d \in Nat : d = n - 1
  BY <1>1
<1>3. PICK u : u = SubSeq(s, 0 + 1, d)
  OBVIOUS
<1>4. 0 \in 0..n /\ d \in 0..n /\ d = d - 0
  BY <1>1, <1>2
<1>5. PartIs(u, X, s, 0, d)
  BY <1>1, <1>3, <1>4, PartIsCut
<1>6. u = Front(s)
  BY <1>1, <1>2, <1>3 DEF Front
<1> QED BY <1>1, <1>2, <1>5, <1>6 DEF PartIs

LEMMA FrontAppended ==
  ASSUME NEW X, NEW s \in Seq(X), NEW x \in X
  PROVE  Front(Append(s, x)) = s
<1> DEFINE t == Append(s, x)
<1>1. PICK n \in Nat : n = Len(s)
  BY LenProperties
<1>2. t \in Seq(X) /\ Len(t) = n + 1 /\ \A i \in 1..n : t[i] = s[i]
  BY <1>1, AppendProperties
<1> HIDE DEF t
<1>3. PICK m \in Nat : m = n + 1
  OBVIOUS
<1>4. PICK u : u = SubSeq(t, 0 + 1, n)
  OBVIOUS
<1>5. 0 \in 0..m /\ n \in 0..m /\ n = n - 0 /\ m - 1 = n
  BY <1>3
<1>6. PartIs(u, X, t, 0, n)
  BY <1>2, <1>3, <1>4, <1>5, PartIsCut
<1>7. u \in Seq(X) /\ Len(u) = n /\ \A i \in 1..n : u[i] = t[i]
  BY <1>6 DEF PartIs
<1>8. u = s
  <2>1. \A i \in 1..n : u[i] = s[i]
    BY <1>2, <1>7
  <2> QED BY <1>1, <1>7, <2>1, SeqEqual
<1>9. u = Front(t)
  BY <1>2, <1>3, <1>4, <1>5 DEF Front
<1> QED BY <1>8, <1>9 DEF t

LEMMA UnstagedIs ==
  ASSUME InputInv
  PROVE  Unstaged(history) = Recalled(sentLines) /\ Unstaged(history) \in Seq(Text)
<1>1. Unstaged(history) = Recalled(sentLines)
  BY DEF InputInv, HistoryInv, Unstaged
<1>2. Unstaged(history) \in Seq(Text)
  BY FrontIs DEF InputInv, InputTypes, HistoryInv, Unstaged
<1> QED BY <1>1, <1>2

(* What a line of the history becomes the text with. *)
LEMMA SetTextStep ==
  ASSUME InputInv, NEW line \in Text, SetText(line)
  PROVE  content' \in Text /\ mark' \in 0..Len(content') /\ OffersInv'
<1>1. content' \in Text /\ mark' = 0
  BY DEF SetText
<1>2. 0 \in 0..Len(content')
  BY <1>1, LenProperties DEF Text
<1>3. OffersInv'
  BY DEF SetText, InputInv, OffersInv
<1> QED BY <1>1, <1>2, <1>3

LEMMA BrowsedUp ==
  ASSUME InputInv, Up
  PROVE  InputInv' /\ TextStep
<1>0. InputTypes /\ HistoryInv /\ OffersInv
  BY DEF InputInv
<1>1. pressed' = "other" /\ UNCHANGED <<present, senders, sentLines>> /\ iter # 0
  BY DEF Up, Key
<1>2. TextStep
  BY <1>1 DEF TextStep
<1>3. history # <<>> /\ iter \in DOMAIN history
  BY <1>0, <1>1 DEF InputTypes
<1>4. PICK n \in Nat : n = Len(history) /\ DOMAIN history = 1..n /\ \A i \in 1..n : history[i] \in Text
  BY <1>0, LenProperties, ElementOfSeq DEF InputTypes
<1>5. CASE staged
  <2>1. /\ iter > 1 /\ iter' = iter - 1 /\ SetText(history[iter - 1]) /\ UNCHANGED <<history, staged, draft>>
    BY <1>5 DEF Up
  <2>2. iter - 1 \in 1..n
    BY <1>3, <1>4, <2>1
  <2>3. content' \in Text /\ mark' \in 0..Len(content') /\ OffersInv'
    BY <1>4, <2>1, <2>2, SetTextStep
  <2>4. iter' \in DOMAIN history'
    BY <1>4, <2>1, <2>2
  <2>5. InputTypes'
    BY <1>0, <1>1, <1>3, <2>1, <2>3, <2>4 DEF InputTypes
  <2>6. HistoryInv'
    BY <1>0, <1>1, <2>1 DEF HistoryInv
  <2> QED BY <1>2, <2>3, <2>5, <2>6 DEF InputInv
<1>6. CASE ~staged
  <2>1. /\ history' = Append(history, content) /\ staged' = TRUE /\ draft' = content
        /\ SetText(history[iter]) /\ UNCHANGED iter
    BY <1>6 DEF Up
  <2>2. content' \in Text /\ mark' \in 0..Len(content') /\ OffersInv'
    BY <1>3, <1>4, <2>1, SetTextStep
  <2>3. /\ history' \in Seq(Text) /\ Len(history') = n + 1 /\ history'[n + 1] = content
    BY <1>0, <1>4, <2>1, AppendProperties DEF InputTypes
  <2>4. DOMAIN history' = 1..n + 1 /\ history' # <<>>
    BY <2>3, LenProperties, EmptySeq
  <2>5. iter' \in DOMAIN history'
    BY <1>3, <1>4, <2>1, <2>4
  <2>6. InputTypes'
    BY <1>0, <1>1, <2>1, <2>2, <2>3, <2>4, <2>5 DEF InputTypes
  <2>7. Front(history') = history
    BY <1>0, <2>1, FrontAppended DEF InputTypes
  <2>8. HistoryInv'
    BY <1>0, <1>1, <1>6, <2>1, <2>3, <2>4, <2>7 DEF HistoryInv
  <2> QED BY <1>2, <2>2, <2>6, <2>8 DEF InputInv
<1>7. staged \in BOOLEAN
  BY <1>0 DEF InputTypes
<1> QED BY <1>5, <1>6, <1>7

LEMMA BrowsedDown ==
  ASSUME InputInv, Down
  PROVE  InputInv' /\ TextStep
<1>0. InputTypes /\ HistoryInv /\ OffersInv
  BY DEF InputInv
<1>1. staged /\ pressed' = "down" /\ UNCHANGED <<draft, present, senders, sentLines>>
  BY DEF Down, Key
<1>3. history # <<>> /\ iter \in DOMAIN history /\ history[Len(history)] = draft
  BY <1>0, <1>1 DEF InputTypes, HistoryInv
<1>4. PICK n \in Nat : n = Len(history) /\ DOMAIN history = 1..n /\ \A i \in 1..n : history[i] \in Text
  BY <1>0, LenProperties, ElementOfSeq DEF InputTypes
<1>5. CASE iter < Len(history)
  <2>1. /\ iter' = iter + 1 /\ SetText(history[iter + 1]) /\ UNCHANGED <<history, staged>>
    BY <1>5 DEF Down
  <2>2. iter + 1 \in 1..n
    BY <1>3, <1>4, <1>5
  <2>3. content' \in Text /\ mark' \in 0..Len(content') /\ OffersInv' /\ content' = history[iter + 1]
    BY <1>4, <2>1, <2>2, SetTextStep DEF SetText
  <2>4. iter' \in DOMAIN history'
    BY <1>4, <2>1, <2>2
  <2>5. InputTypes'
    BY <1>0, <1>1, <1>3, <2>1, <2>3, <2>4 DEF InputTypes
  <2>6. HistoryInv'
    BY <1>0, <1>1, <2>1 DEF HistoryInv
  <2>7. TextStep
    BY <1>1, <1>3, <2>1, <2>3 DEF TextStep
  <2> QED BY <2>3, <2>5, <2>6, <2>7 DEF InputInv
<1>6. CASE ~(iter < Len(history))
  <2>1. Reset(Unstaged(history)) /\ UNCHANGED <<content, completionVars>>
    BY <1>6 DEF Down
  <2>2. history' = Unstaged(history) /\ staged' = FALSE /\ iter' = Len(history')
    BY <2>1 DEF Reset
  <2>3. history' \in Seq(Text) /\ history' = Recalled(sentLines)
    BY <2>2, UnstagedIs
  <2>4. iter' \in (IF history' = <<>> THEN {0} ELSE DOMAIN history')
    <3>1. PICK d \in Nat : d = Len(history') /\ DOMAIN history' = 1..d
      BY <2>3, LenProperties
    <3>2. history' = <<>> <=> d = 0
      BY <2>3, <3>1, EmptySeq
    <3> QED BY <2>2, <3>1, <3>2
  <2>5. InputTypes'
    BY <1>0, <1>1, <2>1, <2>2, <2>3, <2>4 DEF InputTypes, completionVars
  <2>6. HistoryInv'
    BY <1>1, <2>2, <2>3 DEF HistoryInv
  <2>7. OffersInv'
    BY <1>0, <2>1 DEF OffersInv, completionVars
  <2>8. TextStep
    BY <1>1, <2>2 DEF TextStep
  <2> QED BY <2>5, <2>6, <2>7, <2>8 DEF InputInv
<1> QED BY <1>5, <1>6

LEMMA LineSent ==
  ASSUME InputInv, Send
  PROVE  InputInv' /\ TextStep
<1>0. InputTypes /\ HistoryInv /\ OffersInv
  BY DEF InputInv
<1>1. /\ pressed' = "other" /\ sentLines' = Append(sentLines, content)
      /\ Reset(Pushed(Unstaged(history), content)) /\ SetText(<<>>)
      /\ UNCHANGED <<draft, present, senders>>
  BY DEF Send
<1>2. history' = Pushed(Unstaged(history), content) /\ staged' = FALSE /\ iter' = Len(history')
  BY <1>1 DEF Reset
<1>3. content' \in Text /\ mark' \in 0..Len(content') /\ OffersInv'
  BY <1>1, SetTextStep, NoTextIsText
<1>4. sentLines' \in Seq(Text)
  BY <1>0, <1>1, AppendProperties DEF InputTypes
<1>5. Recalled(sentLines') = Pushed(Recalled(sentLines), content) /\ Recalled(sentLines') \in Seq(Text)
  <2>1. sentLines \in Seq(Text) /\ content \in Text
    BY <1>0 DEF InputTypes
  <2>2. Recalled(Append(sentLines, content)) = Pushed(Recalled(sentLines), content)
    BY <2>1, RecalledAppend
  <2>3. Recalled(sentLines') \in Seq(Text)
    BY <1>4, <2>1, RecalledAppend
  <2> QED BY <1>1, <2>2, <2>3
<1>6. history' = Recalled(sentLines') /\ history' \in Seq(Text)
  BY <1>2, <1>5, UnstagedIs
<1>7. iter' \in (IF history' = <<>> THEN {0} ELSE DOMAIN history')
  <2>1. PICK d \in Nat : d = Len(history') /\ DOMAIN history' = 1..d
    BY <1>6, LenProperties
  <2>2. history' = <<>> <=> d = 0
    BY <1>6, <2>1, EmptySeq
  <2> QED BY <1>2, <2>1, <2>2
<1>8. InputTypes'
  BY <1>0, <1>1, <1>2, <1>3, <1>4, <1>6, <1>7 DEF InputTypes
<1>9. HistoryInv'
  BY <1>2, <1>6 DEF HistoryInv
<1>10. TextStep
  BY <1>1 DEF TextStep
<1> QED BY <1>3, <1>8, <1>9, <1>10 DEF InputInv

LEMMA LetterTyped ==
  ASSUME InputInv, NEW c \in Typable, Type(c)
  PROVE  InputInv' /\ TextStep
<1>0. InputTypes /\ HistoryInv /\ OffersInv
  BY DEF InputInv
<1>1. /\ pressed' = "other" /\ content' = Append(content, c)
      /\ UNCHANGED <<browseVars, present, senders, completionVars, sentLines>>
  BY DEF Type, Key
<1>2. c \in Letters
  BY DEF Letters
<1>3. PICK n \in Nat : n = Len(content) /\ content \in Text
  BY <1>0, LenProperties DEF InputTypes, Text
<1>4. content' \in Text /\ Len(content') = n + 1
  BY <1>1, <1>2, <1>3, AppendProperties DEF Text
<1>5. mark' \in 0..Len(content')
  <2>1. mark' = mark /\ mark \in 0..n
    BY <1>0, <1>1, <1>3 DEF InputTypes, completionVars
  <2> QED BY <1>4, <2>1
<1>6. InputTypes'
  BY <1>0, <1>1, <1>4, <1>5 DEF InputTypes, browseVars
<1>7. HistoryInv'
  BY <1>0, <1>1 DEF HistoryInv, browseVars
<1>8. OffersInv'
  BY <1>0, <1>1 DEF OffersInv, completionVars
<1>9. TextStep
  BY <1>1 DEF TextStep
<1> QED BY <1>6, <1>7, <1>8, <1>9 DEF InputInv

LEMMA LetterErased ==
  ASSUME InputInv, Erase
  PROVE  InputInv' /\ TextStep
<1>0. InputTypes /\ HistoryInv /\ OffersInv
  BY DEF InputInv
<1>1. /\ content # <<>> /\ pressed' = "other" /\ content' = Front(content)
      /\ mark' = (IF mark > Len(content') THEN Len(content') ELSE mark)
      /\ UNCHANGED <<browseVars, present, senders, tabbed, offers, offer, last, sentLines>>
  BY DEF Erase, Key
<1>2. content' \in Text /\ Len(content') \in Nat
  <2>1. content \in Seq(Letters)
    BY <1>0 DEF InputTypes, Text
  <2>2. Front(content) \in Seq(Letters)
    BY <1>1, <2>1, FrontIs
  <2> QED BY <1>1, <2>2, LenProperties DEF Text
<1>3. mark' \in 0..Len(content')
  <2>1. mark \in Nat
    BY <1>0 DEF InputTypes
  <2> QED BY <1>1, <1>2, <2>1
<1>4. InputTypes'
  BY <1>0, <1>1, <1>2, <1>3 DEF InputTypes, browseVars
<1>5. HistoryInv'
  BY <1>0, <1>1 DEF HistoryInv, browseVars
<1>6. OffersInv'
  BY <1>0, <1>1 DEF OffersInv
<1>7. TextStep
  BY <1>1 DEF TextStep
<1> QED BY <1>4, <1>5, <1>6, <1>7 DEF InputInv

LEMMA Completed ==
  ASSUME InputInv, Tab
  PROVE  InputInv' /\ TextStep
<1>0. InputTypes /\ HistoryInv /\ OffersInv
  BY DEF InputInv
<1>1. pressed' = "tab" /\ UNCHANGED <<browseVars, present, senders, sentLines>>
  BY DEF Tab, Key
<1>2. PICK n \in Nat : n = Len(content) /\ content \in Text /\ mark \in 0..n
  BY <1>0, LenProperties DEF InputTypes, Text
<1>3. HistoryInv'
  BY <1>0, <1>1 DEF HistoryInv, browseVars
<1>4. ASSUME content' \in Text, mark' \in 0..Len(content') PROVE InputTypes'
  BY <1>0, <1>1, <1>4 DEF InputTypes, browseVars
<1>5. ASSUME content' # content => NameReplaced(content, content') PROVE TextStep
  <2>1. "tab" # "down"
    OBVIOUS
  <2> QED BY <1>1, <1>5, <2>1 DEF TextStep
<1>6. ASSUME NEW m \in 0..n, NEW w \in Text, NEW os, AllFit(os, w), NEW o \in DOMAIN os,
             NEW u \in Text, Folded(u) = Folded(w), Len(u) <= m,
             \A i \in 1..Len(u) : u[i] = content[m - Len(u) + i], Insert(m, os, o)
      PROVE  InputInv' /\ TextStep
  <2>1. /\ content' \in Text /\ mark' \in 0..Len(content') /\ offers' = os /\ offer' \in DOMAIN os
        /\ last' \in Offer /\ Folded(last'.prefix) = Folded(w)
        /\ content' # content => NameReplaced(content, content')
    BY <1>2, <1>6, InsertStep
  <2>2. os # <<>>
    OBVIOUS
  <2>3. OffersInv'
    BY <1>6, <2>1, <2>2 DEF OffersInv
  <2> QED BY <1>3, <1>4, <1>5, <2>1, <2>3 DEF InputInv
<1>7. CASE AsCompleted /\ offers # <<>>
  <2>1. Insert(mark, offers, offer)
    BY <1>7 DEF Tab
  <2>2. PICK w \in Text : AllFit(offers, w) /\ Folded(last.prefix) = Folded(w)
    BY <1>0, <1>7 DEF OffersInv
  <2>3. offer \in DOMAIN offers /\ last.prefix \in Text
    BY <1>0, <1>7 DEF OffersInv, Offer
  <2>4. PICK u : u = last.prefix
    OBVIOUS
  <2>5. PICK t : t = SubSeq(content, 0 + 1, mark) /\ t = SubSeq(content, 1, mark)
    <3>1. 0 + 1 = 1
      OBVIOUS
    <3>2. SubSeq(content, 0 + 1, mark) = SubSeq(content, 1, mark)
      BY <3>1
    <3> QED BY <3>2
  <2>6. PartIs(t, Letters, content, 0, mark)
    <3>1. 0 \in 0..n /\ mark \in 0..n /\ mark \in Nat /\ mark = mark - 0
      BY <1>2
    <3> QED BY <1>2, <2>5, <3>1, PartIsCut DEF Text
  <2>7. t \in Seq(Letters) /\ Len(t) = mark /\ \A i \in 1..mark : t[i] = content[i]
    BY <2>6 DEF PartIs
  <2>8. Len(u) <= mark /\ \A i \in 1..Len(u) : u[i] = t[mark - Len(u) + i]
    <3>1. IsSuffix(u, t)
      BY <1>7, <2>4, <2>5 DEF AsCompleted
    <3> QED BY SMTT(30), <2>3, <2>4, <2>7, <3>1, SuffixIs DEF Text
  <2>9. \A i \in 1..Len(u) : u[i] = content[mark - Len(u) + i]
    <3> SUFFICES ASSUME NEW i \in 1..Len(u) PROVE u[i] = content[mark - Len(u) + i]
      OBVIOUS
    <3>1. PICK d \in Nat : d = Len(u)
      BY <2>3, <2>4, LenProperties DEF Text
    <3>a. mark \in Nat /\ d <= mark /\ i \in 1..d
      BY <1>2, <2>8, <3>1
    <3>2. PICK j \in 1..mark : j = mark - d + i
      BY <3>1, <3>a
    <3> QED BY <2>7, <2>8, <3>1, <3>2
  <2> QED BY <1>2, <1>6, <2>1, <2>2, <2>3, <2>4, <2>8, <2>9
<1>8. CASE AsCompleted /\ offers = <<>>
  <2>1. UNCHANGED <<content, mark, offers, offer, last>>
    BY <1>8 DEF Tab
  <2>2. OffersInv'
    BY <1>0, <2>1 DEF OffersInv
  <2>3. content' \in Text /\ mark' \in 0..Len(content')
    BY <1>2, <2>1
  <2> QED BY <1>3, <1>4, <1>5, <2>1, <2>2, <2>3 DEF InputInv
<1>9. CASE ~AsCompleted /\ Offers(content) # <<>>
  <2>1. Insert(Len(content), Offers(content), 1)
    BY <1>9 DEF Tab
  <2>2. PICK os, w : os = Offers(content) /\ w = LastWord(content)
    OBVIOUS
  <2>3. AllFit(os, w)
    BY <1>0, <1>2, <2>2, OffersFit DEF InputTypes
  <2>4. 1 \in DOMAIN os
    <3>1. os \in Seq(Offer) /\ os # <<>>
      BY <1>9, <2>2, <2>3 DEF AllFit
    <3>2. DOMAIN os = 1..Len(os) /\ Len(os) \in Nat /\ Len(os) # 0
      BY <3>1, LenProperties, EmptySeq
    <3> QED BY <3>2
  <2>5. PICK k \in 0..n : w \in Text /\ Len(w) = n - k /\ \A i \in 1..n - k : w[i] = content[k + i]
    BY <1>2, <2>2, WordIs
  <2>6. Len(w) <= n /\ n - Len(w) = k
    BY <2>5
  <2>7. \A i \in 1..Len(w) : w[i] = content[n - Len(w) + i]
    BY <2>5, <2>6
  <2>8. n \in 0..n /\ Insert(n, os, 1)
    BY <1>2, <2>1, <2>2
  <2> QED BY <1>6, <2>3, <2>4, <2>5, <2>6, <2>7, <2>8
<1>10. CASE ~AsCompleted /\ Offers(content) = <<>>
  <2>1. ResetToNothing
    BY <1>10 DEF Tab
  <2>2. content' = content /\ mark' = n /\ offers' = <<>> /\ offer' = 1 /\ last' = NoOffer
    BY <1>2, <2>1 DEF ResetToNothing
  <2>3. NoOffer \in Offer
    BY NoTextIsText DEF NoOffer, Offer
  <2>4. OffersInv'
    BY <2>2, <2>3, NoneFit, NoTextIsText DEF OffersInv
  <2>5. content' \in Text /\ mark' \in 0..Len(content')
    BY <1>2, <2>2
  <2> QED BY <1>3, <1>4, <1>5, <2>2, <2>4, <2>5 DEF InputInv
<1> QED BY <1>7, <1>8, <1>9, <1>10

LEMMA UsersMoved ==
  ASSUME InputInv, NEW n \in MemberNicks, JoinOrPart(n) \/ Says(n)
  PROVE  InputInv' /\ TextStep
<1>0. InputTypes /\ HistoryInv /\ OffersInv
  BY DEF InputInv
<1>1. pressed' = "other" /\ UNCHANGED <<content, browseVars, completionVars, sentLines>>
  BY DEF JoinOrPart, Says
<1>2. present' \subseteq MemberNicks
  BY <1>0 DEF JoinOrPart, Says, InputTypes
<1>3. senders' \in Seq(MemberNicks)
  <2>1. <<n>> \in Seq(MemberNicks)
    OBVIOUS
  <2>2. senders \in Seq(MemberNicks)
    BY <1>0 DEF InputTypes
  <2> QED BY <2>1, <2>2 DEF JoinOrPart, Says
<1>4. InputTypes'
  BY <1>0, <1>1, <1>2, <1>3 DEF InputTypes, browseVars, completionVars
<1>5. HistoryInv'
  BY <1>0, <1>1 DEF HistoryInv, browseVars
<1>6. OffersInv'
  BY <1>0, <1>1 DEF OffersInv, completionVars
<1>7. TextStep
  BY <1>1 DEF TextStep
<1> QED BY <1>4, <1>5, <1>6, <1>7 DEF InputInv

LEMMA InputInvKept ==
  ASSUME InputInv, [InputNext]_inputVars
  PROVE  InputInv' /\ (TextStep \/ UNCHANGED inputVars)
<1>1. CASE UNCHANGED inputVars
  <2>1. InputTypes /\ HistoryInv /\ OffersInv
    BY DEF InputInv
  <2>2. InputTypes'
    BY <1>1, <2>1 DEF InputTypes, inputVars, browseVars, completionVars
  <2>3. HistoryInv'
    BY <1>1, <2>1 DEF HistoryInv, inputVars, browseVars
  <2>4. OffersInv'
    BY <1>1, <2>1 DEF OffersInv, inputVars, completionVars
  <2> QED BY <1>1, <2>2, <2>3, <2>4 DEF InputInv
<1>2. ASSUME NEW n \in ToSet(Members), JoinOrPart(n) \/ Says(n) PROVE InputInv' /\ TextStep
  <2>1. n \in MemberNicks
    BY DEF MemberNicks
  <2> QED BY <1>2, <2>1, UsersMoved
<1> QED BY <1>1, <1>2, BrowsedUp, BrowsedDown, LineSent, LetterErased, Completed, LetterTyped DEF InputNext

(* Whatever is typed, browsed, completed, erased and sent, the history is  *)
(* what was sent, with the draft behind it while it is browsed; and all    *)
(* that completion has to offer begins like the same word and ends as a    *)
(* name.                                                                   *)
THEOREM InputInvariance == InputSpec => []InputInv
<1>1. InputInv /\ [InputNext]_inputVars => InputInv'
  BY InputInvKept
<1> QED BY <1>1, InputInvInit, PTL DEF InputSpec

(* No draft enters the history and no line that was sent is lost from it,  *)
(* the way back down ends at the draft, and Tab only completes names.      *)
THEOREM InputIsKept == InputSpec => InputKept
<1> DEFINE Step == 
   /\ (IF staged' THEN Front(history') ELSE history') = Recalled(sentLines')
   /\ pressed' = "down" /\ staged' /\ iter' = Len(history') => content' = draft
   /\ pressed' = "tab" /\ content' # content =>
        \E k \in 0..Len(content) - 1 :
          /\ SubSeq(content', 1, k) = SubSeq(content, 1, k)
          /\ \E name \in ToSet(Bound) \cup ToSet(Members) \cup {n \o Suffix : n \in ToSet(Members)} :
               /\ Folded(SubSeq(content', k + 1, Len(content'))) = Folded(name)
               /\ Folded(content)[k + 1] = Folded(name)[1]
<1>1. ASSUME InputInv, [InputNext]_inputVars PROVE [Step]_inputVars
  <2>1. InputInv' /\ (TextStep \/ UNCHANGED inputVars)
    BY <1>1, InputInvKept
  <2>2. CASE TextStep
    <3>1. (IF staged' THEN Front(history') ELSE history') = Recalled(sentLines')
      BY <2>1 DEF InputInv, HistoryInv
    <3>2. pressed' = "down" /\ staged' /\ iter' = Len(history') => content' = draft
      BY <2>2 DEF TextStep
    <3>3. pressed' = "tab" /\ content' # content => NameReplaced(content, content')
      BY <2>2 DEF TextStep
    <3> QED BY <3>1, <3>2, <3>3 DEF NameReplaced, OfferedNames, MemberNicks
  <2> QED BY <2>1, <2>2
<1> HIDE DEF Step
<1>2. InputInv /\ [InputNext]_inputVars => [Step]_inputVars
  BY <1>1
<1>3. InputSpec => [][Step]_inputVars
  BY <1>2, InputInvariance, PTL DEF InputSpec
<1> QED BY <1>3 DEF InputKept, Step

(* What the input, its history and its completion hold.                    *)
THEOREM InputTypeCorrect == InputSpec => []InputTypeOK
<1>1. ASSUME InputInv PROVE InputTypeOK
  <2>1. InputTypes /\ HistoryInv /\ OffersInv
    BY <1>1 DEF InputInv
  <2>2. PICK r : r = Runs(sentLines) /\ r \in Seq(Text)
    <3>1. sentLines \in Seq(Text)
      BY <2>1 DEF InputTypes
    <3>2. Runs(sentLines) \in Seq(Text)
      BY <3>1, NoTextIsText, RunsAppend
    <3> QED BY <3>2
  <2>3. PICK n \in Nat : n = Len(r)
    BY <2>2, LenProperties
  <2>4. PICK m \in 0..n : EndOf(LastKept(r), Text, r, n, m)
    BY <2>2, <2>3, KeptIs
  <2>5. Recalled(sentLines) = LastKept(r)
    BY <2>2 DEF Recalled, LastKept
  <2>6. Len(Recalled(sentLines)) <= MaxHistory
    BY <2>3, <2>4, <2>5, InputBounds DEF EndOf
  <2>7. Len(history) <= MaxHistory + 1
    <3>1. CASE staged
      BY <2>1, <2>6, <3>1, FrontIs, InputBounds DEF InputTypes, HistoryInv
    <3>2. CASE ~staged
      <4>1. Len(history) \in Nat
        BY <2>1, LenProperties DEF InputTypes
      <4> QED BY <2>1, <2>6, <3>2, <4>1, InputBounds DEF HistoryInv
    <3> QED BY <3>1, <3>2
  <2>8. ToSet(senders) \subseteq MemberNicks
    BY <2>1, LenProperties, ElementOfSeq DEF InputTypes, ToSet
  <2> QED BY <2>1, <2>7, <2>8 DEF InputTypes, HistoryInv, OffersInv, InputTypeOK, MemberNicks
<1> QED BY <1>1, InputInvariance, PTL
=============================================================================
