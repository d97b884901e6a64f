----------------------------- MODULE Messages ------------------------------
(***************************************************************************)
(* What becomes of an event of the server that says something: the chat it *)
(* is shown in (the handlers of core/app_irc_event.c), the renderers and   *)
(* filters its message goes through (core/chat.c, render/, filter/) and    *)
(* whether it is listed, logged and notified.  The user changes what the   *)
(* filters do: /ignore, /filter, /render and /pattern of chat_command.c.   *)
(*                                                                         *)
(* Whom a message is from is looked up twice: user_table finds the user of *)
(* the nick, and the list of the chat the first entry of that nick, which  *)
(* may be one left behind by somebody else who once had it.                *)
(*                                                                         *)
(* One server with one channel, joined or not; dialogs are named by the    *)
(* nick of the other.  Of a text only what it matches matters: "spam"      *)
(* matches the pattern "p", "relay" the pattern "r", whose content is      *)
(* "spam", "nick" the own nick.                                            *)
(***************************************************************************)
EXTENDS Naturals, FiniteSets, Sequences, Functions

CONSTANTS
  People,  \* those who talk, the own user among them
  Me,
  Nicks,
  FilterChats, \* the chats that filters are attached to
  MarkedNicks, \* the nicks that are ignored or have renderers attached
  NoChat,
  MaxLists,    \* bound: chats with others than the client in their list
  MaxEntries,  \* bound: entries in the list of a chat
  MaxMarks     \* bound: users ignored, users rendered and filters together

SrvChat == "srv->chat"
Channel == "#chan"
Server == "irc.server"
Patterns == {"p", "r"}
Contents == {"spam", "relay", "nick"}

ASSUME MessagesAssumption ==
  /\ Me \in People /\ Server \notin People
  /\ Injection(People, Nicks) # {}
  /\ {SrvChat, Channel, Server} \cap Nicks = {} /\ MarkedNicks \subseteq Nicks
  /\ NoChat \notin {SrvChat, Channel, Server} \cup Nicks
  /\ MaxLists \in Nat /\ MaxEntries \in Nat /\ MaxMarks \in Nat

VARIABLES
  nickOf,    \* the nick of each of the people on the network
  online,    \* those that are there
  seen,      \* those that share the channel with the client
  userTable, \* srv->user_table: for each known nick, what is set for its user
  chats,     \* srv->chat_list and srv->chat, by name
  entries,   \* chat->user_list of each, without the client's and the server's
  patterns,  \* app->pattern_set
  filterOn,  \* pairs of a chat and a pattern: the filters attached
  delivered, \* the last message: who said it and what came of it, until
             \* the user has seen it
  unwanted   \* history: who was ignored, and never out of sight since

messageVars == <<nickOf, online, seen, userTable, chats, entries, patterns, filterOn,
                 delivered, unwanted>>

NewUser == [ignored |-> FALSE, render |-> {}]
Nothing == [who |-> Server, kind |-> "none", namesake |-> FALSE, shown |-> FALSE,
            logged |-> FALSE, notified |-> FALSE]

(* An entry: of the user that user_table has for its nick, or of one whose *)
(* place there another has taken, who is as he was then.                   *)
Entry(nick) == [nick |-> nick, left |-> FALSE, user |-> NewUser]
LeftEntry(nick, user) == [nick |-> nick, left |-> TRUE, user |-> user]

-----------------------------------------------------------------------------
(* The handlers: in which chat an event is shown, as which messages.       *)

Route(to, kinds) == [to |-> to, kinds |-> kinds]

(* irc_event_channel, _privmsg and _notice. *)
TalkRoutes ==
  [channel |-> Route("channel", <<"recv">>),
   privmsg |-> Route("dialog", <<"recv">>),
   notice |-> Route("dialog", <<"notice">>)]

(* irc_event_channel_notice and irc_event_invite. *)
NoticeRoutes ==
  [channel_notice |-> Route("channel", <<"notice">>),
   invite |-> Route("channelOrDialog", <<"miscWith">>)]

(* irc_event_ctcp_req, which opens a dialog for an ACTION alone, and       *)
(* irc_event_ctcp_rsp.                                                     *)
CtcpRoutes ==
  [action |-> Route("dialog", <<"action">>),
   channel_action |-> Route("channel", <<"action">>),
   ctcp_req |-> Route("dialogOrServer", <<"miscWith">>),
   channel_ctcp_req |-> Route("channel", <<"miscWith">>),
   ctcp_rsp |-> Route("dialogOrServer", <<"miscWith">>),
   dcc |-> Route("dialogOrServer", <<"errorWith">>)]

(* irc_event_mode and _topic, of a user or of the server; irc_event_umode. *)
ModeRoutes ==
  [mode |-> Route("channel", <<"miscWith">>),
   topic |-> Route("channel", <<"topic", "miscWith">>),
   umode |-> Route("server", <<"miscWith">>)]

(* irc_event_fail, _warn and _note, which takes the server for a chat and  *)
(* does not find it.                                                       *)
ReplyRoutes ==
  [fail |-> Route("server", <<"error">>), warn |-> Route("server", <<"error">>),
   note |-> Route("origin", <<"misc">>)]

(* irc_event_error; the greetings, the MOTD and LUSERS of                  *)
(* irc_event_numeric; its errors and numerics it does not know             *)
(* (add_numeric_error_message).                                            *)
ErrorRoute == Route("current", <<"error">>)
GreetingRoute == Route("server", <<"recv">>)
ChannelErrorRoute == Route("channelOrServer", <<"error">>)
NumericErrorRoute == Route("server", <<"error">>)

(* irc_event_numeric: the replies to TOPIC, to WHOIS, to MODE +b, to a     *)
(* message to somebody who is away, and to AWAY.                           *)
TopicRoutes ==
  [notopic |-> Route("channel", <<"misc">>),
   topic_is |-> Route("channel", <<"topic", "miscWith">>)]
WhoisRoute == Route("current", <<"misc">>)
BanRoute == Route("channel", <<"miscWith">>)
AwayRoutes ==
  [away |-> Route("dialogOrServer", <<"errorWith">>),
   unaway |-> Route("server", <<"misc">>)]

(* What is said by, or of, a user; a mode and a topic may be the server's. *)
UserTables == {TalkRoutes, NoticeRoutes, CtcpRoutes, ModeRoutes, AwayRoutes}
UserEvents ==
  DOMAIN TalkRoutes \cup DOMAIN NoticeRoutes \cup DOMAIN CtcpRoutes \cup {"mode", "topic", "away"}

NumericRoutes ==
  [error |-> ErrorRoute, greeting |-> GreetingRoute, chanerror |-> ChannelErrorRoute,
   numerror |-> NumericErrorRoute, unknown |-> GreetingRoute, whois |-> WhoisRoute,
   banlist |-> BanRoute]
ServerTables == {ReplyRoutes, TopicRoutes, NumericRoutes}
ServerEvents ==
  DOMAIN ReplyRoutes \cup DOMAIN TopicRoutes \cup DOMAIN NumericRoutes
    \cup {"mode", "topic", "umode", "unaway"}

(* The route of an event, from the table that has it. *)
Tables == UserTables \cup ServerTables
Routes == [e \in UserEvents \cup ServerEvents |-> (CHOOSE t \in Tables : e \in DOMAIN t)[e]]

(* The name of the chat; NoChat when the handler finds none and returns.   *)
(* The current chat of the server may be any (it is modelled in Chats).    *)
ChatFor(to, origin, current) ==
  LET open(c, other) == IF c \in chats THEN c ELSE other
  IN  CASE to = "server" -> SrvChat
        [] to = "current" -> current
        [] to = "channel" -> open(Channel, NoChat)
        [] to = "channelOrServer" -> open(Channel, SrvChat)
        [] to = "channelOrDialog" -> open(Channel, origin)
        [] to = "dialog" -> origin
        [] to = "dialogOrServer" -> open(origin, SrvChat)
        [] to = "origin" -> open(origin, NoChat)

-----------------------------------------------------------------------------
(* Rendering and filtering (srn_chat_add_..._message).                     *)

(* What people say, and what is said of them. *)
UserKinds == {"recv", "notice", "action", "sent", "miscWith", "errorWith"}

(* The filters each kind of message goes through. *)
FilterFlags(kind, mine) ==
  CASE kind = "sent" -> {"log"}
    [] kind = "action" -> IF mine THEN {"log"} ELSE {"user", "pattern", "log"}
    [] kind \in {"recv", "notice", "miscWith", "errorWith"} -> {"user", "pattern", "log"}
    [] kind \in {"misc", "error", "topic"} -> {}

(* The renderers that change what the filters see or what is notified. *)
RenderFlags(kind, mine) ==
  IF kind \in {"recv", "notice"} \/ (kind = "action" /\ ~mine) THEN {"pattern", "mention"} ELSE {}

(* Mutant: the log is written before the message is looked at. *)
Filters_LogFirst == <<"log", "user", "pattern">>

(* srn_filter_init: "do not change the order". *)
Filters == <<"user", "pattern", "log">>

Matches(p, c) == (p = "p" /\ c = "spam") \/ (p = "r" /\ c = "relay")

(* pattern_renderer: what an attached pattern that exists and matches takes *)
(* out of the text.                                                         *)
Rendered(kind, mine, c, user) ==
  IF "pattern" \in RenderFlags(kind, mine) /\ \E p \in user.render \cap patterns : p = "r" /\ Matches(p, c)
    THEN "spam" ELSE c

(* Whether a filter lets the message pass; pattern_filter looks at what is *)
(* attached to the chat and to the server's, and only at patterns that     *)
(* still exist.                                                            *)
Lets(f, user, chat, c) ==
  CASE f = "user" -> ~user.ignored
    [] f = "pattern" -> ~\E p \in patterns : /\ {<<chat, p>>, <<SrvChat, p>>} \cap filterOn # {}
                                              /\ Matches(p, c)
    [] f = "log" -> TRUE

(* srn_filter_message: the first filter that does not let it pass ends it. *)
Passes(kind, mine, user, chat, c, upTo) ==
  \A i \in 1..upTo : Filters[i] \in FilterFlags(kind, mine) => Lets(Filters[i], user, chat, c)

Logs(kind, mine, user, chat, c) ==
  \E at \in DOMAIN Filters :
    /\ Filters[at] = "log" /\ "log" \in FilterFlags(kind, mine)
    /\ Passes(kind, mine, user, chat, c, at - 1)

(* mention_renderer, after pattern_renderer: the own nick is in the text. *)
Mentions(kind, mine, text) == "mention" \in RenderFlags(kind, mine) /\ text = "nick"

(* sui_notify_message, of a message that concerns the user, while the      *)
(* window is not active.                                                   *)
Notified(kind, chat, mentioned) ==
  mentioned \/ chat \in Nicks \/ kind \in {"notice", "error", "errorWith"}

(* add_message: listed, and notified of when it concerns the user; and     *)
(* srn_chat_set_topic, which shows the topic above the chat.               *)
Outcome(who, kind, user, namesake, chat, c) ==
  LET mine == who = Me
      text == Rendered(kind, mine, c, user)
      shown == Passes(kind, mine, user, chat, text, Len(Filters))
  IN  [who |-> who, kind |-> kind, namesake |-> namesake,
       shown |-> shown, logged |-> Logs(kind, mine, user, chat, text),
       notified |-> shown /\ kind # "topic" /\ Notified(kind, chat, Mentions(kind, mine, text))]

Known(nick) == IF nick \in DOMAIN userTable THEN userTable[nick] ELSE NewUser
AddUser(nick) == userTable' = [k \in DOMAIN userTable \cup {nick} |->
                                 IF k \in DOMAIN userTable THEN userTable[k] ELSE NewUser]

(* srn_chat_add_user: the user is in the list once. *)
WithUser(list, nick) == IF Entry(nick) \in Range(list) THEN list ELSE Append(list, Entry(nick))

(* srn_chat_get_user: the first entry of the nick. *)
Found(list, nick) ==
  list[CHOOSE i \in DOMAIN list : /\ list[i].nick = nick
                                  /\ \A j \in DOMAIN list : list[j].nick = nick => i <= j]

ListOf(chat) == IF chat \in chats THEN entries[chat] ELSE <<>>
AddEntry(chat, nick) ==
  /\ Cardinality({c \in chats : entries[c] # <<>>} \cup {chat}) <= MaxLists
  /\ Len(WithUser(ListOf(chat), nick)) <= MaxEntries
  /\ chats' = chats \cup {chat}
  /\ entries' = [c \in chats' |-> IF c = chat THEN WithUser(ListOf(chat), nick) ELSE entries[c]]

(* An event of the user with nick origin is handled along route r; a new   *)
(* dialog has its partner in the list at once.                             *)
Handled(who, origin, r, c) ==
  LET chat == ChatFor(r.to, origin, SrvChat)
      sender == Found(WithUser(ListOf(chat), origin), origin)
      user == IF sender.left THEN sender.user ELSE Known(origin)
  IN
    /\ chat # NoChat
    /\ AddUser(origin) /\ AddEntry(chat, origin)
    /\ \E i \in DOMAIN r.kinds :
         delivered' = Outcome(who, r.kinds[i], user, sender.left, chat, c)
    /\ UNCHANGED <<nickOf, online, seen, patterns, filterOn, unwanted>>

(* One of the others says something. *)
OnUserEvent(p, event, c) ==
  /\ delivered = Nothing
  /\ p \in online \ {Me}
  /\ Routes[event].to = "channel" => p \in seen
  /\ Handled(p, nickOf[p], Routes[event], c)

(* The server says something: nobody ignores it, it opens no chat, and its *)
(* entries, which no nick is that of, are left out.                        *)
OnServerEvent(event, c) ==
  \E current \in IF Routes[event].to = "current" THEN chats ELSE {SrvChat} :
    LET chat == ChatFor(Routes[event].to, Server, current)
    IN
      /\ delivered = Nothing
      /\ chat # NoChat
      /\ \E i \in DOMAIN Routes[event].kinds :
           delivered' = Outcome(Server, Routes[event].kinds[i], Known(Server), FALSE, chat, c)
      /\ UNCHANGED <<nickOf, online, seen, userTable, chats, entries, patterns, filterOn, unwanted>>

(* /me and what the user types: the client's own messages, from the        *)
(* client's own entry (chat->user).                                        *)
OnMe(c) ==
  /\ delivered = Nothing
  /\ \E chat \in chats \ {SrvChat}, kind \in {"action", "sent"} :
       delivered' = Outcome(Me, kind, Known(nickOf[Me]), FALSE, chat, c)
  /\ UNCHANGED <<nickOf, online, seen, userTable, chats, entries, patterns, filterOn, unwanted>>

Look ==
  /\ delivered # Nothing /\ delivered' = Nothing
  /\ UNCHANGED <<nickOf, online, seen, userTable, chats, entries, patterns, filterOn, unwanted>>

-----------------------------------------------------------------------------
(* People come, go and change their nicks.                                 *)

Quiet == delivered = Nothing /\ UNCHANGED <<delivered, patterns, filterOn>>
FreeNicks == Nicks \ {nickOf[p] : p \in online}

(* Mutant: srn_server_rename_user makes a user of its own for the new nick. *)
Renamed_Fresh(old, new) == [k \in DOMAIN userTable \cup {new} |->
                              IF k = new THEN NewUser ELSE userTable[k]]

(* srn_server_rename_user: the user goes to its new nick, in the place of  *)
(* one that may have been there, whose entries are left.                   *)
Renamed(old, new) == [k \in (DOMAIN userTable \ {old}) \cup {new} |->
                        IF k = new THEN userTable[old] ELSE userTable[k]]

RenamedEntry(e, old, new) ==
  CASE ~e.left /\ e.nick = old -> Entry(new)
    [] ~e.left /\ e.nick = new -> LeftEntry(new, userTable[new])
    [] OTHER -> e
RenamedEntries(old, new) ==
  [c \in chats |-> [i \in DOMAIN entries[c] |-> RenamedEntry(entries[c][i], old, new)]]

(* The client hears of it (irc_event_nick) when the user is in sight. *)
Rename(p, new) ==
  /\ p \in online \ {Me} /\ new \in FreeNicks
  /\ nickOf' = [nickOf EXCEPT ![p] = new]
  /\ IF p \in seen
       THEN /\ userTable' = Renamed(nickOf[p], new)
            /\ entries' = RenamedEntries(nickOf[p], new)
            /\ UNCHANGED unwanted
       ELSE /\ unwanted' = unwanted \ {p}
            /\ UNCHANGED <<userTable, entries>>
  /\ Quiet /\ UNCHANGED <<online, seen, chats>>

Come(p, nick) ==
  /\ p \notin online /\ nick \in FreeNicks
  /\ online' = online \cup {p} /\ nickOf' = [nickOf EXCEPT ![p] = nick]
  /\ Quiet /\ UNCHANGED <<seen, userTable, chats, entries, unwanted>>

JoinChannel(p) ==
  /\ p \in online \ seen /\ Channel \in chats
  /\ seen' = seen \cup {p}
  /\ AddUser(nickOf[p]) /\ AddEntry(Channel, nickOf[p])
  /\ Quiet /\ UNCHANGED <<nickOf, online, unwanted>>

Leave(p, network) ==
  /\ p \in IF network THEN online \ {Me} ELSE seen \ {Me}
  /\ seen' = seen \ {p}
  /\ online' = IF network THEN online \ {p} ELSE online
  /\ unwanted' = IF network THEN unwanted \ {p} ELSE unwanted
  /\ Quiet /\ UNCHANGED <<nickOf, userTable, chats, entries>>

-----------------------------------------------------------------------------
(* The user's commands.                                                    *)

NoOther == delivered = Nothing /\ UNCHANGED <<delivered, nickOf, online, seen, chats, entries>>
Holders(nick) == {p \in online : nickOf[p] = nick}

(* The marks that are set: users ignored, users rendered and filters.       *)
IgnoredUsers == {k \in DOMAIN userTable : userTable[k].ignored}
RenderedUsers == {k \in DOMAIN userTable : userTable[k].render # {}}
MayMark == Cardinality(IgnoredUsers) + Cardinality(RenderedUsers) + Cardinality(filterOn) < MaxMarks

(* on_command_ignore, with or without -cur: the user of the server. *)
Ignore(nick) ==
  /\ ~Known(nick).ignored /\ MayMark
  /\ userTable' = [k \in DOMAIN userTable \cup {nick} |->
                     IF k = nick THEN [Known(nick) EXCEPT !.ignored = TRUE] ELSE userTable[k]]
  /\ unwanted' = unwanted \cup Holders(nick)
  /\ NoOther /\ UNCHANGED <<patterns, filterOn>>

Unignore(nick) ==
  /\ nick \in DOMAIN userTable
  /\ userTable' = [userTable EXCEPT ![nick].ignored = FALSE]
  /\ unwanted' = unwanted \ Holders(nick)
  /\ NoOther /\ UNCHANGED <<patterns, filterOn>>

(* srn_filter_attach_pattern and srn_filter_detach_pattern, of a list that *)
(* names a pattern once.                                                   *)
Attached(list, p) == IF p \in list THEN list \ {p} ELSE list \cup {p}

(* /filter and /unfilter, for the server or with -cur for the chat: only a *)
(* pattern that exists can be attached, any can be detached.               *)
Filter(chat, p) ==
  /\ chat \in chats
  /\ (p \in patterns /\ MayMark) \/ <<chat, p>> \in filterOn
  /\ filterOn' = Attached(filterOn, <<chat, p>>)
  /\ NoOther /\ UNCHANGED <<userTable, patterns, unwanted>>

(* srn_render_attach_pattern and srn_render_detach_pattern *)
RenderAttached(list, p) == IF p \in list THEN list \ {p} ELSE list \cup {p}

(* /render and /unrender. *)
Render(nick) ==
  /\ ("r" \in patterns /\ MayMark) \/ "r" \in Known(nick).render
  /\ userTable' = [k \in DOMAIN userTable \cup {nick} |->
                     IF k # nick THEN userTable[k]
                     ELSE [Known(nick) EXCEPT !.render = RenderAttached(@, "r")]]
  /\ NoOther /\ UNCHANGED <<patterns, filterOn, unwanted>>

(* /pattern add and /pattern rm: what is attached stays so. *)
Pattern(p) ==
  /\ patterns' = IF p \in patterns THEN patterns \ {p} ELSE patterns \cup {p}
  /\ NoOther /\ UNCHANGED <<userTable, filterOn, unwanted>>

-----------------------------------------------------------------------------
MessagesInit ==
  /\ nickOf = CHOOSE f \in Injection(People, Nicks) : TRUE
  /\ online = {Me} /\ seen = {Me}
  /\ userTable = [k \in {nickOf[Me], Server} |-> NewUser]
  /\ chats \in {{SrvChat}, {SrvChat, Channel}}
  /\ entries = [c \in chats |-> <<>>]
  /\ patterns = {} /\ filterOn = {}
  /\ delivered = Nothing
  /\ unwanted = {}

MessagesNext ==
  \/ delivered = Nothing /\ \E c \in Contents :
       \/ \E p \in People, e \in UserEvents : OnUserEvent(p, e, c)
       \/ \E e \in ServerEvents : OnServerEvent(e, c)
       \/ OnMe(c)
  \/ delivered = Nothing /\ \E p \in People \ {Me} :
       \/ \E n \in Nicks : Rename(p, n) \/ Come(p, n)
       \/ JoinChannel(p)
       \/ \E net \in BOOLEAN : Leave(p, net)
  \/ \E n \in MarkedNicks \ {nickOf[Me]} : Ignore(n)
  \/ \E n \in Nicks \ {nickOf[Me]} : Unignore(n)
  \/ \E n \in MarkedNicks : Render(n)
  \/ \E p \in Patterns : Pattern(p)
  \/ \E c \in FilterChats : Filter(c, "p")  \* with "r" it would be no different
  \/ Look

MessagesSpec == MessagesInit /\ [][MessagesNext]_messageVars

MessagesTypeOK ==
  /\ seen \subseteq online /\ online \subseteq People
  /\ SrvChat \in chats /\ chats \subseteq {SrvChat, Channel} \cup Nicks
  /\ filterOn \subseteq chats \X Patterns
  /\ DOMAIN entries = chats
  /\ \A c \in chats : \A e \in Range(entries[c]) : ~e.left => e.nick \in DOMAIN userTable
  /\ \A k \in DOMAIN userTable : userTable[k].ignored \in BOOLEAN /\ userTable[k].render \subseteq {"r"}

-----------------------------------------------------------------------------
(* No message of whoever is ignored and stays in sight is shown, logged or *)
(* notified of, whichever event carries it, under whatever nick, and       *)
(* though others take the nicks he had - unless the chat still lists,      *)
(* ahead of him, somebody else who had his nick: srn_chat_add_and_get_user *)
(* then takes it for a message of that one.  The topic he sets is shown    *)
(* above the channel all the same: srn_chat_set_topic filters nothing.     *)
IgnoredUnheard ==
  delivered.who \in unwanted /\ delivered.kind # "topic" /\ ~delivered.namesake
    => ~delivered.shown /\ ~delivered.logged /\ ~delivered.notified

(* The log of a chat is what the chat shows: of what people say nothing is *)
(* logged that was filtered out, and nothing shown that is not logged.     *)
LogIsWhatWasShown ==
  delivered.kind \in UserKinds => delivered.logged = delivered.shown
=============================================================================
