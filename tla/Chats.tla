-------------------------------- MODULE Chats --------------------------------
(***************************************************************************)
(* The chats and the users of one server: the table of SrnServerUser       *)
(* objects (core/server.c, core/server_user.c), the chats with their user  *)
(* lists (core/chat.c, core/chat_user.c) and the IRC events and commands   *)
(* that change them (core/app_irc_event.c, core/app_ui_event.c,            *)
(* core/chat_command.c).                                                   *)
(*                                                                         *)
(* Objects are identified by pointers in the code, nicks by strings; the   *)
(* model keeps both, because looking an object up by its nick in the hash  *)
(* table and looking a chat user up by its nick in a list may give         *)
(* different objects.  No two nicks differ by case only.                   *)
(*                                                                         *)
(* The peer is an IRC server that tells the truth in order: who is in the  *)
(* channels the user is in ("member"), which names are still to be listed  *)
(* after a JOIN ("listing").  It only reports users of those channels.     *)
(*                                                                         *)
(* The internal user srv->_user, which no message names, is left out.      *)
(***************************************************************************)
EXTENDS Naturals, Sequences, SequencesExt

CONSTANTS
  Users,      \* SrnServerUser objects: the bound on those alive at a time
  Me,         \* srv->user
  NoUser,     \* NULL
  Nicks,
  MyNick,     \* the configured nick
  Free,       \* the nick of a released object
  Channels,
  Dialogs,    \* the nicks that talk to the user in private, or he to them
  ServerChat  \* srv->chat

ASSUME UsersAssumption ==
  Me \in Users /\ NoUser \notin Users
ASSUME NicksAssumption ==
  MyNick \in Nicks /\ Free \notin Nicks /\ Dialogs \subseteq Nicks
ASSUME ChatsAssumption ==
  /\ Channels \cap Dialogs = {}
  /\ ServerChat \notin Channels \cup Dialogs

VARIABLES
  nick,     \* srv_user->nick
  table,    \* srv->user_table
  key,      \* who owns the memory of the key of an entry of the table
  list,     \* chat->user_list, in order; empty when there is no such chat
  joined,   \* the chats with chat->is_joined
  cur,      \* srv->cur_chat
  up,       \* registered with the peer
  inside,   \* the channels the peer has the user in
  member,   \* the other users of those channels, as the peer has told
  listing,  \* the names the peer has still to list after a JOIN
  taken     \* history: what renaming to a nick in use has done so far

client == <<nick, table, key, list, joined, cur, taken>>
peer   == <<up, inside, member, listing>>
vars   == <<client, peer>>

Chats == Channels \cup Dialogs \cup {ServerChat}

ChatUsers == [user : Users, joined : BOOLEAN]

TypeOK ==
  /\ nick \in [Users -> Nicks \cup {Free}]
  /\ table \in [Nicks -> Users \cup {NoUser}]
  /\ key \in [Nicks -> {"own", "orphan", "freed"}]
  /\ list \in [Chats -> Seq(ChatUsers)]
  /\ joined \subseteq Channels
  /\ cur \in Chats
  /\ up \in BOOLEAN
  /\ inside \subseteq Channels
  /\ member \in [Channels -> SUBSET Nicks]
  /\ listing \subseteq Channels \X Nicks
  /\ taken \in {"never", "orphaned", "freed"}

ChatUser(u) == [user |-> u, joined |-> FALSE]

(* srn_server_new and the server chat.                                     *)
Init ==
  /\ nick = [u \in Users |-> IF u = Me THEN MyNick ELSE Free]
  /\ table = [n \in Nicks |-> IF n = MyNick THEN Me ELSE NoUser]
  /\ key = [n \in Nicks |-> "own"]
  /\ list = [c \in Chats |-> IF c = ServerChat THEN <<ChatUser(Me)>> ELSE <<>>]
  /\ joined = {}
  /\ cur = ServerChat
  /\ up = FALSE
  /\ inside = {}
  /\ member = [c \in Channels |-> {}]
  /\ listing = {}
  /\ taken = "never"

-----------------------------------------------------------------------------
(* The table of users.                                                     *)

Open(c) == list[c] # <<>>

(* What g_hash_table_lookup can return: the memory of the key may have     *)
(* been released, and then the key may not be recognised any more.         *)
srn_server_get_user(n) ==
  IF table[n] # NoUser /\ key[n] = "freed" THEN {table[n], NoUser} ELSE {table[n]}

(* Some chat of these lists has a user that is this object.                *)
HasChatUser(ls, u) == \E c \in Chats : \E i \in DOMAIN ls[c] : ls[c][i].user = u

(* The objects that neither the table nor a chat knows any more: released, *)
(* or leaked for good.                                                     *)
Reclaim(nk, tb, ls) ==
  [u \in Users |->
     IF (\E n \in Nicks : tb[n] = u) \/ HasChatUser(ls, u) THEN nk[u] ELSE Free]

(* srn_server_add_and_get_user: u is the user with this nick, a new one if *)
(* the table has none.  The caller gives u the nick: see Reclaim.          *)
srn_server_add_and_get_user(n, u) ==
  \/ /\ u \in srn_server_get_user(n) \ {NoUser}
     /\ UNCHANGED <<table, key>>
  \/ /\ NoUser \in srn_server_get_user(n)
     /\ nick[u] = Free
     /\ table' = [table EXCEPT ![n] = u]
     /\ key' = [key EXCEPT ![n] = "own"]

Named(u, n) == [nick EXCEPT ![u] = n]

(* The object of a replaced entry is freed, unless it has chat users       *)
(* (srn_server_user_free).  The entry keeps the key of the old object.     *)
KeyAfterReplacing(n) ==
  IF key[n] # "own" THEN key[n]
  ELSE IF HasChatUser(list, table[n]) THEN "orphan" ELSE "freed"

(* Mutant: the entry of the old nick stays in the table. *)
srn_server_rename_user_NoSteal(u, o, n) ==
  /\ UNCHANGED <<key, taken>>
  /\ table' = [table EXCEPT ![n] = u]
  /\ nick' = Reclaim(Named(u, n), table', list)

(* g_hash_table_steal of the old nick, then g_hash_table_insert, which     *)
(* replaces the value of an entry that the new nick already has.           *)
srn_server_rename_user(u, o, n) ==
  LET stolen == [table EXCEPT ![o] = NoUser]
      inUse  == stolen[n] # NoUser
      k      == IF inUse THEN KeyAfterReplacing(n) ELSE "own"
  IN  /\ table' = [stolen EXCEPT ![n] = u]
      /\ key' = [key EXCEPT ![o] = "own", ![n] = k]
      /\ nick' = Reclaim(Named(u, n), table', list)
      /\ taken' = IF ~inUse THEN taken
                  ELSE IF k = "freed" \/ taken = "freed" THEN "freed" ELSE "orphaned"

(* The users of a chat.                                                    *)

(* Mutant: the same user is added again. *)
srn_chat_add_user_Again(l, u) == Append(l, ChatUser(u))

srn_chat_add_user(l, u) ==
  IF \E i \in DOMAIN l : l[i].user = u THEN l ELSE Append(l, ChatUser(u))

(* The first chat user of the list with this nick, 0 if there is none.     *)
srn_chat_get_user(l, nk, n) ==
  SelectInSeq(l, LAMBDA e : nk[e.user] = n)

(* What srn_chat_set_is_joined(chat, FALSE) makes of the list of a joined   *)
(* chat.                                                                   *)
Unjoined(l) == [i \in DOMAIN l |-> ChatUser(l[i].user)]

(* Mutant: the current chat is left without a successor. *)
srn_server_rm_chat_NullCurrent(c) ==
  /\ list' = [list EXCEPT ![c] = <<>>]
  /\ cur' = IF cur = c THEN NoUser ELSE cur

(* srn_server_rm_chat of a chat that is not joined *)
srn_server_rm_chat(c) ==
  /\ list' = [list EXCEPT ![c] = <<>>]
  /\ cur' = IF cur = c THEN ServerChat ELSE cur

(* srn_server_add_chat and srn_chat_new, with the target of a dialog; the  *)
(* user himself stands for none.                                           *)
WithChat(ls, c, u) ==
  IF ls[c] # <<>> THEN ls
  ELSE [ls EXCEPT ![c] = srn_chat_add_user(<<ChatUser(Me)>>, u)]

-----------------------------------------------------------------------------
(* Events of the peer, one operator per handler of app_irc_event.c.        *)

irc_event_join(n, c) ==
  \E u \in Users :
    /\ srn_server_add_and_get_user(n, u)
    /\ LET ls == IF u = Me THEN WithChat(list, c, Me) ELSE list
           l  == IF u = Me THEN ls[c] ELSE srn_chat_add_user(ls[c], u)
           i  == IF u = Me THEN 1 ELSE srn_chat_get_user(l, Named(u, n), n)
       IN  IF ls[c] = <<>>
             THEN UNCHANGED <<list, joined>>
             ELSE /\ list' = [ls EXCEPT ![c] = [l EXCEPT ![i].joined = TRUE]]
                  /\ joined' = IF u = Me THEN joined \cup {c} ELSE joined
    /\ nick' = Reclaim(Named(u, n), table', list')
    /\ UNCHANGED <<cur, taken>>

irc_event_part(n, c) ==
  LET i == srn_chat_get_user(list[c], nick, n)
  IN  /\ IF i = 0 \/ (i # 0 /\ ~list[c][i].joined)
           THEN UNCHANGED <<list, joined, cur, nick>>
           ELSE IF list[c][i].user = Me
             THEN /\ joined' = joined \ {c}
                  /\ srn_server_rm_chat(c)
                  /\ nick' = Reclaim(nick, table, list')
             ELSE /\ list' = [list EXCEPT ![c] = [@ EXCEPT ![i].joined = FALSE]]
                  /\ UNCHANGED <<joined, cur, nick>>
      /\ UNCHANGED <<table, key, taken>>

irc_event_kick(by, n, c) ==
  IF ~Open(c) THEN UNCHANGED client
  ELSE \E u \in Users :
    /\ srn_server_add_and_get_user(by, u)
    /\ LET l == srn_chat_add_user(list[c], u)
           i == srn_chat_get_user(l, Named(u, by), n)
           unjoined == IF i = 0 THEN l ELSE [l EXCEPT ![i].joined = FALSE]
       IN  IF i # 0 /\ l[i].user = Me
             THEN /\ joined' = joined \ {c}
                  /\ list' = [list EXCEPT ![c] =
                                 IF c \in joined THEN Unjoined(l) ELSE unjoined]
             ELSE list' = [list EXCEPT ![c] = unjoined] /\ UNCHANGED joined
    /\ nick' = Reclaim(Named(u, by), table', list')
    /\ UNCHANGED <<cur, taken>>

(* Mutant: the user who quit stays in the user lists. *)
irc_event_quit_Ignored(n) == UNCHANGED client

(* srn_server_user_set_is_online(srv_user, FALSE) *)
irc_event_quit(n) ==
  \E u \in srn_server_get_user(n) :
    /\ list' = [c \in Chats |-> [i \in DOMAIN list[c] |->
                  IF list[c][i].user = u THEN ChatUser(u) ELSE list[c][i]]]
    /\ UNCHANGED <<nick, table, key, joined, cur, taken>>

irc_event_nick(o, n) ==
  \E u \in srn_server_get_user(o) :
    /\ IF u = NoUser THEN UNCHANGED <<nick, table, key, taken>>
                     ELSE srn_server_rename_user(u, o, n)
    /\ UNCHANGED <<list, joined, cur>>

(* The nick the peer has assigned.  The own entry may not be found either. *)
irc_event_welcome(n) ==
  \E u \in srn_server_get_user(nick[Me]) :
    /\ IF u = NoUser THEN UNCHANGED <<nick, table, key, taken>>
                     ELSE srn_server_rename_user(Me, nick[Me], n)
    /\ UNCHANGED <<list, joined, cur>>

(* One name of RPL_NAMREPLY. *)
irc_event_numeric_NAMREPLY(n, c) ==
  IF ~Open(c) THEN UNCHANGED client
  ELSE \E u \in Users :
    /\ srn_server_add_and_get_user(n, u)
    /\ LET l == srn_chat_add_user(list[c], u)
       IN  list' = [list EXCEPT ![c] =
                      [l EXCEPT ![srn_chat_get_user(l, Named(u, n), n)].joined = TRUE]]
    /\ nick' = Reclaim(Named(u, n), table', list')
    /\ UNCHANGED <<joined, cur, taken>>

(* A message to a channel: its sender gets into the user list, unjoined.   *)
(* MODE, TOPIC and channel notices do the same.                            *)
irc_event_channel(n, c) ==
  IF ~Open(c) THEN UNCHANGED client
  ELSE \E u \in Users :
    /\ srn_server_add_and_get_user(n, u)
    /\ list' = [list EXCEPT ![c] = srn_chat_add_user(@, u)]
    /\ nick' = Reclaim(Named(u, n), table', list')
    /\ UNCHANGED <<joined, cur, taken>>

(* A private message or notice opens a dialog with its sender.             *)
irc_event_privmsg(n) ==
  \E u \in Users :
    /\ srn_server_add_and_get_user(n, u)
    /\ LET ls == WithChat(list, n, u)
       IN  list' = [ls EXCEPT ![n] = srn_chat_add_user(@, u)]
    /\ nick' = Reclaim(Named(u, n), table', list')
    /\ UNCHANGED <<joined, cur, taken>>

(* A CTCP request is shown in the dialog, or else in the server chat.      *)
irc_event_ctcp_req(n) ==
  \E u \in Users :
    /\ srn_server_add_and_get_user(n, u)
    /\ LET c == IF n \in Dialogs /\ Open(n) THEN n ELSE ServerChat
       IN  list' = [list EXCEPT ![c] = srn_chat_add_user(@, u)]
    /\ nick' = Reclaim(Named(u, n), table', list')
    /\ UNCHANGED <<joined, cur, taken>>

(* Mutant: the chats stay joined. *)
irc_event_disconnect_KeepChats == UNCHANGED client

(* Every chat of the list is marked as not joined. *)
irc_event_disconnect ==
  /\ list' = [c \in Chats |-> IF c \in joined THEN Unjoined(list[c]) ELSE list[c]]
  /\ joined' = {}
  /\ UNCHANGED <<nick, table, key, cur, taken>>

-----------------------------------------------------------------------------
(* Steps.  The peer does nothing else until the names of a channel that    *)
(* was joined are listed.                                                  *)

PeerTurn == up /\ listing = {}

(* The other users the peer has told of.                                   *)
Others == UNION {member[c] : c \in Channels}

Welcome(n) ==
  /\ ~up
  /\ up' = TRUE
  /\ irc_event_welcome(n)
  /\ UNCHANGED <<inside, member, listing>>

Disconnect ==
  /\ up
  /\ up' = FALSE
  /\ inside' = {}
  /\ member' = [c \in Channels |-> {}]
  /\ listing' = {}
  /\ irc_event_disconnect

SelfJoin(c) ==
  /\ PeerTurn
  /\ c \notin inside
  /\ inside' = inside \cup {c}
  /\ \E S \in SUBSET (Nicks \ {nick[Me]}) :
       /\ member' = [member EXCEPT ![c] = S]
       /\ listing' = {c} \X (S \cup {nick[Me]})
  /\ irc_event_join(nick[Me], c)
  /\ UNCHANGED up

Names ==
  \E e \in listing :
    /\ listing' = listing \ {e}
    /\ irc_event_numeric_NAMREPLY(e[2], e[1])
    /\ UNCHANGED <<up, inside, member>>

Join(n, c) ==
  /\ PeerTurn
  /\ c \in inside
  /\ n \notin member[c] \cup {nick[Me]}
  /\ member' = [member EXCEPT ![c] = @ \cup {n}]
  /\ irc_event_join(n, c)
  /\ UNCHANGED <<up, inside, listing>>

Leaves(n, c) ==
  IF n = nick[Me]
    THEN /\ inside' = inside \ {c}
         /\ member' = [member EXCEPT ![c] = {}]
    ELSE /\ member' = [member EXCEPT ![c] = @ \ {n}]
         /\ UNCHANGED inside

Part(n, c) ==
  /\ PeerTurn
  /\ c \in inside
  /\ n \in member[c] \cup {nick[Me]}
  /\ Leaves(n, c)
  /\ irc_event_part(n, c)
  /\ UNCHANGED <<up, listing>>

Kick(by, n, c) ==
  /\ PeerTurn
  /\ c \in inside
  /\ {by, n} \subseteq member[c] \cup {nick[Me]}
  /\ Leaves(n, c)
  /\ irc_event_kick(by, n, c)
  /\ UNCHANGED <<up, listing>>

Quit(n) ==
  /\ PeerTurn
  /\ n \in Others
  /\ member' = [c \in Channels |-> member[c] \ {n}]
  /\ irc_event_quit(n)
  /\ UNCHANGED <<up, inside, listing>>

(* A user of a common channel, or the user himself, takes an unused nick.  *)
Nick(o, n) ==
  /\ PeerTurn
  /\ o \in Others \cup {nick[Me]}
  /\ n \notin Others \cup {nick[Me]}
  /\ member' = [c \in Channels |->
       IF o \in member[c] THEN (member[c] \ {o}) \cup {n} ELSE member[c]]
  /\ irc_event_nick(o, n)
  /\ UNCHANGED <<up, inside, listing>>

ChannelMessage(n, c) ==
  /\ PeerTurn
  /\ c \in inside
  /\ n # nick[Me]
  /\ irc_event_channel(n, c)
  /\ UNCHANGED peer

PrivateMessage(n) ==
  /\ PeerTurn
  /\ n \in Dialogs \ {nick[Me]}
  /\ irc_event_privmsg(n)
  /\ UNCHANGED peer

CtcpRequest(n) ==
  /\ PeerTurn
  /\ n # nick[Me]
  /\ irc_event_ctcp_req(n)
  /\ UNCHANGED peer

(* /query: the dialog is opened with whoever the table has for the nick.   *)
Query(n) ==
  /\ ~Open(n)
  /\ \E u \in Users :
       /\ srn_server_add_and_get_user(n, u)
       /\ list' = WithChat(list, n, u)
       /\ nick' = Reclaim(Named(u, n), table', list')
  /\ UNCHANGED <<joined, cur, taken>>
  /\ UNCHANGED peer

(* ui_event_part of a chat that is not joined, ui_event_unquery, /unquery. *)
Close(c) ==
  /\ Open(c)
  /\ c \notin joined
  /\ srn_server_rm_chat(c)
  /\ nick' = Reclaim(nick, table, list')
  /\ UNCHANGED <<table, key, joined, taken>>
  /\ UNCHANGED peer

ui_event_cutover(c) ==
  /\ Open(c)
  /\ cur' = c
  /\ UNCHANGED <<nick, table, key, list, joined, taken>>
  /\ UNCHANGED peer

Next ==
  \/ \E n \in Nicks : Welcome(n)
  \/ Disconnect
  \/ \E c \in Channels : SelfJoin(c)
  \/ Names
  \/ \E n \in Nicks, c \in Channels :
       Join(n, c) \/ Part(n, c) \/ ChannelMessage(n, c)
  \/ \E by, n \in Nicks, c \in Channels : Kick(by, n, c)
  \/ \E n \in Nicks : Quit(n)
  \/ \E o, n \in Nicks : Nick(o, n)
  \/ \E n \in Dialogs : PrivateMessage(n) \/ CtcpRequest(n)
  \/ \E n \in Dialogs : Query(n)
  \/ \E c \in Channels \cup Dialogs : Close(c)
  \/ \E c \in Chats : ui_event_cutover(c)

Spec == Init /\ [][Next]_vars

-----------------------------------------------------------------------------
(* The objects that pointers lead to.                                      *)

(* No pointer leads to a released object or to a closed chat: the table,   *)
(* the chat users, srv->user and srv->cur_chat.  The user himself is the   *)
(* first in every user list and keeps his entry of the table, if the table *)
(* still recognises its keys.                                              *)
PointersLive ==
  /\ nick[Me] # Free
  /\ \A n \in Nicks : table[n] # NoUser => nick[table[n]] = n
  /\ \A c \in Chats : \A i \in DOMAIN list[c] : nick[list[c][i].user] # Free
  /\ \A c \in Chats : Open(c) => list[c][1].user = Me
  /\ Open(cur)
  /\ taken # "freed" => table[nick[Me]] = Me

(* A user is at most once in the user list of a chat.                      *)
NoDoubleEntry ==
  \A c \in Chats : \A i, j \in DOMAIN list[c] :
    list[c][i].user = list[c][j].user => i = j

(* chat->is_joined, which decides between PART and removing the chat, is   *)
(* true exactly for the channels the peer has the user in, and a chat that *)
(* is not joined shows nobody as joined.                                   *)
JoinedMatchesPeer ==
  taken # "freed" =>
    /\ joined = inside
    /\ \A c \in Chats \ joined : \A i \in DOMAIN list[c] : ~list[c][i].joined

(* The nicks shown in the user list of a chat. *)
Shown(c) == {nick[list[c][i].user] : i \in {j \in DOMAIN list[c] : list[c][j].joined}}

(* The user list shows exactly the users that the peer has told of, once   *)
(* the names are listed - as long as nobody took over the nick of a user   *)
(* the table remembers.                                                    *)
RosterExact ==
  taken = "never" =>
    \A c \in inside :
      {n \in Nicks : <<c, n>> \in listing} = {}
        => Shown(c) = member[c] \cup {nick[Me]}

-----------------------------------------------------------------------------
(* What the code asserts and does not ensure.                              *)

(* irc_event_part, app_irc_event.c:603: the chat user found for someone    *)
(* who leaves is joined.                                                   *)
LeaverIsJoined ==
  \A c \in inside : \A n \in member[c] :
    listing = {} =>
      LET i == srn_chat_get_user(list[c], nick, n)
      IN  i # 0 /\ list[c][i].joined

=============================================================================
