--------------------------- MODULE AlternateNick ---------------------------
(***************************************************************************)
(* How the client comes to a nick (core/user_config.c and the handlers of  *)
(* core/app_irc_event.c): while it is not registered it answers each       *)
(* "nickname in use" with the next alternate of its configured nick, and   *)
(* once registered it takes the configured nick back when whoever held it  *)
(* quits.                                                                  *)
(*                                                                         *)
(* A nick is a base and the underlines behind it; of the bases only the    *)
(* length and whether it is the configured one matter.  The server handles *)
(* the requests of a connection in order, its events arrive in order.      *)
(***************************************************************************)
EXTENDS Naturals, Sequences

CONSTANTS
  MaxChanges,  \* nicks that others take or leave
  MaxUserNicks,\* /nick commands
  MaxCuts      \* connections that are cut

Nick(base, n) == [base |-> base, lines |-> n]
Own(n) == Nick("cfg", n)
CfgLen == 3
NickLen(k) == (IF k.base = "short" THEN 2 ELSE 3) + k.lines

Alternates == {Own(n) : n \in 0..3}
Unlike == {Nick("short", 0), Nick("other", 0)}
HeldNicks == Alternates \cup {Nick("short", 0)}
AllNicks == Alternates \cup {Nick(b, n) : b \in {"short", "other"}, n \in 0..3}

VARIABLES
  own,       \* srv->user->nick
  reg,       \* srv->registered
  requests,  \* NICK commands under way to the server
  events,    \* what is under way from the server
  peerNick,  \* the server: the nick of this connection, <<>> before it has one
  taken,     \* the server: the nicks others hold, never all alternates
  spent,     \* counts the changes, user nicks and cuts
  due        \* history: the configured nick was given up by its holder, who
             \* was seen, while the client had an alternate with underlines

nickVars == <<own, reg, requests, events, peerNick, taken, spent, due>>

NickInit ==
  /\ own = Own(0) /\ reg = FALSE
  /\ requests = <<Own(0)>> /\ events = <<>>
  /\ peerNick = <<>>
  /\ taken \in {s \in SUBSET HeldNicks : ~(Alternates \subseteq s)}
  /\ spent = [changes |-> 0, user |-> 0, cuts |-> 0]
  /\ due = FALSE

-----------------------------------------------------------------------------
(* Mutant: what is given up is the underline, not the nick. *)
NextAlternate_Same(k) ==
  IF NickLen(k) >= CfgLen /\ NickLen(k) - CfgLen <= 2 THEN Nick(k.base, k.lines + 1) ELSE k

(* Mutant: the underlines are never given up. *)
NextAlternate_Endless(k) == Nick(k.base, k.lines + 1)

(* srn_user_config_get_next_alternate_nick.  The difference of the lengths *)
(* is unsigned: a nick shorter than the configured one is far longer.      *)
NextAlternate(k) ==
  IF NickLen(k) >= CfgLen /\ NickLen(k) - CfgLen <= 2 THEN Nick(k.base, k.lines + 1) ELSE Own(0)

(* Mutant: the second underline is forgotten. *)
IsAlternate_One(k) == k \in {Own(0), Own(1)}

(* srn_user_config_is_alternate_nick. *)
IsAlternate(k) == k \in {Own(0), Own(1), Own(2)}

-----------------------------------------------------------------------------
(* The server.                                                             *)

(* It refuses a nick that is taken; the first nick it accepts registers    *)
(* the connection, a later one is announced.                               *)
ServerHandlesNick ==
  /\ requests # <<>>
  /\ requests' = Tail(requests)
  /\ LET k == Head(requests)
     IN  IF k \in taken
           THEN events' = Append(events, [ev |-> "inuse", nick |-> k]) /\ UNCHANGED peerNick
           ELSE /\ peerNick' = k
                /\ events' = IF peerNick = <<>> THEN Append(events, [ev |-> "welcome", nick |-> k])
                             ELSE IF peerNick = k THEN events
                             ELSE Append(events, [ev |-> "nick", nick |-> k])
  /\ UNCHANGED <<own, reg, taken, spent, due>>

Change(what) == spent[what] < CASE what = "changes" -> MaxChanges
                                [] what = "user" -> MaxUserNicks
                                [] what = "cuts" -> MaxCuts
Spend(what) == spent' = [spent EXCEPT ![what] = @ + 1]

OtherTakes(k) ==
  /\ Change("changes") /\ Spend("changes")
  /\ k \notin taken /\ k # peerNick
  /\ taken' = taken \cup {k} /\ ~(Alternates \subseteq taken')
  /\ due' = IF k = Own(0) THEN FALSE ELSE due
  /\ UNCHANGED <<own, reg, requests, events, peerNick>>

(* The client hears of it when it shares a channel with the other. *)
OtherQuits(k, seen) ==
  /\ Change("changes") /\ Spend("changes")
  /\ k \in taken
  /\ taken' = taken \ {k}
  /\ events' = IF seen /\ peerNick # <<>> THEN Append(events, [ev |-> "quit", nick |-> k]) ELSE events
  /\ UNCHANGED <<own, reg, requests, peerNick, due>>

(* The connection is cut; the server may not have noticed when the client  *)
(* is back, and then its own ghost holds the nick.  A new connection asks  *)
(* for the nick of the last one.                                           *)
Reconnect(ghost) ==
  /\ Change("cuts") /\ Spend("cuts")
  /\ taken' = IF ghost /\ peerNick \in HeldNicks /\ ~(Alternates \subseteq taken \cup {peerNick})
              THEN taken \cup {peerNick} ELSE taken
  /\ peerNick' = <<>> /\ events' = <<>> /\ requests' = <<own>>
  /\ reg' = FALSE /\ due' = FALSE
  /\ UNCHANGED own

-----------------------------------------------------------------------------
(* The client.                                                             *)

Got(ev) == events # <<>> /\ Head(events).ev = ev /\ events' = Tail(events)

(* irc_event_welcome *)
OnWelcome ==
  /\ Got("welcome")
  /\ reg' = TRUE /\ own' = Head(events).nick
  /\ UNCHANGED <<requests, peerNick, taken, spent, due>>

(* irc_event_nick, of the own user *)
OnNick ==
  /\ Got("nick")
  /\ own' = Head(events).nick
  /\ due' = IF own' = Own(0) THEN FALSE ELSE due
  /\ UNCHANGED <<reg, requests, peerNick, taken, spent>>

(* ERR_NICKNAMEINUSE of irc_event_numeric *)
OnInUse ==
  /\ Got("inuse")
  /\ requests' = IF reg THEN requests ELSE Append(requests, NextAlternate(Head(events).nick))
  /\ due' = IF reg /\ Head(events).nick = Own(0) THEN FALSE ELSE due
  /\ UNCHANGED <<own, reg, peerNick, taken, spent>>

(* irc_event_quit, of a user the client knows *)
OnQuit ==
  /\ Got("quit")
  /\ LET back == Head(events).nick = Own(0) /\ IsAlternate(own)
     IN  requests' = IF back THEN Append(requests, Own(0)) ELSE requests
  /\ due' = (due \/ (Head(events).nick = Own(0) /\ own \in {Own(1), Own(2)}
                     /\ Own(0) \notin taken /\ requests = <<>>
                     /\ \A i \in 2..Len(events) : events[i].ev # "nick"))
  /\ UNCHANGED <<own, reg, peerNick, taken, spent>>

(* /nick *)
UserNick(k) ==
  /\ Change("user") /\ Spend("user")
  /\ requests' = Append(requests, k)
  /\ due' = FALSE
  /\ UNCHANGED <<own, reg, events, peerNick, taken>>

NickSystem == ServerHandlesNick \/ OnWelcome \/ OnNick \/ OnInUse \/ OnQuit

NickNext ==
  \/ NickSystem
  \/ \E k \in HeldNicks : OtherTakes(k) \/ \E seen \in BOOLEAN : OtherQuits(k, seen)
  \/ \E ghost \in BOOLEAN : Reconnect(ghost)
  \/ \E k \in {Own(0)} \cup Unlike : UserNick(k)

NickSpec == NickInit /\ [][NickNext]_nickVars /\ WF_nickVars(NickSystem)

NickTypeOK ==
  /\ own \in AllNicks /\ reg \in BOOLEAN
  /\ requests \in Seq(AllNicks)
  /\ peerNick = <<>> \/ peerNick \in AllNicks
  /\ taken \subseteq HeldNicks /\ ~(Alternates \subseteq taken)

-----------------------------------------------------------------------------
(* As long as one of the configured nick and its alternates is free, a     *)
(* connection that lasts is registered in the end, also when the user asks *)
(* for a nick in between that is refused, a short one included, which the  *)
(* comparison of the lengths takes for one far too long.                   *)
Registers == []<>reg

(* When the holder of the configured nick quits before the client's eyes   *)
(* and leaves it free, a client with one or two underlines has it back, or *)
(* someone else was faster.                                                *)
NickReclaimed == due ~> ~due

(* "When count of append underline more than twice, use the original nick":*)
(* what the client asks for while the user asks for nothing is a nick that *)
(* srn_user_config_is_alternate_nick knows.  In the code there is a third  *)
(* underline.                                                              *)
AlternatesAsDocumented == spent.user = 0 => \A i \in DOMAIN requests : IsAlternate(requests[i])
=============================================================================
