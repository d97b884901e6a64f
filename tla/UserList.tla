------------------------------ MODULE UserList ------------------------------
(***************************************************************************)
(* The users of a channel as its buffer shows them (sui/sui_user_list.c,   *)
(* sui/sui_user.c; core/chat_user.c, core/server_user.c): a row for each   *)
(* that is joined, and counters of ranks that every change of a rank has   *)
(* to adjust, wherever it comes from.                                      *)
(*                                                                         *)
(* Owners, admins and full operators are counted together and are one rank *)
(* here.  The icons, the order of the rows and the menu are left out.      *)
(***************************************************************************)
EXTENDS Naturals, FiniteSets

CONSTANT Participants  \* the users of srv_user->chat_user_list and chat->user_list

ASSUME ParticipantsAssumption == IsFiniteSet(Participants)

Ranks == {"full_op", "half_op", "voiced", "chigua"}
Counted == Ranks \ {"chigua"}

VARIABLES
  rank,    \* SrnChatUser.type
  rowRank, \* SuiUser.type, which COL_TYPE of the row is a copy of
  inList,  \* users with a row: those with is_joined
  stat     \* user_stat

rankVars == <<rank, rowRank, inList, stat>>

UserListTypeOK ==
  /\ rank \in [Participants -> Ranks] /\ rowRank \in [Participants -> Ranks]
  /\ inList \subseteq Participants
  /\ stat.total \in Nat

UserListInit ==
  /\ rank = [u \in Participants |-> "chigua"]
  /\ rowRank = rank
  /\ inList = {}
  /\ stat = [total |-> 0, full_op |-> 0, half_op |-> 0, voiced |-> 0]

-----------------------------------------------------------------------------
(* The list as it is while one handler works on it. *)
List == [rank |-> rank, rowRank |-> rowRank, inList |-> inList, stat |-> stat]

Becomes(l) ==
  /\ rank' = l.rank /\ rowRank' = l.rowRank /\ inList' = l.inList /\ stat' = l.stat

(* sui_user_update: the counters follow a change of the rank. *)
Update(l, u) ==
  LET old == l.rowRank[u]
      new == l.rank[u]
      Change(r) == IF old = new THEN l.stat[r]
                   ELSE l.stat[r] + (IF r = new THEN 1 ELSE 0) - (IF r = old THEN 1 ELSE 0)
  IN  [l EXCEPT !.rowRank[u] = new,
                !.stat = [r \in DOMAIN @ |-> IF r = "total" THEN @.total ELSE Change(r)]]

(* sui_user_list_add_user *)
AddRow(l, u) == Update([l EXCEPT !.inList = @ \cup {u}, !.stat.total = @ + 1], u)

(* Mutant: without the hack "for correcting user statistic". *)
RankOfRemoved_Kept(r) == r

(* Whoever is removed has no rank any more. *)
RankOfRemoved(r) == "chigua"

(* sui_user_list_rm_user *)
RemoveRow(l, u) ==
  LET left == Update([l EXCEPT !.rank[u] = RankOfRemoved(@), !.stat.total = @ - 1], u)
  IN  [left EXCEPT !.inList = @ \ {u}]

(* srn_chat_user_set_is_joined *)
SetJoined(l, u, is) ==
  IF is = (u \in l.inList) THEN l ELSE IF is THEN AddRow(l, u) ELSE RemoveRow(l, u)

(* srn_chat_user_set_type: the row of a user that has none waits for it. *)
SetRank(l, u, r) ==
  LET set == [l EXCEPT !.rank[u] = r]
  IN  IF l.rank[u] = r \/ u \notin l.inList THEN set ELSE Update(set, u)

-----------------------------------------------------------------------------
(* What calls them.                                                        *)

(* irc_event_join *)
UserJoins(u) == Becomes(SetJoined(List, u, TRUE))

(* irc_event_part, irc_event_kick; irc_event_quit over all channels *)
UserLeaves(u) == Becomes(SetJoined(List, u, FALSE))

(* RPL_NAMREPLY *)
UserNamed(u, r) == Becomes(SetRank(SetJoined(List, u, TRUE), u, r))

(* irc_event_mode: the user that is its first parameter, whether in the    *)
(* channel or not; any mode taken leaves none.                             *)
UserMode(u, r) == Becomes(SetRank(List, u, r))

(* srn_server_user_update_chat_user, after a new nick; on_style_updated,   *)
(* over all rows, each by an iterator that takes its rank from COL_TYPE.   *)
UserUpdated(u) == u \in inList /\ Becomes(Update(List, u))

(* srn_chat_set_is_joined: the user list is gone through. *)
ChannelLeft ==
  /\ rank' = [u \in Participants |-> IF u \in inList THEN RankOfRemoved(rank[u]) ELSE rank[u]]
  /\ rowRank' = [u \in Participants |-> IF u \in inList THEN rank'[u] ELSE rowRank[u]]
  /\ inList' = {}
  /\ stat' = [r \in DOMAIN stat |->
                IF r = "total" THEN 0
                ELSE (stat[r] + Cardinality({u \in inList : rowRank'[u] = r}))
                       - Cardinality({u \in inList : rowRank[u] = r})]

UserListNext ==
  \/ \E u \in Participants :
       \/ UserJoins(u) \/ UserLeaves(u) \/ UserUpdated(u)
       \/ \E r \in Ranks : UserNamed(u, r) \/ UserMode(u, r)
  \/ ChannelLeft

UserListSpec == UserListInit /\ [][UserListNext]_rankVars

-----------------------------------------------------------------------------
(* In whichever order users come, go, get and lose ranks, those whose rank *)
(* changed while they had no row too: the counters above the list are what *)
(* its rows add up to, and each row shows the rank its user has.           *)
StatisticsAgree ==
  /\ stat.total = Cardinality(inList)
  /\ \A r \in Counted : stat[r] = Cardinality({u \in inList : rank[u] = r})
  /\ \A u \in inList : rowRank[u] = rank[u]
=============================================================================
