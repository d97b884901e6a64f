---------------------------- MODULE ChatsProofs ----------------------------
(***************************************************************************)
(* The invariants of Chats, for every set of objects, nicks and channels.  *)
(*                                                                         *)
(* The objects and the entries of the table are a heap: an entry leads to  *)
(* an object that has its nick, a listed object is alive.  Each handler is *)
(* shown to keep that, and described by what it does to the set of objects *)
(* that a chat shows as joined; an action then relates that set to what    *)
(* the peer has told.  What the client shows is only right as long as a    *)
(* lookup finds the listed object of a nick, which holds until somebody    *)
(* takes over the nick of a user the table remembers.                      *)
(***************************************************************************)
EXTENDS Chats, WellFoundedInduction, TLAPS

(* The objects in a user list. *)
UsersOf(l) == {l[i].user : i \in DOMAIN l}

(* Those of them who are shown as joined. *)
Joins(l) == {l[i].user : i \in {j \in DOMAIN l : l[j].joined}}

(* A user list that is closed, or begins with the user himself. *)
GoodList(l) ==
  /\ l \in Seq(ChatUsers)
  /\ l # <<>> => l[1].user = Me
  /\ \A i, j \in DOMAIN l : l[i].user = l[j].user => i = j

-----------------------------------------------------------------------------
(* User lists.                                                             *)

LEMMA NewChatUser == \A u \in Users : ChatUser(u) \in ChatUsers /\ ChatUser(u).user = u /\ ChatUser(u).joined = FALSE
BY DEF ChatUser, ChatUsers

LEMMA OwnList == GoodList(<<ChatUser(Me)>>) /\ UsersOf(<<ChatUser(Me)>>) = {Me} /\ <<ChatUser(Me)>> # <<>>
BY UsersAssumption, NewChatUser DEF GoodList, UsersOf

(* What a list holds. *)
LEMMA ListUsers ==
  ASSUME NEW l, GoodList(l)
  PROVE  /\ \A i \in DOMAIN l : l[i] \in ChatUsers /\ l[i].user \in Users /\ l[i].joined \in BOOLEAN
         /\ UsersOf(l) \subseteq Users
         /\ l # <<>> => 1 \in DOMAIN l /\ Me \in UsersOf(l)
<1>1. l \in Seq(ChatUsers) /\ DOMAIN l = 1..Len(l) /\ Len(l) \in Nat
  BY DEF GoodList
<1>2. \A i \in DOMAIN l : l[i] \in ChatUsers /\ l[i].user \in Users /\ l[i].joined \in BOOLEAN
  <2>1. \A r \in ChatUsers : r.user \in Users /\ r.joined \in BOOLEAN
    BY DEF ChatUsers
  <2> QED BY <1>1, <2>1
<1>3. UsersOf(l) \subseteq Users
  BY <1>2 DEF UsersOf
<1>4. l # <<>> => 1 \in DOMAIN l
  BY <1>1
<1>5. l # <<>> => Me \in UsersOf(l)
  BY <1>4 DEF GoodList, UsersOf
<1> QED BY <1>2, <1>3, <1>4, <1>5

(* A map over the list that keeps the users. *)
LEMMA Mapped ==
  ASSUME NEW l, GoodList(l), NEW m, DOMAIN m = DOMAIN l, m = [i \in DOMAIN l |-> m[i]],
         \A i \in DOMAIN l : m[i] \in ChatUsers /\ m[i].user = l[i].user
  PROVE  GoodList(m) /\ UsersOf(m) = UsersOf(l) /\ (m = <<>> <=> l = <<>>) /\ Len(m) = Len(l)
<1>1. l \in Seq(ChatUsers) /\ DOMAIN l = 1..Len(l) /\ Len(l) \in Nat
  BY DEF GoodList
<1>2. m \in Seq(ChatUsers) /\ Len(m) = Len(l)
  BY <1>1
<1>3. m = <<>> <=> l = <<>>
  BY <1>1, <1>2
<1>4. UsersOf(m) = UsersOf(l)
  BY DEF UsersOf
<1>5. GoodList(m)
  BY <1>1, <1>2, <1>3 DEF GoodList
<1> QED BY <1>2, <1>3, <1>4, <1>5

(* Joining and parting change nobody's place, whoever is found. *)
LEMMA Flagged ==
  ASSUME NEW l, GoodList(l), NEW i, NEW b \in BOOLEAN
  PROVE  LET m == [l EXCEPT ![i].joined = b]
         IN  /\ GoodList(m) /\ UsersOf(m) = UsersOf(l) /\ (m = <<>> <=> l = <<>>)
             /\ Len(m) = Len(l)
             /\ \A j \in DOMAIN l : /\ m[j].user = l[j].user
                                    /\ m[j].joined = IF j = i THEN b ELSE l[j].joined
<1> DEFINE m == [l EXCEPT ![i].joined = b]
<1>1. l \in Seq(ChatUsers) /\ DOMAIN l = 1..Len(l)
  BY DEF GoodList
<1>2. DOMAIN m = DOMAIN l
  OBVIOUS
<1>3. \A j \in DOMAIN l : l[j] \in ChatUsers
  BY <1>1
<1>4. \A j \in DOMAIN l : m[j] \in ChatUsers /\ m[j].user = l[j].user
                            /\ m[j].joined = IF j = i THEN b ELSE l[j].joined
  BY <1>3 DEF ChatUsers
<1>5. m = [j \in DOMAIN l |-> m[j]]
  OBVIOUS
<1> HIDE DEF m
<1>6. GoodList(m) /\ UsersOf(m) = UsersOf(l) /\ (m = <<>> <=> l = <<>>) /\ Len(m) = Len(l)
  BY <1>2, <1>4, <1>5, Mapped
<1> QED BY <1>4, <1>6 DEF m

LEMMA Added ==
  ASSUME NEW l, GoodList(l), l # <<>>, NEW u \in Users
  PROVE  LET m == srn_chat_add_user(l, u)
         IN  /\ GoodList(m) /\ UsersOf(m) = UsersOf(l) \cup {u} /\ m # <<>>
             /\ Len(l) <= Len(m)
             /\ \A i \in DOMAIN l : i \in DOMAIN m /\ m[i] = l[i]
             /\ \A i \in DOMAIN m \ DOMAIN l : m[i] = ChatUser(u)
<1> DEFINE m == srn_chat_add_user(l, u)
<1>1. l \in Seq(ChatUsers) /\ DOMAIN l = 1..Len(l) /\ Len(l) \in Nat /\ Len(l) >= 1
  BY DEF GoodList
<1>2. CASE \E i \in DOMAIN l : l[i].user = u
  <2>1. m = l
    BY <1>2 DEF srn_chat_add_user
  <2>2. u \in UsersOf(l)
    BY <1>2 DEF UsersOf
  <2> QED BY <1>1, <2>1, <2>2
<1>3. CASE ~\E i \in DOMAIN l : l[i].user = u
  <2>1. m = Append(l, ChatUser(u))
    BY <1>3 DEF srn_chat_add_user
  <2>2. ChatUser(u) \in ChatUsers /\ ChatUser(u).user = u
    BY NewChatUser
  <2>3. /\ m \in Seq(ChatUsers) /\ Len(m) = Len(l) + 1 /\ DOMAIN m = 1..Len(m)
        /\ \A i \in DOMAIN l : i \in DOMAIN m /\ m[i] = l[i]
        /\ m[Len(l) + 1] = ChatUser(u)
    BY <1>1, <2>1, <2>2
  <2> HIDE DEF m
  <2>4. \A i \in DOMAIN m \ DOMAIN l : i = Len(l) + 1
    BY <1>1, <2>3
  <2>5. UsersOf(m) = UsersOf(l) \cup {u}
    <3>1. \A i \in DOMAIN m : m[i].user \in UsersOf(l) \cup {u}
      BY <2>2, <2>3, <2>4 DEF UsersOf
    <3>2. \A i \in DOMAIN l : l[i].user = m[i].user /\ i \in DOMAIN m
      BY <2>3
    <3>3. u = m[Len(l) + 1].user /\ Len(l) + 1 \in DOMAIN m
      BY <1>1, <2>2, <2>3
    <3> QED BY <3>1, <3>2, <3>3 DEF UsersOf
  <2>6. m[1].user = Me /\ m # <<>>
    BY <1>1, <2>3 DEF GoodList
  <2>7. ASSUME NEW i \in DOMAIN m, NEW j \in DOMAIN m, m[i].user = m[j].user
        PROVE  i = j
    <3>1. CASE i \in DOMAIN l /\ j \in DOMAIN l
      BY <2>3, <2>7, <3>1 DEF GoodList
    <3>2. CASE i \notin DOMAIN l /\ j \in DOMAIN l
      BY <1>3, <2>2, <2>3, <2>4, <2>7, <3>2
    <3>3. CASE i \in DOMAIN l /\ j \notin DOMAIN l
      BY <1>3, <2>2, <2>3, <2>4, <2>7, <3>3
    <3>4. CASE i \notin DOMAIN l /\ j \notin DOMAIN l
      BY <2>4, <3>4
    <3> QED BY <3>1, <3>2, <3>3, <3>4
  <2>8. GoodList(m)
    BY <2>3, <2>6, <2>7 DEF GoodList
  <2> QED BY <1>1, <2>3, <2>4, <2>5, <2>6, <2>8 DEF m
<1> QED BY <1>2, <1>3

(* What happens to those joined. *)
LEMMA AddedJoins ==
  ASSUME NEW l, GoodList(l), l # <<>>, NEW u \in Users
  PROVE  Joins(srn_chat_add_user(l, u)) = Joins(l)
<1> DEFINE m == srn_chat_add_user(l, u)
<1>1. /\ \A i \in DOMAIN l : i \in DOMAIN m /\ m[i] = l[i]
      /\ \A i \in DOMAIN m \ DOMAIN l : m[i] = ChatUser(u)
  BY Added
<1> HIDE DEF m
<1>2. \A i \in DOMAIN m : m[i].joined <=> i \in DOMAIN l /\ l[i].joined
  BY <1>1, NewChatUser
<1>3. Joins(m) = Joins(l)
  BY <1>1, <1>2 DEF Joins
<1> QED BY <1>3 DEF m

LEMMA FlaggedJoins ==
  ASSUME NEW l, GoodList(l), NEW i, NEW b \in BOOLEAN
  PROVE  LET m == [l EXCEPT ![i].joined = b]
         IN  /\ i \notin DOMAIN l => Joins(m) = Joins(l)
             /\ i \in DOMAIN l /\ b => Joins(m) = Joins(l) \cup {l[i].user}
             /\ i \in DOMAIN l /\ ~b => Joins(m) = Joins(l) \ {l[i].user}
<1> DEFINE m == [l EXCEPT ![i].joined = b]
<1>1. DOMAIN m = DOMAIN l
  OBVIOUS
<1>2. \A j \in DOMAIN l : m[j].user = l[j].user /\ m[j].joined = IF j = i THEN b ELSE l[j].joined
  BY Flagged
<1> HIDE DEF m
<1>3. ASSUME i \notin DOMAIN l PROVE Joins(m) = Joins(l)
  BY <1>1, <1>2, <1>3 DEF Joins
<1>4. ASSUME i \in DOMAIN l, b PROVE Joins(m) = Joins(l) \cup {l[i].user}
  BY <1>1, <1>2, <1>4 DEF Joins
<1>5. ASSUME i \in DOMAIN l, ~b PROVE Joins(m) = Joins(l) \ {l[i].user}
  <2>1. \A j \in DOMAIN l : l[j].user = l[i].user => j = i
    BY <1>5 DEF GoodList
  <2>2. \A u : u \in Joins(m) <=> \E j \in DOMAIN l : j # i /\ l[j].joined /\ u = l[j].user
    BY <1>1, <1>2, <1>5 DEF Joins
  <2>3. \A u : u \in Joins(l) \ {l[i].user} <=> \E j \in DOMAIN l : j # i /\ l[j].joined /\ u = l[j].user
    BY <2>1 DEF Joins
  <2> QED BY <2>2, <2>3
<1> QED BY <1>3, <1>4, <1>5 DEF m

LEMMA UnjoinedList ==
  ASSUME NEW l, GoodList(l)
  PROVE  LET m == Unjoined(l)
         IN  /\ GoodList(m) /\ UsersOf(m) = UsersOf(l) /\ (m = <<>> <=> l = <<>>)
             /\ Joins(m) = {}
<1> DEFINE m == Unjoined(l)
<1>1. m = [i \in DOMAIN l |-> ChatUser(l[i].user)]
  BY DEF Unjoined
<1>2. \A i \in DOMAIN l : l[i].user \in Users
  BY ListUsers
<1> HIDE DEF m
<1>3. DOMAIN m = DOMAIN l /\ \A i \in DOMAIN l : m[i] = ChatUser(l[i].user)
  BY <1>1
<1>4. \A i \in DOMAIN l : m[i] \in ChatUsers /\ m[i].user = l[i].user /\ ~m[i].joined
  BY <1>2, <1>3, NewChatUser
<1>5. m = [i \in DOMAIN l |-> m[i]]
  BY <1>1
<1>6. GoodList(m) /\ UsersOf(m) = UsersOf(l) /\ (m = <<>> <=> l = <<>>)
  BY <1>3, <1>4, <1>5, Mapped
<1>7. Joins(m) = {}
  BY <1>3, <1>4 DEF Joins
<1> QED BY <1>6, <1>7 DEF m

(* One who quits everywhere. *)
QuitFrom(l, u) == [i \in DOMAIN l |-> IF l[i].user = u THEN ChatUser(u) ELSE l[i]]

LEMMA QuitList ==
  ASSUME NEW l, GoodList(l), NEW u
  PROVE  LET m == QuitFrom(l, u)
         IN  /\ GoodList(m) /\ UsersOf(m) = UsersOf(l) /\ (m = <<>> <=> l = <<>>)
             /\ Joins(m) = Joins(l) \ {u}
<1> DEFINE m == QuitFrom(l, u)
<1>1. m = [i \in DOMAIN l |-> IF l[i].user = u THEN ChatUser(u) ELSE l[i]]
  BY DEF QuitFrom
<1>2. \A i \in DOMAIN l : l[i] \in ChatUsers /\ l[i].user \in Users
  BY ListUsers
<1> HIDE DEF m
<1>3. DOMAIN m = DOMAIN l /\ \A i \in DOMAIN l : m[i] = IF l[i].user = u THEN ChatUser(u) ELSE l[i]
  BY <1>1
<1>4. \A i \in DOMAIN l : /\ m[i] \in ChatUsers /\ m[i].user = l[i].user
                          /\ m[i].joined <=> l[i].user # u /\ l[i].joined
  BY <1>2, <1>3, NewChatUser
<1>5. m = [i \in DOMAIN l |-> m[i]]
  BY <1>1
<1>6. GoodList(m) /\ UsersOf(m) = UsersOf(l) /\ (m = <<>> <=> l = <<>>)
  BY <1>3, <1>4, <1>5, Mapped
<1>7. Joins(m) = Joins(l) \ {u}
  BY <1>3, <1>4 DEF Joins
<1> QED BY <1>6, <1>7 DEF m

(* Whom a nick finds in a list. *)
LEMMA Least ==
  ASSUME NEW I \in SUBSET Nat, I # {}
  PROVE  Min(I) \in I /\ \A i \in I : Min(I) <= i
<1>1. \E i \in I : \A j \in I : <<j, i>> \notin OpToRel(<, Nat)
  BY NatLessThanWellFounded, WFMin
<1>2. PICK i \in I : \A j \in I : ~(j < i)
  BY <1>1 DEF OpToRel
<1>3. \A j \in I : i <= j
  BY <1>2
<1> QED BY <1>3 DEF Min

LEMMA FirstFound ==
  ASSUME NEW l, GoodList(l), NEW nk, NEW n
  PROVE  LET i == srn_chat_get_user(l, nk, n)
         IN  /\ i = 0 => \A u \in UsersOf(l) : nk[u] # n
             /\ i # 0 => i \in DOMAIN l /\ nk[l[i].user] = n
             /\ l # <<>> /\ nk[Me] = n => i = 1
<1> DEFINE I == {i \in 1..Len(l) : nk[l[i].user] = n}
           f == srn_chat_get_user(l, nk, n)
<1>1. f = IF I # {} THEN Min(I) ELSE 0
  BY DEF srn_chat_get_user, SelectInSeq
<1>2. l \in Seq(ChatUsers) /\ DOMAIN l = 1..Len(l) /\ Len(l) \in Nat
  BY DEF GoodList
<1>3. I \in SUBSET Nat /\ I \subseteq DOMAIN l /\ 0 \notin I /\ \A i \in I : nk[l[i].user] = n /\ 1 <= i
  BY <1>2
<1>4. \A i \in DOMAIN l : nk[l[i].user] = n => i \in I
  BY <1>2
<1> HIDE DEF I, f
<1>5. CASE I = {}
  <2>1. \A u \in UsersOf(l) : nk[u] # n
    BY <1>4, <1>5 DEF UsersOf
  <2>2. ~(l # <<>> /\ nk[Me] = n)
    BY <1>2, <1>4, <1>5 DEF GoodList
  <2> QED BY <1>1, <1>5, <2>1, <2>2 DEF f
<1>6. CASE I # {}
  <2>1. f \in I /\ \A i \in I : f <= i
    BY <1>1, <1>3, <1>6, Least
  <2>2. f # 0 /\ f \in DOMAIN l /\ nk[l[f].user] = n
    BY <1>3, <2>1
  <2>3. ASSUME l # <<>>, nk[Me] = n
        PROVE  f = 1
    <3>1. 1 \in I
      BY <1>2, <1>4, <2>3 DEF GoodList
    <3> QED BY <1>3, <2>1, <3>1
  <2> QED BY <2>2, <2>3 DEF f
<1> QED BY <1>5, <1>6

-----------------------------------------------------------------------------
(* The objects.                                                            *)

GoodLists(ls) ==
  /\ ls = [c \in Chats |-> ls[c]]
  /\ \A c \in Chats : GoodList(ls[c])
  /\ ls[ServerChat] # <<>>

(* The table leads from a nick to the object that has it, and only live    *)
(* objects are in user lists.                                              *)
Heap(nk, tb, ls) ==
  /\ nk \in [Users -> Nicks \cup {Free}]
  /\ tb \in [Nicks -> Users \cup {NoUser}]
  /\ \A n \in Nicks : tb[n] # NoUser => nk[tb[n]] = n
  /\ \A c \in Chats : \A u \in UsersOf(ls[c]) : nk[u] # Free

(* While no key is dangling, every lookup finds what it should, and the    *)
(* user himself is found under his nick.                                   *)
KeysKnown ==
  /\ \A n \in Nicks : key[n] # "freed"
  /\ table[nick[Me]] = Me

ClientOK ==
  /\ Heap(nick, table, list)
  /\ GoodLists(list)
  /\ key \in [Nicks -> {"own", "orphan", "freed"}]
  /\ joined \subseteq Channels
  /\ cur \in Chats /\ Open(cur)
  /\ taken \in {"never", "orphaned", "freed"}
  /\ taken # "freed" => KeysKnown

PeerTypeOK ==
  /\ up \in BOOLEAN
  /\ inside \subseteq Channels
  /\ member \in [Channels -> SUBSET Nicks]
  /\ listing \subseteq Channels \X Nicks

LEMMA ChatKinds ==
  /\ ServerChat \in Chats /\ Channels \subseteq Chats /\ Dialogs \subseteq Chats
  /\ ServerChat \notin Channels /\ ServerChat \notin Dialogs
  /\ \A c \in Dialogs : c \notin Channels /\ c \in Nicks
BY ChatsAssumption, NicksAssumption DEF Chats

LEMMA OwnInServerChat ==
  ASSUME NEW ls, GoodLists(ls)
  PROVE  Me \in UsersOf(ls[ServerChat])
BY ListUsers, ChatKinds DEF GoodLists

LEMMA InLists == \A ls, u : HasChatUser(ls, u) <=> \E c \in Chats : u \in UsersOf(ls[c])
BY DEF HasChatUser, UsersOf

(* Releasing what nobody knows leaves the heap as it should be. *)
LEMMA Reclaimed ==
  ASSUME NEW nk, NEW tb, NEW ls, Heap(nk, tb, ls), GoodLists(ls)
  PROVE  LET mk == Reclaim(nk, tb, ls)
         IN  /\ Heap(mk, tb, ls)
             /\ \A c \in Chats : \A u \in UsersOf(ls[c]) : mk[u] = nk[u]
             /\ \A n \in Nicks : tb[n] # NoUser => mk[tb[n]] = nk[tb[n]]
             /\ \A u \in Users : mk[u] = nk[u] \/ mk[u] = Free
<1> DEFINE mk == Reclaim(nk, tb, ls)
<1>1. mk \in [Users -> Nicks \cup {Free}]
  BY DEF Heap, Reclaim
<1>2. \A u \in Users : mk[u] = IF (\E n \in Nicks : tb[n] = u) \/ HasChatUser(ls, u) THEN nk[u] ELSE Free
  BY DEF Reclaim
<1> HIDE DEF mk
<1>3. ASSUME NEW c \in Chats, NEW u \in UsersOf(ls[c])
      PROVE  mk[u] = nk[u]
  <2>1. u \in Users
    BY ListUsers DEF GoodLists
  <2>2. HasChatUser(ls, u)
    BY InLists
  <2> QED BY <1>2, <2>1, <2>2
<1>4. ASSUME NEW n \in Nicks, tb[n] # NoUser
      PROVE  mk[tb[n]] = nk[tb[n]]
  <2>1. tb[n] \in Users
    BY <1>4 DEF Heap
  <2> QED BY <1>2, <2>1
<1>5. Heap(mk, tb, ls)
  BY <1>1, <1>3, <1>4 DEF Heap
<1> QED BY <1>2, <1>3, <1>4, <1>5 DEF mk

-----------------------------------------------------------------------------
(* A line names a user, who is looked up or made.                          *)

(* Every listed user is the one the table has for his nick.               *)
Known == \A c \in Chats : \A v \in UsersOf(list[c]) : table[nick[v]] = v

NicksKept ==
  /\ nick'[Me] = nick[Me]
  /\ \A c \in Chats : \A v \in UsersOf(list[c]) : nick'[v] = nick[v]

(* What every event has in common that only names a user.                  *)
ToldOf ==
  /\ ClientOK'
  /\ NicksKept
  /\ taken' = taken
  /\ taken = "never" /\ Known => Known'

LEMMA UnchangedClient == ClientOK /\ UNCHANGED client => ToldOf
BY DEF client, ClientOK, Heap, GoodLists, KeysKnown, Open, ToldOf, NicksKept, Known

LEMMA Found ==
  ASSUME ClientOK, NEW n \in Nicks, NEW u \in Users, srn_server_add_and_get_user(n, u)
  PROVE  /\ table' \in [Nicks -> Users \cup {NoUser}]
         /\ key' \in [Nicks -> {"own", "orphan", "freed"}]
         /\ table'[n] = u /\ \A m \in Nicks \ {n} : table'[m] = table[m]
         /\ \A m \in Nicks : key[m] # "freed" => key'[m] # "freed"
         /\ nick[u] = n \/ nick[u] = Free
         /\ table[n] = u \/ nick[u] = Free
         /\ taken # "freed" => table[n] \in {u, NoUser}
<1> USE DEF ClientOK, Heap
<1>1. CASE u \in srn_server_get_user(n) \ {NoUser} /\ UNCHANGED <<table, key>>
  <2>1. table[n] = u
    BY <1>1 DEF srn_server_get_user
  <2>2. u # NoUser
    BY UsersAssumption
  <2> QED BY <1>1, <2>1, <2>2
<1>2. CASE /\ NoUser \in srn_server_get_user(n)
           /\ nick[u] = Free
           /\ table' = [table EXCEPT ![n] = u]
           /\ key' = [key EXCEPT ![n] = "own"]
  <2>1. taken # "freed" => table[n] = NoUser
    BY <1>2 DEF srn_server_get_user, KeysKnown
  <2> QED BY <1>2, <2>1
<1> QED BY <1>1, <1>2 DEF srn_server_add_and_get_user

(* Whatever the lists become, if they only get the named user and the user *)
(* himself more.                                                           *)
Grown(u) ==
  /\ GoodLists(list')
  /\ \A c \in Chats : /\ UsersOf(list[c]) \subseteq UsersOf(list'[c])
                      /\ UsersOf(list'[c]) \subseteq UsersOf(list[c]) \cup {u, Me}
  /\ list'[cur] # <<>>

(* The end of a handler that has found u under the nick n. *)
Ends(n, u) ==
  /\ nick' = Reclaim(Named(u, n), table', list')
  /\ joined' \subseteq Channels
  /\ UNCHANGED <<cur, taken>>

NamedAs(n, u) ==
  /\ nick'[u] = n
  /\ \A c \in Chats : \A v \in UsersOf(list'[c]) : nick'[v] = Named(u, n)[v]
  /\ taken # "freed" => (u = Me <=> n = nick[Me])

LEMMA UserEvent ==
  ASSUME ClientOK, NEW n \in Nicks, NEW u \in Users, srn_server_add_and_get_user(n, u),
         Grown(u), Ends(n, u)
  PROVE  ToldOf /\ NamedAs(n, u)
<1> USE DEF Grown, Ends
<1>1. /\ table' \in [Nicks -> Users \cup {NoUser}]
      /\ key' \in [Nicks -> {"own", "orphan", "freed"}]
      /\ table'[n] = u /\ \A m \in Nicks \ {n} : table'[m] = table[m]
      /\ \A m \in Nicks : key[m] # "freed" => key'[m] # "freed"
      /\ nick[u] = n \/ nick[u] = Free
      /\ table[n] = u \/ nick[u] = Free
      /\ taken # "freed" => table[n] \in {u, NoUser}
  BY Found
<1>2. /\ nick \in [Users -> Nicks \cup {Free}] /\ Free \notin Nicks
      /\ Me \in Users /\ NoUser \notin Users
  BY UsersAssumption, NicksAssumption DEF ClientOK, Heap
<1>3. nick[Me] # Free
  BY OwnInServerChat, ChatKinds DEF ClientOK, Heap
<1>4. Named(u, n) \in [Users -> Nicks \cup {Free}] /\ Named(u, n)[u] = n
      /\ \A v \in Users \ {u} : Named(u, n)[v] = nick[v]
  BY <1>2 DEF Named
<1>5. Named(u, n)[Me] = nick[Me]
  BY <1>1, <1>2, <1>3, <1>4
<1>6. Heap(Named(u, n), table', list')
  <2>1. ASSUME NEW m \in Nicks, table'[m] # NoUser
        PROVE  Named(u, n)[table'[m]] = m
    <3>1. CASE m = n
      BY <1>1, <1>4, <3>1
    <3>2. CASE m # n
      <4>1. table[m] \in Users /\ nick[table[m]] = m /\ table'[m] = table[m]
        BY <1>1, <2>1, <3>2 DEF ClientOK, Heap
      <4>2. table[m] # u
        BY <1>1, <1>2, <3>2, <4>1
      <4> QED BY <1>4, <4>1, <4>2
    <3> QED BY <3>1, <3>2
  <2>2. ASSUME NEW c \in Chats, NEW v \in UsersOf(list'[c])
        PROVE  Named(u, n)[v] # Free
    <3>1. v \in Users
      BY ListUsers DEF GoodLists
    <3>2. CASE v = u
      BY <1>2, <1>4, <3>2
    <3>3. CASE v = Me
      BY <1>3, <1>5, <3>3
    <3>4. CASE v # u /\ v \in UsersOf(list[c])
      BY <1>4, <3>1, <3>4 DEF ClientOK, Heap
    <3> QED BY <3>2, <3>3, <3>4
  <2> QED BY <1>1, <1>4, <2>1, <2>2 DEF Heap
<1>7. /\ Heap(nick', table', list')
      /\ \A c \in Chats : \A v \in UsersOf(list'[c]) : nick'[v] = Named(u, n)[v]
      /\ \A m \in Nicks : table'[m] # NoUser => nick'[table'[m]] = Named(u, n)[table'[m]]
  BY <1>6, Reclaimed
<1>8. nick'[u] = n
  BY <1>1, <1>2, <1>4, <1>7
<1>9. nick'[Me] = nick[Me]
  BY <1>5, <1>7, OwnInServerChat, ChatKinds
<1>10. \A c \in Chats : \A v \in UsersOf(list[c]) : nick'[v] = nick[v]
  <2>1. SUFFICES ASSUME NEW c \in Chats, NEW v \in UsersOf(list[c])
                 PROVE  nick'[v] = nick[v]
    OBVIOUS
  <2>2. v \in Users /\ nick[v] # Free /\ v \in UsersOf(list'[c])
    BY ListUsers DEF ClientOK, GoodLists, Heap
  <2>3. nick'[v] = Named(u, n)[v]
    BY <1>7, <2>2
  <2> QED BY <1>1, <1>4, <2>2, <2>3
<1>11. taken # "freed" => (u = Me <=> n = nick[Me])
  BY <1>1, <1>2, <1>3 DEF ClientOK, KeysKnown
<1>12. taken' # "freed" => KeysKnown'
  <2>1. ASSUME taken # "freed"
        PROVE  table'[nick[Me]] = Me
    <3>1. table[nick[Me]] = Me /\ nick[Me] \in Nicks
      BY <1>2, <1>3, <2>1 DEF ClientOK, KeysKnown
    <3>2. CASE nick[Me] = n
      BY <1>1, <1>2, <2>1, <3>1, <3>2
    <3>3. CASE nick[Me] # n
      BY <1>1, <3>1, <3>3
    <3> QED BY <3>2, <3>3
  <2>2. taken # "freed" => \A m \in Nicks : key'[m] # "freed"
    BY <1>1 DEF ClientOK, KeysKnown
  <2> QED BY <1>9, <2>1, <2>2 DEF KeysKnown
<1>13. ClientOK'
  BY <1>1, <1>7, <1>12 DEF ClientOK, Open
<1>14. ASSUME taken = "never", Known
       PROVE  Known'
  <2>1. SUFFICES ASSUME NEW c \in Chats, NEW v \in UsersOf(list'[c])
                 PROVE  table'[nick'[v]] = v
    BY DEF Known
  <2>2. CASE v = u
    BY <1>1, <1>8, <2>2
  <2>3. CASE v # u
    <3>1. \E d \in Chats : v \in UsersOf(list[d])
      BY <2>3, OwnInServerChat, ChatKinds DEF ClientOK
    <3>2. v \in Users /\ nick'[v] = nick[v] /\ table[nick[v]] = v /\ nick[v] \in Nicks
      BY <1>2, <1>10, <1>14, <3>1, ListUsers DEF ClientOK, GoodLists, Heap, Known
    <3>3. nick[v] # n
      BY <1>1, <1>2, <1>14, <2>3, <3>2
    <3> QED BY <1>1, <3>2, <3>3
  <2> QED BY <2>2, <2>3
<1>15. ToldOf
  BY <1>9, <1>10, <1>13, <1>14 DEF ToldOf, NicksKept
<1>16. NamedAs(n, u)
  BY <1>7, <1>8, <1>11 DEF NamedAs
<1> QED BY <1>15, <1>16

-----------------------------------------------------------------------------
(* The handlers: what they make of the lists.                              *)

Elsewhere(c) == \A d \in Chats \ {c} : list'[d] = list[d]

(* One list is replaced by one with the named user. *)
LEMMA OneList ==
  ASSUME ClientOK, NEW c \in Chats, NEW m, list' = [list EXCEPT ![c] = m]
  PROVE  Elsewhere(c) /\ list'[c] = m /\ list' = [d \in Chats |-> list'[d]]
<1>1. list = [d \in Chats |-> list[d]]
  BY DEF ClientOK, GoodLists
<1> QED BY <1>1 DEF Elsewhere

(* A list m that has taken the place of l. *)
Instead(l, m, u) ==
  /\ GoodList(m) /\ m # <<>>
  /\ UsersOf(l) \subseteq UsersOf(m)
  /\ UsersOf(m) \subseteq UsersOf(l) \cup {u, Me}

LEMMA OneListEvent ==
  ASSUME ClientOK, NEW n \in Nicks, NEW u \in Users, srn_server_add_and_get_user(n, u),
         NEW c \in Chats, NEW m, list' = [list EXCEPT ![c] = m], Instead(list[c], m, u),
         Ends(n, u)
  PROVE  ToldOf /\ NamedAs(n, u) /\ Elsewhere(c) /\ list'[c] = m
<1>1. Elsewhere(c) /\ list'[c] = m /\ list' = [d \in Chats |-> list'[d]]
  BY OneList
<1>2. GoodLists(list')
  BY <1>1 DEF Elsewhere, ClientOK, GoodLists, Instead
<1>3. \A d \in Chats : /\ UsersOf(list[d]) \subseteq UsersOf(list'[d])
                       /\ UsersOf(list'[d]) \subseteq UsersOf(list[d]) \cup {u, Me}
  BY <1>1 DEF Elsewhere, Instead
<1>4. list'[cur] # <<>>
  BY <1>1 DEF Elsewhere, ClientOK, Open, Instead
<1>5. Grown(u)
  BY <1>2, <1>3, <1>4 DEF Grown
<1> QED BY <1>1, <1>5, UserEvent

(* One who is added, if he is not there, and found, and flagged. *)
Enroll(l, u, nk, n) ==
  LET k == srn_chat_add_user(l, u)
  IN  [k EXCEPT ![srn_chat_get_user(k, nk, n)].joined = TRUE]

JoinsOne(l, m, nk, n) == \E x \in UsersOf(m) : nk[x] = n /\ Joins(m) = Joins(l) \cup {x}

LEMMA Enrolled ==
  ASSUME NEW l, GoodList(l), l # <<>>, NEW u \in Users, NEW nk, NEW n, nk[u] = n
  PROVE  LET m == Enroll(l, u, nk, n)
         IN  Instead(l, m, u) /\ JoinsOne(l, m, nk, n)
<1> DEFINE k == srn_chat_add_user(l, u)
           i == srn_chat_get_user(k, nk, n)
           m == [k EXCEPT ![i].joined = TRUE]
<1>1. GoodList(k) /\ UsersOf(k) = UsersOf(l) \cup {u} /\ k # <<>> /\ Joins(k) = Joins(l)
  BY Added, AddedJoins
<1> HIDE DEF k
<1>2. i # 0 /\ i \in DOMAIN k /\ nk[k[i].user] = n
  BY <1>1, FirstFound
<1> HIDE DEF i
<1>3. GoodList(m) /\ UsersOf(m) = UsersOf(k) /\ (m = <<>> <=> k = <<>>)
  BY <1>1, Flagged
<1>4. Joins(m) = Joins(k) \cup {k[i].user}
  BY <1>1, <1>2, FlaggedJoins
<1> HIDE DEF m
<1>5. k[i].user \in UsersOf(m)
  BY <1>2, <1>3 DEF UsersOf
<1>6. \E x \in UsersOf(m) : nk[x] = n /\ Joins(m) = Joins(l) \cup {x}
  BY <1>1, <1>2, <1>4, <1>5
<1>7. Enroll(l, u, nk, n) = m
  BY DEF Enroll, m, i, k
<1>8. Instead(l, m, u)
  BY <1>1, <1>3 DEF Instead
<1> QED BY <1>6, <1>7, <1>8 DEF JoinsOne

(* RPL_NAMREPLY, and JOIN of another. *)
EnrolledIn(n, c) ==
  \E x \in UsersOf(list'[c]) : nick'[x] = n /\ Joins(list'[c]) = Joins(list[c]) \cup {x}

LEMMA NamreplyEvent ==
  ASSUME ClientOK, NEW n \in Nicks, NEW c \in Channels, irc_event_numeric_NAMREPLY(n, c)
  PROVE  ToldOf /\ Elsewhere(c) /\ joined' = joined /\ (Open(c) => EnrolledIn(n, c))
<1>1. CASE ~Open(c)
  <2>1. UNCHANGED client
    BY <1>1 DEF irc_event_numeric_NAMREPLY
  <2> QED BY <1>1, <2>1, UnchangedClient DEF Elsewhere, client
<1>2. CASE Open(c)
  <2>1. PICK u \in Users :
          /\ srn_server_add_and_get_user(n, u)
          /\ list' = [list EXCEPT ![c] = Enroll(list[c], u, Named(u, n), n)]
          /\ nick' = Reclaim(Named(u, n), table', list')
          /\ UNCHANGED <<joined, cur, taken>>
    BY <1>2 DEF irc_event_numeric_NAMREPLY, Enroll
  <2> DEFINE m == Enroll(list[c], u, Named(u, n), n)
  <2>2. c \in Chats /\ GoodList(list[c]) /\ list[c] # <<>>
    BY <1>2, ChatKinds DEF ClientOK, GoodLists, Open
  <2>3. Named(u, n)[u] = n
    BY DEF Named, ClientOK, Heap
  <2>4. Instead(list[c], m, u) /\ JoinsOne(list[c], m, Named(u, n), n)
    BY <2>2, <2>3, Enrolled
  <2>5. list' = [list EXCEPT ![c] = m]
    BY <2>1
  <2> HIDE DEF m
  <2>6. Ends(n, u) /\ joined' = joined
    BY <2>1 DEF ClientOK, Ends
  <2>7. ToldOf /\ NamedAs(n, u) /\ Elsewhere(c) /\ list'[c] = m
    BY <2>1, <2>2, <2>4, <2>5, <2>6, OneListEvent
  <2>8. EnrolledIn(n, c)
    <3>1. PICK x \in UsersOf(m) : Named(u, n)[x] = n /\ Joins(m) = Joins(list[c]) \cup {x}
      BY <2>4 DEF JoinsOne
    <3> QED BY <2>2, <2>7, <3>1 DEF EnrolledIn, NamedAs
  <2> QED BY <2>6, <2>7, <2>8
<1> QED BY <1>1, <1>2

(* What only adds somebody who is not joined. *)
Quiet ==
  /\ ToldOf
  /\ joined' = joined
  /\ \A d \in Chats : Joins(list'[d]) = Joins(list[d])

LEMMA QuietEvent ==
  ASSUME ClientOK, NEW n \in Nicks, NEW u \in Users, srn_server_add_and_get_user(n, u),
         NEW c \in Chats, NEW m, list' = [list EXCEPT ![c] = m], Instead(list[c], m, u),
         Joins(m) = Joins(list[c]), Ends(n, u), joined' = joined
  PROVE  Quiet
<1>1. ToldOf /\ Elsewhere(c) /\ list'[c] = m
  BY OneListEvent
<1> QED BY <1>1 DEF Quiet, Elsewhere

LEMMA AddedInstead ==
  ASSUME NEW l, GoodList(l), l # <<>>, NEW u \in Users
  PROVE  /\ Instead(l, srn_chat_add_user(l, u), u)
         /\ Joins(srn_chat_add_user(l, u)) = Joins(l)
BY Added, AddedJoins DEF Instead

LEMMA ChannelEvent ==
  ASSUME ClientOK, NEW n \in Nicks, NEW c \in Channels, irc_event_channel(n, c)
  PROVE  Quiet
<1>1. CASE ~Open(c)
  BY <1>1, UnchangedClient DEF irc_event_channel, Quiet, client
<1>2. CASE Open(c)
  <2>1. PICK u \in Users :
          /\ srn_server_add_and_get_user(n, u)
          /\ list' = [list EXCEPT ![c] = srn_chat_add_user(@, u)]
          /\ nick' = Reclaim(Named(u, n), table', list')
          /\ UNCHANGED <<joined, cur, taken>>
    BY <1>2 DEF irc_event_channel
  <2> DEFINE m == srn_chat_add_user(list[c], u)
  <2>2. c \in Chats /\ GoodList(list[c]) /\ list[c] # <<>>
    BY <1>2, ChatKinds DEF ClientOK, GoodLists, Open
  <2>3. Instead(list[c], m, u) /\ Joins(m) = Joins(list[c])
    BY <2>2, AddedInstead
  <2>4. list' = [list EXCEPT ![c] = m]
    BY <2>1
  <2> HIDE DEF m
  <2>5. Ends(n, u) /\ joined' = joined
    BY <2>1 DEF ClientOK, Ends
  <2> QED BY <2>1, <2>2, <2>3, <2>4, <2>5, QuietEvent
<1> QED BY <1>1, <1>2

(* A chat that is opened if it is not. *)
Opened(l, u) == IF l # <<>> THEN l ELSE srn_chat_add_user(<<ChatUser(Me)>>, u)

LEMMA OpenedList ==
  ASSUME NEW l, GoodList(l), NEW u \in Users
  PROVE  /\ Instead(l, Opened(l, u), u)
         /\ Joins(Opened(l, u)) = Joins(l)
<1>1. CASE l # <<>>
  BY <1>1 DEF Opened, Instead
<1>2. CASE l = <<>>
  <2> DEFINE o == <<ChatUser(Me)>>
  <2>1. GoodList(o) /\ UsersOf(o) = {Me} /\ o # <<>>
    BY OwnList
  <2>2. Joins(o) = {}
    <3>1. o[1] = ChatUser(Me) /\ DOMAIN o = {1}
      OBVIOUS
    <3>2. ~o[1].joined
      BY <3>1, UsersAssumption, NewChatUser
    <3> HIDE DEF o
    <3> QED BY <3>1, <3>2 DEF Joins
  <2>3. UsersOf(l) = {} /\ Joins(l) = {}
    BY <1>2 DEF UsersOf, Joins
  <2> HIDE DEF o
  <2>4. Instead(o, srn_chat_add_user(o, u), u) /\ Joins(srn_chat_add_user(o, u)) = Joins(o)
    BY <2>1, AddedInstead
  <2>5. Opened(l, u) = srn_chat_add_user(o, u)
    BY <1>2 DEF Opened, o
  <2> QED BY <2>1, <2>2, <2>3, <2>4, <2>5 DEF Instead
<1> QED BY <1>1, <1>2

LEMMA WithChatOpened ==
  ASSUME ClientOK, NEW c \in Chats, NEW u
  PROVE  /\ WithChat(list, c, u)[c] = Opened(list[c], u)
         /\ WithChat(list, c, u) = [list EXCEPT ![c] = Opened(list[c], u)]
<1>1. list = [d \in Chats |-> list[d]]
  BY DEF ClientOK, GoodLists
<1>2. CASE list[c] # <<>>
  <2>1. WithChat(list, c, u) = list /\ Opened(list[c], u) = list[c]
    BY <1>2 DEF WithChat, Opened
  <2> QED BY <1>1, <2>1
<1>3. CASE list[c] = <<>>
  <2>1. WithChat(list, c, u) = [list EXCEPT ![c] = Opened(list[c], u)]
    BY <1>3 DEF WithChat, Opened
  <2> QED BY <1>1, <2>1
<1> QED BY <1>2, <1>3

LEMMA WithChatReplaced ==
  ASSUME ClientOK, NEW c \in Chats, NEW u, NEW m, list' = [WithChat(list, c, u) EXCEPT ![c] = m]
  PROVE  list' = [list EXCEPT ![c] = m]
<1>1. list = [d \in Chats |-> list[d]]
  BY DEF ClientOK, GoodLists
<1>2. WithChat(list, c, u) = [list EXCEPT ![c] = Opened(list[c], u)]
  BY WithChatOpened
<1> DEFINE o == Opened(list[c], u)
<1> HIDE DEF o
<1>3. list' = [[list EXCEPT ![c] = o] EXCEPT ![c] = m]
  BY <1>2 DEF o
<1> QED BY <1>1, <1>3

LEMMA PrivmsgEvent ==
  ASSUME ClientOK, NEW n \in Dialogs, irc_event_privmsg(n)
  PROVE  Quiet
<1>1. PICK u \in Users :
        /\ srn_server_add_and_get_user(n, u)
        /\ LET ls == WithChat(list, n, u)
           IN  list' = [ls EXCEPT ![n] = srn_chat_add_user(@, u)]
        /\ nick' = Reclaim(Named(u, n), table', list')
        /\ UNCHANGED <<joined, cur, taken>>
  BY DEF irc_event_privmsg
<1>2. n \in Chats /\ n \in Nicks /\ GoodList(list[n])
  BY ChatKinds DEF ClientOK, GoodLists
<1> DEFINE o == Opened(list[n], u)
           m == srn_chat_add_user(o, u)
<1>3. list' = [list EXCEPT ![n] = m]
  <2>1. list' = [WithChat(list, n, u) EXCEPT ![n] = srn_chat_add_user(WithChat(list, n, u)[n], u)]
    BY <1>1
  <2>2. WithChat(list, n, u)[n] = o
    BY <1>2, WithChatOpened
  <2> HIDE DEF o
  <2>3. list' = [WithChat(list, n, u) EXCEPT ![n] = m]
    BY <2>1, <2>2
  <2> HIDE DEF m
  <2> QED BY <1>2, <2>3, WithChatReplaced
<1> HIDE DEF o
<1>4. Instead(list[n], o, u) /\ Joins(o) = Joins(list[n])
  BY <1>2, OpenedList DEF o
<1>5. Instead(o, m, u) /\ Joins(m) = Joins(o)
  BY <1>4, AddedInstead DEF Instead
<1> HIDE DEF m
<1>6. Instead(list[n], m, u) /\ Joins(m) = Joins(list[n])
  BY <1>4, <1>5 DEF Instead
<1>7. Ends(n, u) /\ joined' = joined
  BY <1>1 DEF ClientOK, Ends
<1> QED BY <1>1, <1>2, <1>3, <1>6, <1>7, QuietEvent

LEMMA QueryEvent ==
  ASSUME ClientOK, NEW n \in Dialogs, Query(n)
  PROVE  Quiet
<1>1. PICK u \in Users :
        /\ srn_server_add_and_get_user(n, u)
        /\ list' = WithChat(list, n, u)
        /\ nick' = Reclaim(Named(u, n), table', list')
  BY DEF Query
<1>2. n \in Chats /\ n \in Nicks /\ GoodList(list[n])
  BY ChatKinds DEF ClientOK, GoodLists
<1> DEFINE m == Opened(list[n], u)
<1>3. list' = [list EXCEPT ![n] = m]
  BY <1>1, <1>2, WithChatOpened
<1>4. Instead(list[n], m, u) /\ Joins(m) = Joins(list[n])
  BY <1>2, OpenedList
<1> HIDE DEF m
<1>5. Ends(n, u) /\ joined' = joined
  BY <1>1 DEF ClientOK, Ends, Query
<1> QED BY <1>1, <1>2, <1>3, <1>4, <1>5, QuietEvent

LEMMA CtcpEvent ==
  ASSUME ClientOK, NEW n \in Nicks, irc_event_ctcp_req(n)
  PROVE  Quiet
<1> DEFINE c == IF n \in Dialogs /\ Open(n) THEN n ELSE ServerChat
<1>1. PICK u \in Users :
        /\ srn_server_add_and_get_user(n, u)
        /\ list' = [list EXCEPT ![c] = srn_chat_add_user(@, u)]
        /\ nick' = Reclaim(Named(u, n), table', list')
        /\ UNCHANGED <<joined, cur, taken>>
  BY DEF irc_event_ctcp_req
<1>2. c \in Chats /\ GoodList(list[c]) /\ list[c] # <<>>
  BY ChatKinds DEF ClientOK, GoodLists, Open
<1> HIDE DEF c
<1> DEFINE m == srn_chat_add_user(list[c], u)
<1>3. Instead(list[c], m, u) /\ Joins(m) = Joins(list[c])
  BY <1>2, AddedInstead
<1>4. list' = [list EXCEPT ![c] = m]
  BY <1>1
<1> HIDE DEF m
<1>5. Ends(n, u) /\ joined' = joined
  BY <1>1 DEF ClientOK, Ends
<1> QED BY <1>1, <1>2, <1>3, <1>4, <1>5, QuietEvent

(* JOIN of the user himself opens the channel; that of another one is      *)
(* ignored where there is no chat.                                         *)
LEMMA JoinEvent ==
  ASSUME ClientOK, NEW n \in Nicks, NEW c \in Channels, irc_event_join(n, c)
  PROVE  /\ ToldOf
         /\ Elsewhere(c)
         /\ n = nick[Me] /\ taken # "freed" =>
              joined' = joined \cup {c} /\ Joins(list'[c]) = Joins(list[c]) \cup {Me}
         /\ n # nick[Me] =>
              joined' = joined /\ (Open(c) => EnrolledIn(n, c))
<1>1. PICK u \in Users :
        /\ srn_server_add_and_get_user(n, u)
        /\ LET ls == IF u = Me THEN WithChat(list, c, Me) ELSE list
               l  == IF u = Me THEN ls[c] ELSE srn_chat_add_user(ls[c], u)
               i  == IF u = Me THEN 1 ELSE srn_chat_get_user(l, Named(u, n), n)
           IN  IF ls[c] = <<>>
                 THEN UNCHANGED <<list, joined>>
                 ELSE /\ list' = [ls EXCEPT ![c] = [l EXCEPT ![i].joined = TRUE]]
                      /\ joined' = IF u = Me THEN joined \cup {c} ELSE joined
        /\ nick' = Reclaim(Named(u, n), table', list')
        /\ UNCHANGED <<cur, taken>>
  BY DEF irc_event_join
<1>2. c \in Chats /\ GoodList(list[c]) /\ Me \in Users
  BY ChatKinds, UsersAssumption DEF ClientOK, GoodLists
<1>3. Named(u, n)[u] = n
  BY DEF Named, ClientOK, Heap
<1>4. CASE u = Me
  <2> DEFINE o == Opened(list[c], Me)
             m == [o EXCEPT ![1].joined = TRUE]
  <2>1. Instead(list[c], o, Me) /\ Joins(o) = Joins(list[c])
    BY <1>2, OpenedList
  <2>2. WithChat(list, c, Me)[c] = o
    BY <1>2, WithChatOpened
  <2> HIDE DEF o
  <2>3. list' = [WithChat(list, c, Me) EXCEPT ![c] = m] /\ joined' = joined \cup {c}
    BY <1>1, <1>4, <2>1, <2>2 DEF Instead
  <2>4. GoodList(o) /\ o # <<>> /\ 1 \in DOMAIN o /\ o[1].user = Me
    BY <2>1, ListUsers DEF Instead, GoodList
  <2>5. /\ GoodList(m) /\ UsersOf(m) = UsersOf(o) /\ (m = <<>> <=> o = <<>>)
        /\ Joins(m) = Joins(o) \cup {Me}
    <3>1. GoodList(m) /\ UsersOf(m) = UsersOf(o) /\ (m = <<>> <=> o = <<>>)
      BY <2>4, Flagged
    <3>2. Joins(m) = Joins(o) \cup {o[1].user}
      BY <2>4, FlaggedJoins
    <3> QED BY <2>4, <3>1, <3>2
  <2> HIDE DEF m
  <2>6. list' = [list EXCEPT ![c] = m]
    BY <1>2, <2>3, WithChatReplaced
  <2>7. Instead(list[c], m, Me)
    BY <2>1, <2>4, <2>5 DEF Instead
  <2>8. Ends(n, Me)
    BY <1>1, <1>4, <2>3 DEF ClientOK, Ends
  <2>9. ToldOf /\ NamedAs(n, Me) /\ Elsewhere(c) /\ list'[c] = m
    BY <1>1, <1>2, <1>4, <2>6, <2>7, <2>8, OneListEvent
  <2>10. n = nick[Me]
    BY <2>9 DEF NamedAs, ToldOf, NicksKept
  <2> QED BY <2>1, <2>3, <2>5, <2>9, <2>10
<1>5. CASE u # Me /\ ~Open(c)
  <2>1. UNCHANGED <<list, joined>>
    BY <1>1, <1>5 DEF Open
  <2>2. GoodLists(list') /\ list'[cur] # <<>>
    BY <2>1 DEF ClientOK, Open, GoodLists
  <2>3. Grown(u) /\ Ends(n, u)
    BY <1>1, <2>1, <2>2 DEF Grown, Ends, ClientOK
  <2>4. ToldOf /\ NamedAs(n, u)
    BY <1>1, <2>3, UserEvent
  <2> QED BY <1>5, <2>1, <2>4 DEF Elsewhere, NamedAs
<1>6. CASE u # Me /\ Open(c)
  <2> DEFINE m == Enroll(list[c], u, Named(u, n), n)
  <2>1. list' = [list EXCEPT ![c] = m] /\ joined' = joined
    BY <1>1, <1>6 DEF Enroll, Open
  <2>2. Instead(list[c], m, u) /\ JoinsOne(list[c], m, Named(u, n), n)
    BY <1>2, <1>3, <1>6, Enrolled DEF Open
  <2> HIDE DEF m
  <2>3. Ends(n, u)
    BY <1>1, <2>1 DEF ClientOK, Ends
  <2>4. ToldOf /\ NamedAs(n, u) /\ Elsewhere(c) /\ list'[c] = m
    BY <1>1, <1>2, <2>1, <2>2, <2>3, OneListEvent
  <2>5. EnrolledIn(n, c)
    <3>1. PICK x \in UsersOf(m) : Named(u, n)[x] = n /\ Joins(m) = Joins(list[c]) \cup {x}
      BY <2>2 DEF JoinsOne
    <3> QED BY <1>2, <2>4, <3>1 DEF EnrolledIn, NamedAs
  <2> QED BY <1>6, <2>1, <2>4, <2>5 DEF NamedAs
<1> QED BY <1>4, <1>5, <1>6

(* Events that name nobody new: the objects and the table stay.            *)
LEMMA StayEvent ==
  ASSUME ClientOK, UNCHANGED <<table, key, taken>>,
         GoodLists(list'), \A c \in Chats : UsersOf(list'[c]) \subseteq UsersOf(list[c]),
         nick' = nick \/ nick' = Reclaim(nick, table, list'),
         joined' \subseteq Channels, cur' \in Chats, list'[cur'] # <<>>
  PROVE  /\ ClientOK'
         /\ nick'[Me] = nick[Me]
         /\ \A c \in Chats : \A v \in UsersOf(list'[c]) : nick'[v] = nick[v]
         /\ Known => Known'
<1>1. Heap(nick, table, list')
  BY DEF ClientOK, Heap
<1>2. Heap(nick', table, list') /\ \A c \in Chats : \A v \in UsersOf(list'[c]) : nick'[v] = nick[v]
  BY <1>1, Reclaimed
<1>3. nick'[Me] = nick[Me]
  BY <1>2, OwnInServerChat, ChatKinds
<1>4. taken # "freed" => KeysKnown'
  BY <1>3 DEF ClientOK, KeysKnown
<1>5. ClientOK'
  BY <1>2, <1>4 DEF ClientOK, Open
<1>6. Known => Known'
  BY <1>2 DEF Known
<1> QED BY <1>2, <1>3, <1>5, <1>6

Stayed ==
  /\ ClientOK'
  /\ nick'[Me] = nick[Me]
  /\ taken' = taken
  /\ \A c \in Chats : \A v \in UsersOf(list'[c]) : nick'[v] = nick[v]
  /\ Known => Known'

LEMMA UnchangedStays == ClientOK /\ UNCHANGED client => Stayed
BY DEF client, ClientOK, Heap, GoodLists, KeysKnown, Open, Stayed, Known

(* A user who is found under the nick n is no more joined; nothing happens *)
(* if nobody is.                                                           *)
LeftIn(n, c) ==
  \E x : /\ Joins(list'[c]) = Joins(list[c]) \ {x}
         /\ x # Me
         /\ UsersOf(list[c]) \subseteq UsersOf(list'[c])
         /\ x \in UsersOf(list'[c]) => nick'[x] = n
         /\ (\E v \in UsersOf(list'[c]) : nick'[v] = n) => x \in UsersOf(list'[c])

LEMMA NobodyJoined ==
  ASSUME NEW l, GoodList(l)
  PROVE  /\ Joins(l) \subseteq UsersOf(l)
         /\ NoUser \notin UsersOf(l)
         /\ \A i \in DOMAIN l : ~l[i].joined => l[i].user \notin Joins(l)
BY ListUsers, UsersAssumption DEF GoodList, Joins, UsersOf

(* PART of another one. *)
LEMMA PartEvent ==
  ASSUME ClientOK, NEW n \in Nicks, NEW c \in Channels, irc_event_part(n, c), n # nick[Me]
  PROVE  Stayed /\ Elsewhere(c) /\ joined' = joined /\ LeftIn(n, c)
<1> DEFINE l == list[c]
           i == srn_chat_get_user(l, nick, n)
<1>1. c \in Chats /\ GoodList(l)
  BY ChatKinds DEF ClientOK, GoodLists
<1>2. /\ i = 0 => \A u \in UsersOf(l) : nick[u] # n
      /\ i # 0 => i \in DOMAIN l /\ nick[l[i].user] = n
  BY <1>1, FirstFound
<1>3. /\ IF i = 0 \/ (i # 0 /\ ~l[i].joined)
           THEN UNCHANGED <<list, joined, cur, nick>>
           ELSE IF l[i].user = Me
             THEN TRUE
             ELSE /\ list' = [list EXCEPT ![c] = [@ EXCEPT ![i].joined = FALSE]]
                  /\ UNCHANGED <<joined, cur, nick>>
      /\ UNCHANGED <<table, key, taken>>
  BY DEF irc_event_part
<1> HIDE DEF i
<1>4. CASE i = 0
  <2>1. UNCHANGED client
    BY <1>3, <1>4 DEF client
  <2>2. Joins(list'[c]) = Joins(list[c]) \ {NoUser}
    BY <1>1, <2>1, NobodyJoined DEF client
  <2>3. NoUser \notin UsersOf(list'[c]) /\ NoUser # Me
    BY <1>1, <2>1, NobodyJoined, UsersAssumption DEF client
  <2>4. LeftIn(n, c)
    BY <1>2, <1>4, <2>1, <2>2, <2>3 DEF LeftIn, client
  <2> QED BY <2>1, <2>4, UnchangedStays DEF Elsewhere, client
<1>5. CASE i # 0 /\ ~l[i].joined
  <2>1. UNCHANGED client
    BY <1>3, <1>5 DEF client
  <2>2. Joins(list'[c]) = Joins(list[c]) \ {l[i].user}
    BY <1>1, <1>2, <1>5, <2>1, NobodyJoined DEF client
  <2>3. l[i].user \in UsersOf(l)
    BY <1>2, <1>5 DEF UsersOf
  <2>4. LeftIn(n, c)
    BY <1>2, <1>5, <2>1, <2>2, <2>3 DEF LeftIn, client
  <2> QED BY <2>1, <2>4, UnchangedStays DEF Elsewhere, client
<1>6. CASE i # 0 /\ l[i].joined
  <2> DEFINE m == [l EXCEPT ![i].joined = FALSE]
  <2>1. l[i].user # Me /\ i \in DOMAIN l
    BY <1>2, <1>6
  <2>2. list' = [list EXCEPT ![c] = m] /\ UNCHANGED <<joined, cur, nick>>
    BY <1>3, <1>6, <2>1
  <2>3. GoodList(m) /\ UsersOf(m) = UsersOf(l) /\ (m = <<>> <=> l = <<>>)
    BY <1>1, Flagged
  <2>4. Joins(m) = Joins(l) \ {l[i].user}
    BY <1>1, <2>1, FlaggedJoins
  <2> HIDE DEF m
  <2>5. Elsewhere(c) /\ list'[c] = m /\ list' = [d \in Chats |-> list'[d]]
    BY <1>1, <2>2, OneList
  <2>6. GoodLists(list')
    BY <2>3, <2>5, ChatKinds DEF Elsewhere, ClientOK, GoodLists
  <2>7. \A d \in Chats : UsersOf(list'[d]) \subseteq UsersOf(list[d])
    BY <2>3, <2>5 DEF Elsewhere
  <2>8. joined' \subseteq Channels /\ cur' \in Chats /\ list'[cur'] # <<>>
    BY <2>2, <2>3, <2>5 DEF Elsewhere, ClientOK, Open
  <2>9. Stayed
    BY <1>3, <2>2, <2>6, <2>7, <2>8, StayEvent DEF Stayed
  <2>10. l[i].user \in UsersOf(l)
    BY <2>1 DEF UsersOf
  <2>11. LeftIn(n, c)
    BY <1>2, <1>6, <2>1, <2>2, <2>3, <2>4, <2>5, <2>10 DEF LeftIn
  <2> QED BY <2>2, <2>5, <2>9, <2>11
<1> QED BY <1>4, <1>5, <1>6

(* A chat that is not joined is closed, and the server chat takes over.    *)
LEMMA RemoveChat ==
  ASSUME ClientOK, NEW c \in Channels \cup Dialogs, srn_server_rm_chat(c),
         nick' = Reclaim(nick, table, list'), joined' \subseteq Channels,
         UNCHANGED <<table, key, taken>>
  PROVE  Stayed /\ Elsewhere(c) /\ list'[c] = <<>> /\ Joins(list'[c]) = {}
<1>1. c \in Chats /\ c # ServerChat
  BY ChatKinds
<1>2. list' = [list EXCEPT ![c] = <<>>] /\ cur' = IF cur = c THEN ServerChat ELSE cur
  BY DEF srn_server_rm_chat
<1>3. Elsewhere(c) /\ list'[c] = <<>> /\ list' = [d \in Chats |-> list'[d]]
  BY <1>1, <1>2, OneList
<1>4. GoodList(<<>>) /\ UsersOf(<<>>) = {} /\ Joins(<<>>) = {}
  BY DEF GoodList, UsersOf, Joins
<1>5. GoodLists(list')
  BY <1>1, <1>3, <1>4, ChatKinds DEF Elsewhere, ClientOK, GoodLists
<1>6. \A d \in Chats : UsersOf(list'[d]) \subseteq UsersOf(list[d])
  BY <1>3, <1>4 DEF Elsewhere
<1>7. cur' \in Chats /\ list'[cur'] # <<>>
  BY <1>1, <1>2, <1>3, ChatKinds DEF Elsewhere, ClientOK, GoodLists, Open
<1> QED BY <1>3, <1>4, <1>5, <1>6, <1>7, StayEvent DEF Stayed

(* PART of the user himself. *)
LEMMA OwnPartEvent ==
  ASSUME ClientOK, NEW c \in Channels, irc_event_part(nick[Me], c)
  PROVE  /\ Stayed /\ Elsewhere(c)
         /\ Me \in Joins(list[c]) => joined' = joined \ {c} /\ Joins(list'[c]) = {}
<1> DEFINE l == list[c]
           i == srn_chat_get_user(l, nick, nick[Me])
<1>1. c \in Chats /\ GoodList(l)
  BY ChatKinds DEF ClientOK, GoodLists
<1>2. /\ i # 0 => i \in DOMAIN l
      /\ l # <<>> => i = 1
  BY <1>1, FirstFound
<1>3. /\ IF i = 0 \/ (i # 0 /\ ~l[i].joined)
           THEN UNCHANGED <<list, joined, cur, nick>>
           ELSE IF l[i].user = Me
             THEN /\ joined' = joined \ {c}
                  /\ srn_server_rm_chat(c)
                  /\ nick' = Reclaim(nick, table, list')
             ELSE TRUE
      /\ UNCHANGED <<table, key, taken>>
  BY DEF irc_event_part
<1>4. Me \in Joins(l) => l # <<>> /\ l[1].joined
  <2>1. Me \in Joins(l) => \E j \in DOMAIN l : l[j].joined /\ l[j].user = Me
    BY DEF Joins
  <2>2. \A j \in DOMAIN l : 1 \in DOMAIN l /\ l # <<>> /\ l[1].user = Me
    BY <1>1, ListUsers DEF GoodList
  <2> QED BY <1>1, <2>1, <2>2 DEF GoodList
<1> HIDE DEF i
<1>5. CASE i = 0 \/ (i # 0 /\ ~l[i].joined)
  <2>1. UNCHANGED client
    BY <1>3, <1>5 DEF client
  <2>2. Me \notin Joins(l)
    BY <1>2, <1>4, <1>5
  <2> QED BY <2>1, <2>2, UnchangedStays DEF Elsewhere, client
<1>6. CASE i # 0 /\ l[i].joined
  <2>1. l[i].user = Me
    <3>1. l # <<>>
      BY <1>1, <1>2, <1>6
    <3> QED BY <1>1, <1>2, <3>1 DEF GoodList
  <2>2. joined' = joined \ {c} /\ srn_server_rm_chat(c) /\ nick' = Reclaim(nick, table, list')
    BY <1>3, <1>6, <2>1
  <2>3. joined' \subseteq Channels
    BY <2>2 DEF ClientOK
  <2> QED BY <1>3, <2>2, <2>3, RemoveChat
<1> QED BY <1>5, <1>6

(* KICK adds the one who kicks and takes out the one who is kicked. *)
LEMMA KickEvent ==
  ASSUME ClientOK, NEW by \in Nicks, NEW n \in Nicks, NEW c \in Channels,
         irc_event_kick(by, n, c), Open(c)
  PROVE  /\ ToldOf /\ Elsewhere(c)
         /\ n # nick[Me] => joined' = joined /\ LeftIn(n, c)
         /\ n = nick[Me] => /\ joined' = joined \ {c}
                            /\ c \in joined => Joins(list'[c]) = {}
<1>1. PICK u \in Users :
        /\ srn_server_add_and_get_user(by, u)
        /\ LET l == srn_chat_add_user(list[c], u)
               i == srn_chat_get_user(l, Named(u, by), n)
               unjoined == IF i = 0 THEN l ELSE [l EXCEPT ![i].joined = FALSE]
           IN  IF i # 0 /\ l[i].user = Me
                 THEN /\ joined' = joined \ {c}
                      /\ list' = [list EXCEPT ![c] =
                                     IF c \in joined THEN Unjoined(l) ELSE unjoined]
                 ELSE list' = [list EXCEPT ![c] = unjoined] /\ UNCHANGED joined
        /\ nick' = Reclaim(Named(u, by), table', list')
        /\ UNCHANGED <<cur, taken>>
  BY DEF irc_event_kick
<1> DEFINE l == srn_chat_add_user(list[c], u)
           i == srn_chat_get_user(l, Named(u, by), n)
           unjoined == IF i = 0 THEN l ELSE [l EXCEPT ![i].joined = FALSE]
           m == IF i # 0 /\ l[i].user = Me /\ c \in joined THEN Unjoined(l) ELSE unjoined
<1>2. /\ list' = [list EXCEPT ![c] = m]
      /\ joined' = IF i # 0 /\ l[i].user = Me THEN joined \ {c} ELSE joined
  BY <1>1
<1>3. c \in Chats /\ GoodList(list[c]) /\ list[c] # <<>>
  BY ChatKinds DEF ClientOK, GoodLists, Open
<1>4. GoodList(l) /\ l # <<>> /\ UsersOf(l) = UsersOf(list[c]) \cup {u} /\ Joins(l) = Joins(list[c])
  BY <1>3, Added, AddedJoins
<1> HIDE DEF l
<1>5. /\ i = 0 => \A v \in UsersOf(l) : Named(u, by)[v] # n
      /\ i # 0 => i \in DOMAIN l /\ Named(u, by)[l[i].user] = n
      /\ Named(u, by)[Me] = n => i = 1
  BY <1>4, FirstFound
<1> HIDE DEF i
<1>6. /\ GoodList(unjoined) /\ unjoined # <<>> /\ UsersOf(unjoined) = UsersOf(l)
      /\ i = 0 => Joins(unjoined) = Joins(l)
      /\ i # 0 => Joins(unjoined) = Joins(l) \ {l[i].user}
  <2>1. CASE i = 0
    BY <1>4, <2>1
  <2>2. CASE i # 0
    <3> DEFINE f == [l EXCEPT ![i].joined = FALSE]
    <3>1. GoodList(f) /\ UsersOf(f) = UsersOf(l) /\ (f = <<>> <=> l = <<>>)
      BY <1>4, Flagged
    <3>2. Joins(f) = Joins(l) \ {l[i].user}
      BY <1>4, <1>5, <2>2, FlaggedJoins
    <3> HIDE DEF f
    <3>3. unjoined = f
      BY <2>2 DEF f
    <3> QED BY <1>4, <2>2, <3>1, <3>2, <3>3
  <2> QED BY <2>1, <2>2
<1> HIDE DEF unjoined
<1>7. /\ GoodList(m) /\ m # <<>> /\ UsersOf(m) = UsersOf(l)
      /\ i # 0 /\ l[i].user = Me /\ c \in joined => Joins(m) = {}
      /\ i # 0 /\ l[i].user # Me => Joins(m) = Joins(l) \ {l[i].user}
      /\ i = 0 => Joins(m) = Joins(l)
  BY <1>4, <1>6, UnjoinedList
<1> HIDE DEF m
<1>8. Instead(list[c], m, u)
  BY <1>4, <1>7 DEF Instead
<1>9. Ends(by, u)
  BY <1>1, <1>2 DEF ClientOK, Ends
<1>10. ToldOf /\ NamedAs(by, u) /\ Elsewhere(c) /\ list'[c] = m
  BY <1>1, <1>2, <1>3, <1>8, <1>9, OneListEvent
<1>11. \A v \in UsersOf(l) : nick'[v] = Named(u, by)[v]
  BY <1>3, <1>7, <1>10 DEF NamedAs
<1>12. Me \in UsersOf(l) /\ nick'[Me] = nick[Me]
  BY <1>4, <1>10, ListUsers DEF ToldOf, NicksKept
<1>13. i # 0 => l[i].user \in UsersOf(l)
  BY <1>5 DEF UsersOf
<1>14. ASSUME n # nick[Me]
       PROVE  joined' = joined /\ LeftIn(n, c)
  <2>1. i # 0 => l[i].user # Me
    BY <1>5, <1>11, <1>12, <1>13, <1>14
  <2>2. joined' = joined
    BY <1>2, <2>1
  <2>3. CASE i = 0
    <3>1. Joins(list'[c]) = Joins(list[c]) \ {NoUser}
      BY <1>3, <1>4, <1>7, <1>10, <2>3, NobodyJoined
    <3>2. \A v \in UsersOf(list'[c]) : nick'[v] # n
      BY <1>5, <1>7, <1>10, <1>11, <2>3
    <3>3. NoUser \notin UsersOf(list'[c]) /\ NoUser # Me
      BY <1>7, <1>10, NobodyJoined, UsersAssumption
    <3> QED BY <1>4, <1>7, <1>10, <2>2, <3>1, <3>2, <3>3 DEF LeftIn
  <2>4. CASE i # 0
    BY <1>4, <1>5, <1>7, <1>10, <1>11, <1>13, <2>1, <2>2, <2>4 DEF LeftIn
  <2> QED BY <2>3, <2>4
<1>15. ASSUME n = nick[Me]
       PROVE  joined' = joined \ {c} /\ (c \in joined => Joins(list'[c]) = {})
  <2>1. i = 1
    BY <1>5, <1>11, <1>12, <1>15
  <2>2. l[i].user = Me
    BY <1>4, <2>1 DEF GoodList
  <2> QED BY <1>2, <1>7, <1>10, <2>1, <2>2
<1> QED BY <1>10, <1>14, <1>15

LEMMA QuitEvent ==
  ASSUME ClientOK, NEW n \in Nicks, irc_event_quit(n), n # nick[Me]
  PROVE  /\ Stayed /\ joined' = joined
         /\ \E u : /\ u # Me
                   /\ taken # "freed" => u = table[n]
                   /\ \A c \in Chats : Joins(list'[c]) = Joins(list[c]) \ {u}
<1>1. PICK u \in srn_server_get_user(n) :
        /\ list' = [c \in Chats |-> QuitFrom(list[c], u)]
        /\ UNCHANGED <<nick, table, key, joined, cur, taken>>
  BY DEF irc_event_quit, QuitFrom
<1>2. u = table[n] \/ (u = NoUser /\ key[n] = "freed")
  BY DEF srn_server_get_user
<1>3. u # Me
  BY <1>2, UsersAssumption DEF ClientOK, Heap
<1>4. taken # "freed" => u = table[n]
  BY <1>2 DEF ClientOK, KeysKnown
<1>5. \A c \in Chats : /\ GoodList(list'[c]) /\ UsersOf(list'[c]) = UsersOf(list[c])
                       /\ (list'[c] = <<>> <=> list[c] = <<>>)
                       /\ Joins(list'[c]) = Joins(list[c]) \ {u}
  BY <1>1, QuitList DEF ClientOK, GoodLists
<1>6. GoodLists(list')
  BY <1>1, <1>5, ChatKinds DEF ClientOK, GoodLists
<1>7. joined' \subseteq Channels /\ cur' \in Chats /\ list'[cur'] # <<>>
  BY <1>1, <1>5 DEF ClientOK, Open
<1>8. Stayed
  BY <1>1, <1>5, <1>6, <1>7, StayEvent DEF Stayed
<1> QED BY <1>1, <1>3, <1>4, <1>5, <1>8

LEMMA DisconnectEvent ==
  ASSUME ClientOK, irc_event_disconnect
  PROVE  /\ Stayed /\ joined' = {}
         /\ \A c \in Chats : Joins(list'[c]) = IF c \in joined THEN {} ELSE Joins(list[c])
<1>1. /\ list' = [c \in Chats |-> IF c \in joined THEN Unjoined(list[c]) ELSE list[c]]
      /\ joined' = {}
      /\ UNCHANGED <<nick, table, key, cur, taken>>
  BY DEF irc_event_disconnect
<1>2. \A c \in Chats : GoodList(list[c])
  BY DEF ClientOK, GoodLists
<1>3. ASSUME NEW c \in Chats
      PROVE  /\ GoodList(list'[c]) /\ UsersOf(list'[c]) = UsersOf(list[c])
             /\ (list'[c] = <<>> <=> list[c] = <<>>)
             /\ Joins(list'[c]) = IF c \in joined THEN {} ELSE Joins(list[c])
  <2>1. CASE c \in joined
    BY <1>1, <1>2, <2>1, UnjoinedList
  <2>2. CASE c \notin joined
    BY <1>1, <1>2, <2>2
  <2> QED BY <2>1, <2>2
<1>4. GoodLists(list')
  BY <1>1, <1>3, ChatKinds DEF ClientOK, GoodLists
<1>5. joined' \subseteq Channels /\ cur' \in Chats /\ list'[cur'] # <<>>
  BY <1>1, <1>3 DEF ClientOK, Open
<1>6. Stayed
  BY <1>1, <1>3, <1>4, <1>5, StayEvent DEF Stayed
<1> QED BY <1>1, <1>3, <1>6

-----------------------------------------------------------------------------
(* A new nick.                                                             *)

Renames(u, n) ==
  /\ ClientOK'
  /\ taken' # "freed" => taken # "freed"
  /\ \A c \in Chats : \A v \in UsersOf(list[c]) : nick'[v] = IF v = u THEN n ELSE nick[v]
  /\ taken' = "never" => taken = "never" /\ (Known => Known')

LEMMA RenameEvent ==
  ASSUME ClientOK, NEW u \in Users, NEW o \in Nicks, NEW n \in Nicks,
         nick[u] = o, taken # "freed" => table[o] = u,
         n # nick[Me] \/ u = Me,
         srn_server_rename_user(u, o, n), UNCHANGED <<list, joined, cur>>
  PROVE  Renames(u, n)
<1> DEFINE stolen == [table EXCEPT ![o] = NoUser]
           inUse == stolen[n] # NoUser
           k == IF inUse THEN KeyAfterReplacing(n) ELSE "own"
<1>1. /\ table' = [stolen EXCEPT ![n] = u]
      /\ key' = [key EXCEPT ![o] = "own", ![n] = k]
      /\ nick' = Reclaim(Named(u, n), table', list)
      /\ taken' = IF ~inUse THEN taken
                  ELSE IF k = "freed" \/ taken = "freed" THEN "freed" ELSE "orphaned"
  BY DEF srn_server_rename_user
<1>2. /\ nick \in [Users -> Nicks \cup {Free}] /\ table \in [Nicks -> Users \cup {NoUser}]
      /\ Free \notin Nicks /\ NoUser \notin Users /\ Me \in Users
      /\ key \in [Nicks -> {"own", "orphan", "freed"}]
      /\ taken \in {"never", "orphaned", "freed"}
  BY UsersAssumption, NicksAssumption DEF ClientOK, Heap
<1>3. stolen[n] = (IF n = o THEN NoUser ELSE table[n])
  BY <1>2
<1>4. /\ table' \in [Nicks -> Users \cup {NoUser}] /\ table'[n] = u
      /\ \A m \in Nicks \ {n} : table'[m] = IF m = o THEN NoUser ELSE table[m]
  BY <1>1, <1>2
<1> HIDE DEF stolen
<1>5. k \in {"own", "orphan", "freed"}
  BY <1>2 DEF KeyAfterReplacing
<1> HIDE DEF k
<1>6. /\ key' \in [Nicks -> {"own", "orphan", "freed"}]
      /\ taken' \in {"never", "orphaned", "freed"}
      /\ taken' # "freed" => taken # "freed" /\ (inUse => k # "freed")
      /\ taken' = "never" => taken = "never" /\ ~inUse
  BY <1>1, <1>2, <1>5
<1>7. ~inUse => k = "own"
  BY DEF k
<1> HIDE DEF inUse
<1>8. taken' # "freed" => \A m \in Nicks : key'[m] # "freed"
  <2>1. taken' # "freed" => k # "freed" /\ \A m \in Nicks : key[m] # "freed"
    BY <1>6, <1>7 DEF ClientOK, KeysKnown
  <2>2. \A m \in Nicks : key'[m] \in {k, "own", key[m]}
    BY <1>1, <1>2
  <2> QED BY <2>1, <2>2
<1>9. Named(u, n) \in [Users -> Nicks \cup {Free}] /\ Named(u, n)[u] = n
      /\ \A v \in Users \ {u} : Named(u, n)[v] = nick[v]
  BY <1>2 DEF Named
<1>10. Heap(Named(u, n), table', list)
  <2>1. ASSUME NEW m \in Nicks, table'[m] # NoUser
        PROVE  Named(u, n)[table'[m]] = m
    <3>1. CASE m = n
      BY <1>4, <1>9, <3>1
    <3>2. CASE m # n
      <4>1. m # o /\ table'[m] = table[m] /\ table[m] \in Users /\ nick[table[m]] = m
        BY <1>2, <1>4, <2>1, <3>2 DEF ClientOK, Heap
      <4> QED BY <1>9, <4>1
    <3> QED BY <3>1, <3>2
  <2>2. ASSUME NEW c \in Chats, NEW v \in UsersOf(list[c])
        PROVE  Named(u, n)[v] # Free
    <3>1. v \in Users /\ nick[v] # Free
      BY ListUsers DEF ClientOK, GoodLists, Heap
    <3> QED BY <1>2, <1>9, <3>1
  <2> QED BY <1>4, <1>9, <2>1, <2>2 DEF Heap
<1>11. GoodLists(list) /\ list' = list
  BY DEF ClientOK
<1>12. /\ Heap(nick', table', list)
       /\ \A c \in Chats : \A v \in UsersOf(list[c]) : nick'[v] = Named(u, n)[v]
  <2>1. GoodLists(list) /\ nick' = Reclaim(Named(u, n), table', list)
    BY <1>1, <1>11
  <2> QED BY <1>10, <2>1, Reclaimed
<1>13. \A c \in Chats : \A v \in UsersOf(list[c]) :
         v \in Users /\ nick[v] \in Nicks /\ nick'[v] = IF v = u THEN n ELSE nick[v]
  <2>1. SUFFICES ASSUME NEW c \in Chats, NEW v \in UsersOf(list[c])
                 PROVE  v \in Users /\ nick[v] \in Nicks /\ nick'[v] = IF v = u THEN n ELSE nick[v]
    OBVIOUS
  <2>2. v \in Users /\ nick[v] # Free
    BY ListUsers DEF ClientOK, GoodLists, Heap
  <2> QED BY <1>2, <1>9, <1>12, <2>2
<1>14. nick'[Me] = (IF Me = u THEN n ELSE nick[Me]) /\ nick[Me] \in Nicks
  BY <1>11, <1>13, OwnInServerChat, ChatKinds
<1>15. ASSUME taken' # "freed"
       PROVE  table'[nick'[Me]] = Me
  <2>1. taken # "freed" /\ table[nick[Me]] = Me /\ table[o] = u
    BY <1>6, <1>15 DEF ClientOK, KeysKnown
  <2>2. CASE u = Me
    BY <1>4, <1>14, <2>2
  <2>3. CASE u # Me
    BY <1>4, <1>14, <2>1, <2>3
  <2> QED BY <2>2, <2>3
<1>16. ClientOK'
  BY <1>6, <1>8, <1>11, <1>12, <1>15 DEF ClientOK, KeysKnown, Open
<1>17. ASSUME taken' = "never", Known
       PROVE  Known'
  <2>1. SUFFICES ASSUME NEW c \in Chats, NEW v \in UsersOf(list[c])
                 PROVE  table'[nick'[v]] = v
    BY <1>11 DEF Known
  <2>2. table[o] = u /\ table[nick[v]] = v /\ v \in Users
    BY <1>6, <1>13, <1>17 DEF Known
  <2>3. n = o \/ table[n] = NoUser
    BY <1>3, <1>6, <1>17 DEF inUse
  <2>4. CASE v = u
    BY <1>4, <1>13, <2>4
  <2>5. CASE v # u
    BY <1>2, <1>4, <1>13, <2>2, <2>3, <2>5
  <2> QED BY <2>4, <2>5
<1> QED BY <1>6, <1>13, <1>16, <1>17 DEF Renames

-----------------------------------------------------------------------------
(* The invariant: the client, the peer, and what they have in common.      *)

(* Whom a channel has, the user himself included. *)
All(c) == member[c] \cup {nick[Me]}

PeerOK ==
  /\ \A c \in Channels : nick[Me] \notin member[c] /\ (c \notin inside => member[c] = {})
  /\ \A e \in listing : e[1] \in inside /\ e[2] \in All(e[1])
  /\ ~up => inside = {}

(* The user is shown as joined where he is, nobody where he is not. *)
JoinedOK ==
  /\ joined = inside
  /\ \A c \in Chats : IF c \in joined THEN Me \in Joins(list[c]) ELSE Joins(list[c]) = {}

(* Nobody is shown who is not there, and those not shown are to be listed. *)
ShownAt(c) ==
  /\ Shown(c) \subseteq All(c)
  /\ \A n \in All(c) : n \in Shown(c) \/ <<c, n>> \in listing

ShownOK == \A c \in inside : ShownAt(c)

ChatsInv ==
  /\ ClientOK /\ PeerTypeOK /\ PeerOK
  /\ taken # "freed" => JoinedOK
  /\ taken = "never" => Known /\ ShownOK

NicksOf(nk, S) == {nk[v] : v \in S}

LEMMA ShownIs ==
  \A c : Shown(c) = NicksOf(nick, Joins(list[c])) /\ Shown(c)' = NicksOf(nick', Joins(list'[c]))
<1>1. \A nk, l : NicksOf(nk, Joins(l)) = {nk[l[i].user] : i \in {j \in DOMAIN l : l[j].joined}}
  <2>1. TAKE nk, l
  <2> DEFINE J == {j \in DOMAIN l : l[j].joined}
  <2>2. Joins(l) = {l[i].user : i \in J}
    BY DEF Joins
  <2> HIDE DEF J
  <2>3. NicksOf(nk, Joins(l)) = {nk[l[i].user] : i \in J}
    BY <2>2 DEF NicksOf
  <2> QED BY <2>3 DEF J
<1> QED BY <1>1 DEF Shown

LEMMA OwnNick == ClientOK => nick[Me] \in Nicks /\ Me \in Users
BY OwnInServerChat, ChatKinds, UsersAssumption DEF ClientOK, Heap

(* What a step makes of the names shown in a chat. *)
LEMMA ShownKept ==
  ASSUME NEW c, \A v \in Joins(list[c]) : nick'[v] = nick[v],
         Joins(list'[c]) = Joins(list[c])
  PROVE  Shown(c)' = Shown(c)
<1>1. NicksOf(nick', Joins(list[c])) = NicksOf(nick, Joins(list[c]))
  BY DEF NicksOf
<1> QED BY <1>1, ShownIs

LEMMA ShownMore ==
  ASSUME NEW c, \A v \in Joins(list[c]) : nick'[v] = nick[v],
         NEW x, Joins(list'[c]) = Joins(list[c]) \cup {x}
  PROVE  Shown(c)' = Shown(c) \cup {nick'[x]}
<1>1. NicksOf(nick', Joins(list[c]) \cup {x}) = NicksOf(nick, Joins(list[c])) \cup {nick'[x]}
  BY DEF NicksOf
<1> QED BY <1>1, ShownIs

(* Of those shown in a chat, x is the one with the nick n, and the others  *)
(* keep theirs.                                                            *)
OnlyOne(c, n, x) ==
  /\ \A v \in Joins(list[c]) : nick[v] = n <=> v = x
  /\ \A v \in Joins(list[c]) \ {x} : nick'[v] = nick[v]

LEMMA ShownLess ==
  ASSUME NEW c, NEW n, NEW x, OnlyOne(c, n, x), Joins(list'[c]) = Joins(list[c]) \ {x}
  PROVE  Shown(c)' = Shown(c) \ {n}
<1>1. NicksOf(nick', Joins(list[c]) \ {x}) = NicksOf(nick, Joins(list[c])) \ {n}
  BY DEF NicksOf, OnlyOne
<1> QED BY <1>1, ShownIs

LEMMA JoinsListed ==
  ASSUME ClientOK, NEW c \in Chats
  PROVE  Joins(list[c]) \subseteq UsersOf(list[c])
BY NobodyJoined DEF ClientOK, GoodLists

LEMMA JoinsListedNext ==
  ASSUME ClientOK', NEW c \in Chats
  PROVE  Joins(list'[c]) \subseteq UsersOf(list'[c])
BY NobodyJoined DEF ClientOK, GoodLists

-----------------------------------------------------------------------------
(* Steps that show nobody more or less.                                    *)

(* What every step has in common that renames nobody. *)
SameNicks ==
  /\ ClientOK'
  /\ nick'[Me] = nick[Me]
  /\ taken' = taken
  /\ taken = "never" /\ Known => Known'

LEMMA QuietStep ==
  ASSUME ChatsInv, SameNicks, joined' = joined, UNCHANGED peer,
         taken # "freed" => \A d \in Chats : /\ Joins(list'[d]) = Joins(list[d])
                                             /\ \A v \in Joins(list[d]) : nick'[v] = nick[v]
  PROVE  ChatsInv'
<1>1. taken # "freed" => \A c \in Chats : Shown(c)' = Shown(c)
  BY ShownKept
<1>2. ClientOK' /\ nick'[Me] = nick[Me] /\ taken' = taken /\ UNCHANGED <<up, inside, member, listing>>
  BY DEF SameNicks, peer
<1>3. PeerTypeOK' /\ PeerOK'
  BY <1>2 DEF ChatsInv, PeerTypeOK, PeerOK, All
<1>4. taken' # "freed" => JoinedOK'
  BY <1>2 DEF ChatsInv, JoinedOK
<1>5. taken' = "never" => Known'
  BY <1>2 DEF ChatsInv, SameNicks
<1>6. taken' = "never" => ShownOK'
  BY <1>1, <1>2, ChatKinds DEF ChatsInv, ShownOK, ShownAt, All, PeerTypeOK
<1> QED BY <1>2, <1>3, <1>4, <1>5, <1>6 DEF ChatsInv

LEMMA ToldIsSame == ToldOf => SameNicks /\ \A c \in Chats : \A v \in UsersOf(list[c]) : nick'[v] = nick[v]
BY DEF ToldOf, NicksKept, SameNicks

LEMMA StayedIsSame == Stayed => SameNicks /\ \A c \in Chats : \A v \in UsersOf(list'[c]) : nick'[v] = nick[v]
BY DEF Stayed, SameNicks

LEMMA QuietEventStep ==
  ASSUME ChatsInv, Quiet, UNCHANGED peer
  PROVE  ChatsInv'
<1>1. SameNicks /\ joined' = joined /\ \A d \in Chats : Joins(list'[d]) = Joins(list[d])
  BY ToldIsSame DEF Quiet
<1>2. \A d \in Chats : \A v \in Joins(list[d]) : nick'[v] = nick[v]
  BY ToldIsSame, JoinsListed DEF Quiet, ChatsInv
<1> QED BY <1>1, <1>2, QuietStep

LEMMA QuietSteps ==
  ASSUME ChatsInv,
         \/ \E n \in Nicks, c \in Channels : ChannelMessage(n, c)
         \/ \E n \in Dialogs : PrivateMessage(n) \/ CtcpRequest(n) \/ Query(n)
  PROVE  ChatsInv'
<1>1. CASE \E n \in Nicks, c \in Channels : ChannelMessage(n, c)
  BY <1>1, ChannelEvent, QuietEventStep DEF ChatsInv, ChannelMessage
<1>2. CASE \E n \in Dialogs : PrivateMessage(n)
  BY <1>2, PrivmsgEvent, QuietEventStep DEF ChatsInv, PrivateMessage
<1>3. CASE \E n \in Dialogs : CtcpRequest(n)
  BY <1>3, CtcpEvent, QuietEventStep, ChatKinds DEF ChatsInv, CtcpRequest
<1>4. CASE \E n \in Dialogs : Query(n)
  <2>1. PICK n \in Dialogs : Query(n)
    BY <1>4
  <2>2. UNCHANGED peer
    BY <2>1 DEF Query
  <2> QED BY <2>1, <2>2, QueryEvent, QuietEventStep DEF ChatsInv
<1> QED BY <1>1, <1>2, <1>3, <1>4

LEMMA CloseStep ==
  ASSUME ChatsInv, NEW c \in Channels \cup Dialogs, Close(c)
  PROVE  ChatsInv'
<1>1. /\ srn_server_rm_chat(c) /\ nick' = Reclaim(nick, table, list') /\ c \notin joined
      /\ UNCHANGED <<table, key, taken>> /\ joined' = joined /\ UNCHANGED peer
  BY DEF Close
<1>2. ClientOK /\ joined' \subseteq Channels /\ c \in Chats
  BY <1>1, ChatKinds DEF ChatsInv, ClientOK
<1>3. Stayed /\ Elsewhere(c) /\ Joins(list'[c]) = {}
  BY <1>1, <1>2, RemoveChat
<1>4. SameNicks /\ ClientOK'
  BY <1>3, StayedIsSame DEF SameNicks
<1>5. ASSUME taken # "freed", NEW d \in Chats
      PROVE  Joins(list'[d]) = Joins(list[d])
  BY <1>1, <1>2, <1>3, <1>5 DEF ChatsInv, JoinedOK, Elsewhere
<1>6. ASSUME taken # "freed", NEW d \in Chats, NEW v \in Joins(list[d])
      PROVE  nick'[v] = nick[v]
  BY <1>3, <1>4, <1>5, <1>6, StayedIsSame, JoinsListedNext
<1> QED BY <1>1, <1>4, <1>5, <1>6, QuietStep

LEMMA CutoverStep ==
  ASSUME ChatsInv, NEW c \in Chats, ui_event_cutover(c)
  PROVE  ChatsInv'
<1>1. UNCHANGED <<nick, table, key, list, joined, taken>> /\ cur' = c /\ list[c] # <<>>
      /\ UNCHANGED peer
  BY DEF ui_event_cutover, Open
<1>2. ClientOK'
  BY <1>1 DEF ChatsInv, ClientOK, Heap, GoodLists, KeysKnown, Open
<1>3. SameNicks
  BY <1>1, <1>2 DEF SameNicks, Known
<1> QED BY <1>1, <1>3, QuietStep

LEMMA StutterStep ==
  ASSUME ChatsInv, UNCHANGED vars
  PROVE  ChatsInv'
<1>1. UNCHANGED <<nick, table, key, list, joined, cur, taken>> /\ UNCHANGED peer /\ UNCHANGED client
  BY DEF vars, client
<1>2. Stayed
  BY <1>1, UnchangedStays DEF ChatsInv
<1> QED BY <1>1, <1>2, StayedIsSame, QuietStep

-----------------------------------------------------------------------------
(* Steps that change what one channel shows.                               *)

(* What such a step leaves alone. *)
OneChannel(c) ==
  /\ SameNicks
  /\ \A d \in Chats \ {c} : /\ Joins(list'[d]) = Joins(list[d])
                            /\ \A v \in Joins(list[d]) : nick'[v] = nick[v]
                            /\ taken # "freed" => (d \in joined' <=> d \in joined)
                            /\ d \in inside' <=> d \in inside
  /\ \A d \in Channels \ {c} : member'[d] = member[d]
  /\ \A d \in Channels \ {c}, m \in Nicks : <<d, m>> \in listing => <<d, m>> \in listing'

(* What it has to do to the channel. *)
JoinedAt(c) ==
  /\ c \in joined' <=> c \in inside'
  /\ IF c \in joined' THEN Me \in Joins(list'[c]) ELSE Joins(list'[c]) = {}

LEMMA ChannelStep ==
  ASSUME ChatsInv, PeerTypeOK', PeerOK', NEW c \in Channels, OneChannel(c),
         taken # "freed" => JoinedAt(c),
         taken = "never" /\ Known' /\ c \in inside' => ShownAt(c)'
  PROVE  ChatsInv'
<1>1. /\ ClientOK' /\ nick'[Me] = nick[Me] /\ taken' = taken /\ c \in Chats
      /\ Channels \subseteq Chats /\ inside \subseteq Channels /\ inside' \subseteq Channels
      /\ joined' \subseteq Channels
  BY ChatKinds DEF OneChannel, SameNicks, PeerTypeOK, ClientOK, ChatsInv
<1>2. taken = "never" => Known'
  BY DEF OneChannel, SameNicks, ChatsInv
<1>3. ASSUME taken' # "freed"
      PROVE  JoinedOK'
  <2>1. JoinedOK /\ JoinedAt(c)
    BY <1>1, <1>3 DEF ChatsInv
  <2>2. joined' = inside'
    <3>1. \A d \in Chats : d \in joined' <=> d \in inside'
      BY <1>1, <1>3, <2>1 DEF JoinedOK, JoinedAt, OneChannel
    <3> QED BY <1>1, <3>1
  <2>3. \A d \in Chats : IF d \in joined' THEN Me \in Joins(list'[d]) ELSE Joins(list'[d]) = {}
    BY <1>1, <1>3, <2>1 DEF JoinedOK, JoinedAt, OneChannel
  <2> QED BY <2>2, <2>3 DEF JoinedOK
<1>4. ASSUME taken' = "never"
      PROVE  ShownOK'
  <2>1. ASSUME NEW d \in inside'
        PROVE  ShownAt(d)'
    <3>1. CASE d = c
      BY <1>1, <1>2, <1>4, <2>1, <3>1
    <3>2. CASE d # c
      <4>1. d \in inside /\ d \in Channels \ {c} /\ d \in Chats \ {c}
        BY <1>1, <2>1, <3>2 DEF OneChannel
      <4>2. ShownAt(d)
        BY <1>1, <1>4, <4>1 DEF ChatsInv, ShownOK
      <4>3. Shown(d)' = Shown(d)
        BY <4>1, ShownKept DEF OneChannel
      <4>4. member'[d] = member[d] /\ \A m \in Nicks : <<d, m>> \in listing => <<d, m>> \in listing'
        BY <4>1 DEF OneChannel
      <4>5. All(d)' = All(d) /\ All(d) \subseteq Nicks
        BY <1>1, <4>1, <4>4, OwnNick DEF All, ChatsInv, PeerTypeOK
      <4> QED BY <4>2, <4>3, <4>4, <4>5 DEF ShownAt
    <3> QED BY <3>1, <3>2
  <2> QED BY <2>1 DEF ShownOK
<1> QED BY <1>1, <1>2, <1>3, <1>4 DEF ChatsInv

LEMMA ToldElsewhere ==
  ASSUME ClientOK, NEW c \in Channels, ToldOf, Elsewhere(c),
         NEW J, joined' = J
  PROVE  /\ SameNicks
         /\ \A d \in Chats \ {c} : /\ Joins(list'[d]) = Joins(list[d])
                                   /\ \A v \in Joins(list[d]) : nick'[v] = nick[v]
         /\ \A v \in Joins(list[c]) : nick'[v] = nick[v]
BY ToldIsSame, JoinsListed, ChatKinds DEF Elsewhere

LEMMA StayedElsewhere ==
  ASSUME ClientOK, NEW c \in Channels, Stayed, Elsewhere(c)
  PROVE  /\ SameNicks
         /\ \A d \in Chats \ {c} : /\ Joins(list'[d]) = Joins(list[d])
                                   /\ \A v \in Joins(list[d]) : nick'[v] = nick[v]
<1>1. SameNicks /\ \A d \in Chats : \A v \in UsersOf(list'[d]) : nick'[v] = nick[v]
  BY StayedIsSame
<1>2. ClientOK'
  BY <1>1 DEF SameNicks
<1>3. \A d \in Chats : Joins(list'[d]) \subseteq UsersOf(list'[d])
  BY <1>2, JoinsListedNext
<1> QED BY <1>1, <1>3 DEF Elsewhere

LEMMA NamesStep ==
  ASSUME ChatsInv, Names
  PROVE  ChatsInv'
<1>1. PICK e \in listing :
        /\ listing' = listing \ {e}
        /\ irc_event_numeric_NAMREPLY(e[2], e[1])
        /\ UNCHANGED <<up, inside, member>>
  BY DEF Names
<1> DEFINE c == e[1]
           n == e[2]
<1>2. c \in Channels /\ n \in Nicks /\ e = <<c, n>> /\ c \in inside /\ n \in All(c) /\ ClientOK
  BY DEF ChatsInv, PeerTypeOK, PeerOK
<1> HIDE DEF c, n
<1>3. irc_event_numeric_NAMREPLY(n, c)
  BY <1>1 DEF c, n
<1>4. ToldOf /\ Elsewhere(c) /\ joined' = joined /\ (Open(c) => EnrolledIn(n, c))
  BY <1>2, <1>3, NamreplyEvent
<1>5. /\ SameNicks /\ \A d \in Chats \ {c} : /\ Joins(list'[d]) = Joins(list[d])
                                   /\ \A v \in Joins(list[d]) : nick'[v] = nick[v]
      /\ \A v \in Joins(list[c]) : nick'[v] = nick[v]
  BY <1>2, <1>4, ToldElsewhere
<1>6. OneChannel(c)
  BY <1>1, <1>2, <1>4, <1>5 DEF OneChannel
<1>7. PeerTypeOK' /\ PeerOK'
  BY <1>1, <1>5 DEF ChatsInv, PeerTypeOK, PeerOK, SameNicks, All
<1>8. ASSUME taken # "freed"
      PROVE  JoinedAt(c) /\ EnrolledIn(n, c)
  <2>1. c \in joined /\ c \in joined' /\ c \in inside' /\ Me \in Joins(list[c])
    BY <1>1, <1>2, <1>4, <1>8, ChatKinds DEF ChatsInv, JoinedOK
  <2>2. Open(c)
    BY <2>1 DEF Joins, Open
  <2>3. EnrolledIn(n, c)
    BY <1>4, <2>2
  <2> QED BY <2>1, <2>3 DEF JoinedAt, EnrolledIn
<1>9. ASSUME taken = "never"
      PROVE  ShownAt(c)'
  <2>1. ShownAt(c)
    BY <1>2, <1>9 DEF ChatsInv, ShownOK
  <2>2. PICK x : nick'[x] = n /\ Joins(list'[c]) = Joins(list[c]) \cup {x}
    BY <1>8, <1>9 DEF EnrolledIn
  <2>3. Shown(c)' = Shown(c) \cup {n}
    BY <1>5, <2>2, ShownMore
  <2>4. All(c)' = All(c)
    BY <1>1, <1>5 DEF All, SameNicks
  <2> QED BY <1>1, <1>2, <2>1, <2>3, <2>4 DEF ShownAt
<1> QED BY <1>2, <1>6, <1>7, <1>8, <1>9, ChannelStep

LEMMA JoinStep ==
  ASSUME ChatsInv, NEW n \in Nicks, NEW c \in Channels, Join(n, c)
  PROVE  ChatsInv'
<1>1. /\ c \in inside /\ n \notin member[c] \cup {nick[Me]} /\ listing = {} /\ up
      /\ member' = [member EXCEPT ![c] = @ \cup {n}]
      /\ irc_event_join(n, c)
      /\ UNCHANGED <<up, inside, listing>>
  BY DEF Join, PeerTurn
<1>2. n # nick[Me] /\ ClientOK /\ member \in [Channels -> SUBSET Nicks]
  BY <1>1 DEF ChatsInv, PeerTypeOK
<1>3. ToldOf /\ Elsewhere(c) /\ joined' = joined /\ (Open(c) => EnrolledIn(n, c))
  BY <1>1, <1>2, JoinEvent
<1>4. /\ SameNicks /\ \A d \in Chats \ {c} : /\ Joins(list'[d]) = Joins(list[d])
                                   /\ \A v \in Joins(list[d]) : nick'[v] = nick[v]
      /\ \A v \in Joins(list[c]) : nick'[v] = nick[v]
  BY <1>2, <1>3, ToldElsewhere
<1>5. /\ member' \in [Channels -> SUBSET Nicks] /\ member'[c] = member[c] \cup {n}
      /\ \A d \in Channels \ {c} : member'[d] = member[d]
  BY <1>1, <1>2
<1>6. OneChannel(c)
  BY <1>1, <1>3, <1>4, <1>5 DEF OneChannel
<1>7. PeerTypeOK' /\ PeerOK'
  <2>1. \A d \in Channels : nick'[Me] \notin member'[d] /\ (d \notin inside' => member'[d] = {})
    BY <1>1, <1>2, <1>4, <1>5 DEF ChatsInv, PeerOK, SameNicks
  <2> QED BY <1>1, <1>5, <2>1 DEF ChatsInv, PeerTypeOK, PeerOK
<1>8. ASSUME taken # "freed"
      PROVE  JoinedAt(c) /\ EnrolledIn(n, c)
  <2>1. c \in joined /\ c \in joined' /\ c \in inside' /\ Me \in Joins(list[c])
    BY <1>1, <1>3, <1>8, ChatKinds DEF ChatsInv, JoinedOK
  <2>2. Open(c)
    BY <2>1 DEF Joins, Open
  <2>3. EnrolledIn(n, c)
    BY <1>3, <2>2
  <2> QED BY <2>1, <2>3 DEF JoinedAt, EnrolledIn
<1>9. ASSUME taken = "never"
      PROVE  ShownAt(c)'
  <2>1. ShownAt(c)
    BY <1>1, <1>9 DEF ChatsInv, ShownOK
  <2>2. PICK x : nick'[x] = n /\ Joins(list'[c]) = Joins(list[c]) \cup {x}
    BY <1>8, <1>9 DEF EnrolledIn
  <2>3. Shown(c)' = Shown(c) \cup {n}
    BY <1>4, <2>2, ShownMore
  <2>4. All(c)' = All(c) \cup {n}
    BY <1>4, <1>5 DEF All, SameNicks
  <2> QED BY <1>1, <2>1, <2>3, <2>4 DEF ShownAt
<1> QED BY <1>6, <1>7, <1>8, <1>9, ChannelStep

LEMMA SelfJoinStep ==
  ASSUME ChatsInv, NEW c \in Channels, SelfJoin(c)
  PROVE  ChatsInv'
<1>1. PICK S \in SUBSET (Nicks \ {nick[Me]}) :
        /\ member' = [member EXCEPT ![c] = S]
        /\ listing' = {c} \X (S \cup {nick[Me]})
  BY DEF SelfJoin
<1>2. /\ c \notin inside /\ listing = {} /\ up /\ up' = up
      /\ inside' = inside \cup {c}
      /\ irc_event_join(nick[Me], c)
  BY DEF SelfJoin, PeerTurn
<1>3. /\ nick[Me] \in Nicks /\ ClientOK /\ member \in [Channels -> SUBSET Nicks]
      /\ inside \subseteq Channels /\ c \in Chats
  BY OwnNick, ChatKinds DEF ChatsInv, PeerTypeOK
<1>4. /\ ToldOf /\ Elsewhere(c)
      /\ taken # "freed" => joined' = joined \cup {c} /\ Joins(list'[c]) = Joins(list[c]) \cup {Me}
  BY <1>2, <1>3, JoinEvent
<1>5. /\ SameNicks /\ \A d \in Chats \ {c} : /\ Joins(list'[d]) = Joins(list[d])
                                   /\ \A v \in Joins(list[d]) : nick'[v] = nick[v]
      /\ \A v \in Joins(list[c]) : nick'[v] = nick[v]
  BY <1>3, <1>4, ToldElsewhere
<1>6. /\ member' \in [Channels -> SUBSET Nicks] /\ member'[c] = S
      /\ \A d \in Channels \ {c} : member'[d] = member[d]
  BY <1>1, <1>3
<1>7. taken # "freed" => \A d \in Chats \ {c} : d \in joined' <=> d \in joined
  BY <1>4
<1>8. OneChannel(c)
  BY <1>1, <1>2, <1>5, <1>6, <1>7 DEF OneChannel
<1>9. PeerTypeOK' /\ PeerOK'
  <2>1. \A d \in Channels : nick'[Me] \notin member'[d] /\ (d \notin inside' => member'[d] = {})
    BY <1>1, <1>2, <1>3, <1>5, <1>6 DEF ChatsInv, PeerOK, SameNicks
  <2>2. \A e \in listing' : e \in Channels \X Nicks /\ e[1] = c /\ e[2] \in member'[c] \cup {nick'[Me]}
    BY <1>1, <1>3, <1>5, <1>6 DEF SameNicks
  <2>3. \A e \in listing' : e[1] \in inside' /\ e[2] \in All(e[1])'
    BY <1>2, <2>2 DEF All
  <2> QED BY <1>2, <1>3, <1>6, <2>1, <2>2, <2>3 DEF ChatsInv, PeerTypeOK, PeerOK
<1>10. ASSUME taken # "freed"
       PROVE  JoinedAt(c)
  BY <1>2, <1>4, <1>10 DEF JoinedAt
<1>11. ASSUME taken = "never"
       PROVE  ShownAt(c)'
  <2>1. Joins(list[c]) = {}
    BY <1>2, <1>3, <1>11 DEF ChatsInv, JoinedOK
  <2>2. Joins(list'[c]) = Joins(list[c]) \cup {Me}
    BY <1>4, <1>11
  <2>3. Shown(c)' = Shown(c) \cup {nick'[Me]}
    BY <2>1, <2>2, ShownMore
  <2>4. Shown(c) = {}
    BY <2>1, ShownIs DEF NicksOf
  <2>5. All(c)' = S \cup {nick[Me]} /\ nick'[Me] = nick[Me]
    BY <1>5, <1>6 DEF All, SameNicks
  <2> QED BY <1>1, <2>3, <2>4, <2>5 DEF ShownAt
<1> QED BY <1>8, <1>9, <1>10, <1>11, ChannelStep

-----------------------------------------------------------------------------
(* Steps that show somebody no more.                                       *)

LEMMA LeftShown ==
  ASSUME NEW c \in Chats, NEW n, LeftIn(n, c), Known', ClientOK,
         \A v \in UsersOf(list[c]) : nick'[v] = nick[v]
  PROVE  Shown(c)' = Shown(c) \ {n}
<1>1. PICK x : /\ Joins(list'[c]) = Joins(list[c]) \ {x}
               /\ UsersOf(list[c]) \subseteq UsersOf(list'[c])
               /\ x \in UsersOf(list'[c]) => nick'[x] = n
               /\ (\E v \in UsersOf(list'[c]) : nick'[v] = n) => x \in UsersOf(list'[c])
  BY DEF LeftIn
<1>2. Joins(list[c]) \subseteq UsersOf(list[c])
  BY JoinsListed
<1>3. ASSUME NEW v \in Joins(list[c])
      PROVE  nick[v] = n <=> v = x
  <2>1. v \in UsersOf(list'[c]) /\ nick'[v] = nick[v] /\ table'[nick'[v]] = v
    BY <1>1, <1>2, <1>3 DEF Known
  <2>2. v = x => nick[v] = n
    BY <1>1, <2>1
  <2>3. ASSUME nick[v] = n
        PROVE  v = x
    <3>1. x \in UsersOf(list'[c]) /\ nick'[x] = n
      BY <1>1, <2>1, <2>3
    <3>2. table'[n] = x
      BY <3>1 DEF Known
    <3> QED BY <2>1, <2>3, <3>2
  <2> QED BY <2>2, <2>3
<1>4. \A v \in Joins(list[c]) \ {x} : nick'[v] = nick[v]
  BY <1>2
<1>5. OnlyOne(c, n, x)
  BY <1>3, <1>4 DEF OnlyOne
<1>6. Joins(list'[c]) = Joins(list[c]) \ {x}
  BY <1>1
<1> QED BY <1>5, <1>6, ShownLess

LEMMA LeftJoined ==
  ASSUME NEW c, NEW n, LeftIn(n, c), Me \in Joins(list[c])
  PROVE  Me \in Joins(list'[c])
BY DEF LeftIn

(* What the peer makes of it when one leaves a channel. *)
LEMMA PeerLeft ==
  ASSUME ChatsInv, NEW n \in Nicks, NEW c \in Channels, c \in inside, listing = {},
         Leaves(n, c), UNCHANGED <<up, listing>>, up, nick'[Me] = nick[Me]
  PROVE  /\ PeerTypeOK' /\ PeerOK'
         /\ \A d \in Channels \ {c} : member'[d] = member[d]
         /\ \A d \in Chats \ {c} : d \in inside' <=> d \in inside
         /\ n = nick[Me] => c \notin inside'
         /\ n # nick[Me] => c \in inside' /\ member'[c] = member[c] \ {n}
<1>1. /\ member \in [Channels -> SUBSET Nicks] /\ inside \subseteq Channels
      /\ \A d \in Channels : nick[Me] \notin member[d] /\ (d \notin inside => member[d] = {})
  BY DEF ChatsInv, PeerTypeOK, PeerOK
<1>2. /\ n = nick[Me] => /\ inside' = inside \ {c}
                         /\ member' = [member EXCEPT ![c] = {}]
      /\ n # nick[Me] => /\ inside' = inside
                         /\ member' = [member EXCEPT ![c] = @ \ {n}]
  BY DEF Leaves
<1>3. /\ member' \in [Channels -> SUBSET Nicks] /\ inside' \subseteq Channels
      /\ \A d \in Channels \ {c} : member'[d] = member[d]
      /\ \A d \in Chats \ {c} : d \in inside' <=> d \in inside
      /\ n = nick[Me] => c \notin inside' /\ member'[c] = {}
      /\ n # nick[Me] => c \in inside' /\ member'[c] = member[c] \ {n}
  BY <1>1, <1>2
<1>4. PeerTypeOK'
  BY <1>3 DEF ChatsInv, PeerTypeOK
<1>5. \A d \in Channels : nick'[Me] \notin member'[d] /\ (d \notin inside' => member'[d] = {})
  BY <1>1, <1>3, ChatKinds
<1>6. PeerOK'
  BY <1>5 DEF PeerOK
<1> QED BY <1>3, <1>4, <1>6

(* Another one leaves. *)
LEMMA OtherLeft ==
  ASSUME ChatsInv, NEW n \in Nicks, NEW c \in Channels, c \in inside, listing = {},
         Leaves(n, c), UNCHANGED <<up, listing>>, up,
         SameNicks, Elsewhere(c), joined' = joined, LeftIn(n, c), n # nick[Me],
         \A d \in Chats \ {c} : \A v \in Joins(list[d]) : nick'[v] = nick[v],
         \A v \in UsersOf(list[c]) : nick'[v] = nick[v]
  PROVE  ChatsInv'
<1>1. ClientOK /\ c \in Chats /\ nick'[Me] = nick[Me]
  BY ChatKinds DEF ChatsInv, SameNicks
<1>2. /\ PeerTypeOK' /\ PeerOK'
      /\ \A d \in Channels \ {c} : member'[d] = member[d]
      /\ \A d \in Chats \ {c} : d \in inside' <=> d \in inside
      /\ c \in inside' /\ member'[c] = member[c] \ {n}
  BY <1>1, PeerLeft
<1>3. OneChannel(c)
  BY <1>2 DEF OneChannel, Elsewhere
<1>4. ASSUME taken # "freed"
      PROVE  JoinedAt(c)
  <2>1. c \in joined /\ Me \in Joins(list[c])
    BY <1>1, <1>4 DEF ChatsInv, JoinedOK
  <2> QED BY <1>2, <2>1, LeftJoined DEF JoinedAt
<1>5. ASSUME taken = "never", Known'
      PROVE  ShownAt(c)'
  <2>1. ShownAt(c)
    BY <1>5 DEF ChatsInv, ShownOK
  <2>2. Shown(c)' = Shown(c) \ {n}
    BY <1>1, <1>5, LeftShown
  <2>3. All(c)' = All(c) \ {n}
    BY <1>1, <1>2 DEF All
  <2> QED BY <2>1, <2>2, <2>3 DEF ShownAt
<1> QED BY <1>2, <1>3, <1>4, <1>5, ChannelStep

(* The user himself leaves. *)
LEMMA OwnLeft ==
  ASSUME ChatsInv, NEW c \in Channels, c \in inside, listing = {},
         Leaves(nick[Me], c), UNCHANGED <<up, listing>>, up,
         SameNicks, Elsewhere(c),
         \A d \in Chats \ {c} : \A v \in Joins(list[d]) : nick'[v] = nick[v],
         Me \in Joins(list[c]) /\ c \in joined => joined' = joined \ {c} /\ Joins(list'[c]) = {}
  PROVE  ChatsInv'
<1>1. nick[Me] \in Nicks /\ c \in Chats /\ nick'[Me] = nick[Me]
  BY OwnNick, ChatKinds DEF ChatsInv, SameNicks
<1>2. /\ PeerTypeOK' /\ PeerOK'
      /\ \A d \in Channels \ {c} : member'[d] = member[d]
      /\ \A d \in Chats \ {c} : d \in inside' <=> d \in inside
      /\ c \notin inside'
  BY <1>1, PeerLeft
<1>3. taken # "freed" => joined' = joined \ {c} /\ Joins(list'[c]) = {}
  BY <1>1 DEF ChatsInv, JoinedOK
<1>4. OneChannel(c)
  BY <1>2, <1>3 DEF OneChannel, Elsewhere
<1>5. taken # "freed" => JoinedAt(c)
  BY <1>2, <1>3 DEF JoinedAt
<1> QED BY <1>2, <1>4, <1>5, ChannelStep

LEMMA PartStep ==
  ASSUME ChatsInv, NEW n \in Nicks, NEW c \in Channels, Part(n, c)
  PROVE  ChatsInv'
<1>1. /\ c \in inside /\ listing = {} /\ up
      /\ Leaves(n, c) /\ irc_event_part(n, c) /\ UNCHANGED <<up, listing>>
  BY DEF Part, PeerTurn
<1>2. ClientOK /\ c \in Chats
  BY ChatKinds DEF ChatsInv
<1>3. CASE n = nick[Me]
  <2>1. /\ Stayed /\ Elsewhere(c)
        /\ Me \in Joins(list[c]) => joined' = joined \ {c} /\ Joins(list'[c]) = {}
    BY <1>1, <1>2, <1>3, OwnPartEvent
  <2>2. SameNicks /\ \A d \in Chats \ {c} : \A v \in Joins(list[d]) : nick'[v] = nick[v]
    BY <1>2, <2>1, StayedElsewhere
  <2> QED BY <1>1, <1>3, <2>1, <2>2, OwnLeft
<1>4. CASE n # nick[Me]
  <2>1. Stayed /\ Elsewhere(c) /\ joined' = joined /\ LeftIn(n, c)
    BY <1>1, <1>2, <1>4, PartEvent
  <2>2. SameNicks /\ \A d \in Chats \ {c} : \A v \in Joins(list[d]) : nick'[v] = nick[v]
    BY <1>2, <2>1, StayedElsewhere
  <2>3. \A v \in UsersOf(list[c]) : nick'[v] = nick[v]
    BY <1>2, <2>1, StayedIsSame DEF LeftIn
  <2> QED BY <1>1, <1>4, <2>1, <2>2, <2>3, OtherLeft
<1> QED BY <1>3, <1>4

LEMMA KickStep ==
  ASSUME ChatsInv, NEW by \in Nicks, NEW n \in Nicks, NEW c \in Channels, Kick(by, n, c)
  PROVE  ChatsInv'
<1>1. /\ c \in inside /\ listing = {} /\ up
      /\ Leaves(n, c) /\ irc_event_kick(by, n, c) /\ UNCHANGED <<up, listing>>
  BY DEF Kick, PeerTurn
<1>2. ClientOK /\ c \in Chats
  BY ChatKinds DEF ChatsInv
<1>3. taken # "freed" => c \in joined /\ Me \in Joins(list[c]) /\ Open(c)
  <2>1. ASSUME taken # "freed"
        PROVE  c \in joined /\ Me \in Joins(list[c])
    BY <1>1, <1>2, <2>1 DEF ChatsInv, JoinedOK
  <2>2. ~Open(c) => Joins(list[c]) = {}
    BY DEF Open, Joins
  <2> QED BY <2>1, <2>2
<1>4. ToldOf /\ Elsewhere(c)
  <2>1. CASE ~Open(c)
    <3>1. UNCHANGED client
      BY <1>1, <2>1 DEF irc_event_kick
    <3> QED BY <1>2, <3>1, UnchangedClient DEF Elsewhere, client
  <2>2. CASE Open(c)
    BY <1>1, <1>2, <2>2, KickEvent
  <2> QED BY <2>1, <2>2
<1>5. /\ SameNicks
      /\ \A d \in Chats : \A v \in UsersOf(list[d]) : nick'[v] = nick[v]
      /\ \A d \in Chats : \A v \in Joins(list[d]) : nick'[v] = nick[v]
  BY <1>2, <1>4, ToldIsSame, JoinsListed
<1>6. CASE n = nick[Me]
  <2>1. Open(c) => joined' = joined \ {c} /\ (c \in joined => Joins(list'[c]) = {})
    BY <1>1, <1>2, <1>6, KickEvent
  <2>2. Me \in Joins(list[c]) => Open(c)
    BY DEF Open, Joins
  <2> QED BY <1>1, <1>4, <1>5, <1>6, <2>1, <2>2, OwnLeft
<1>7. CASE n # nick[Me] /\ Open(c)
  <2>1. joined' = joined /\ LeftIn(n, c)
    BY <1>1, <1>2, <1>7, KickEvent
  <2> QED BY <1>1, <1>2, <1>4, <1>5, <1>7, <2>1, OtherLeft
<1>8. CASE n # nick[Me] /\ ~Open(c)
  <2>1. UNCHANGED client
    BY <1>1, <1>8 DEF irc_event_kick
  <2>2. /\ PeerTypeOK' /\ PeerOK'
        /\ \A d \in Channels \ {c} : member'[d] = member[d]
        /\ \A d \in Chats \ {c} : d \in inside' <=> d \in inside
    BY <1>1, <1>5, PeerLeft DEF SameNicks
  <2>3. taken = "freed" /\ joined' = joined
    BY <1>3, <1>8, <2>1 DEF client
  <2>4. OneChannel(c)
    BY <1>1, <1>4, <1>5, <2>2, <2>3 DEF OneChannel, Elsewhere
  <2> QED BY <2>2, <2>3, <2>4, ChannelStep
<1> QED BY <1>6, <1>7, <1>8

LEMMA QuitStep ==
  ASSUME ChatsInv, NEW n \in Nicks, Quit(n)
  PROVE  ChatsInv'
<1>1. /\ listing = {} /\ up /\ n \in Others
      /\ member' = [c \in Channels |-> member[c] \ {n}]
      /\ irc_event_quit(n)
      /\ UNCHANGED <<up, inside, listing>>
  BY DEF Quit, PeerTurn
<1>2. /\ ClientOK /\ PeerTypeOK /\ PeerOK /\ Channels \subseteq Chats
      /\ member \in [Channels -> SUBSET Nicks] /\ inside \subseteq Channels
  BY ChatKinds DEF ChatsInv, PeerTypeOK
<1>3. n # nick[Me]
  BY <1>1, <1>2 DEF PeerOK, Others
<1>4. PICK u : /\ Stayed /\ joined' = joined /\ u # Me
               /\ taken # "freed" => u = table[n]
               /\ \A c \in Chats : Joins(list'[c]) = Joins(list[c]) \ {u}
  BY <1>1, <1>2, <1>3, QuitEvent
<1>5. /\ ClientOK' /\ nick'[Me] = nick[Me] /\ taken' = taken /\ (Known => Known')
      /\ \A c \in Chats : \A v \in Joins(list[c]) \ {u} : nick'[v] = nick[v]
  BY <1>4, JoinsListedNext DEF Stayed
<1>6. PeerTypeOK' /\ PeerOK'
  BY <1>1, <1>2, <1>5 DEF PeerTypeOK, PeerOK
<1>7. ASSUME taken' # "freed"
      PROVE  JoinedOK'
  <2>1. JoinedOK
    BY <1>5, <1>7 DEF ChatsInv
  <2> QED BY <1>1, <1>4, <2>1 DEF JoinedOK
<1>8. ASSUME taken' = "never"
      PROVE  ShownOK'
  <2>1. ASSUME NEW c \in inside'
        PROVE  ShownAt(c)'
    <3>1. c \in inside /\ c \in Channels /\ c \in Chats
      BY <1>1, <1>2, <2>1
    <3>2. ShownAt(c) /\ Known /\ u = table[n]
      BY <1>4, <1>5, <1>8, <3>1 DEF ChatsInv, ShownOK
    <3>3. \A v \in Joins(list[c]) : v \in Users /\ v # NoUser /\ nick[v] \in Nicks /\ table[nick[v]] = v
      <4>1. ASSUME NEW v \in Joins(list[c])
            PROVE  v \in Users /\ v # NoUser /\ nick[v] \in Nicks /\ table[nick[v]] = v
        <5>1. v \in UsersOf(list[c]) /\ GoodList(list[c])
          BY <1>2, <3>1, JoinsListed DEF ClientOK, GoodLists
        <5>2. v \in Users /\ nick[v] # Free /\ table[nick[v]] = v
          BY <1>2, <3>1, <3>2, <5>1, ListUsers DEF ClientOK, Heap, Known
        <5> QED BY <1>2, <5>2, UsersAssumption DEF ClientOK, Heap
      <4> QED BY <4>1
    <3>4. \A v \in Joins(list[c]) : nick[v] = n <=> v = u
      BY <1>2, <3>2, <3>3 DEF ClientOK, Heap
    <3>5. Joins(list'[c]) = Joins(list[c]) \ {u} /\ \A v \in Joins(list[c]) \ {u} : nick'[v] = nick[v]
      BY <1>4, <1>5, <3>1
    <3>6. OnlyOne(c, n, u) /\ Joins(list'[c]) = Joins(list[c]) \ {u}
      BY <3>4, <3>5 DEF OnlyOne
    <3>7. Shown(c)' = Shown(c) \ {n}
      BY <3>6, ShownLess
    <3>8. All(c)' = All(c) \ {n}
      BY <1>1, <1>2, <1>3, <1>5, <3>1 DEF All
    <3> QED BY <1>1, <3>2, <3>7, <3>8 DEF ShownAt
  <2> QED BY <2>1 DEF ShownOK
<1> QED BY <1>5, <1>6, <1>7, <1>8 DEF ChatsInv

LEMMA DisconnectStep ==
  ASSUME ChatsInv, Disconnect
  PROVE  ChatsInv'
<1>1. /\ up' = FALSE /\ inside' = {} /\ listing' = {}
      /\ member' = [c \in Channels |-> {}]
      /\ irc_event_disconnect
  BY DEF Disconnect
<1>2. /\ Stayed /\ joined' = {}
      /\ \A c \in Chats : Joins(list'[c]) = IF c \in joined THEN {} ELSE Joins(list[c])
  BY <1>1, DisconnectEvent DEF ChatsInv
<1>3. ClientOK' /\ taken' = taken /\ (Known => Known')
  BY <1>2 DEF Stayed
<1>4. PeerTypeOK' /\ PeerOK'
  BY <1>1 DEF PeerTypeOK, PeerOK
<1>5. taken' # "freed" => JoinedOK'
  BY <1>1, <1>2, <1>3 DEF ChatsInv, JoinedOK
<1>6. ShownOK'
  BY <1>1 DEF ShownOK
<1> QED BY <1>3, <1>4, <1>5, <1>6 DEF ChatsInv

-----------------------------------------------------------------------------
(* Steps that rename a user.                                               *)

LEMMA RenamedShown ==
  ASSUME ClientOK, NEW c \in Chats, NEW u \in Users, NEW o \in Nicks, NEW n \in Nicks,
         Known, nick[u] = o, table[o] = u, Renames(u, n), list' = list
  PROVE  Shown(c)' = {IF m = o THEN n ELSE m : m \in Shown(c)}
<1> DEFINE R(m) == IF m = o THEN n ELSE m
<1>1. ASSUME NEW v \in Joins(list[c])
      PROVE  nick'[v] = R(nick[v])
  <2>1. v \in UsersOf(list[c])
    BY <1>1, JoinsListed
  <2>2. nick'[v] = (IF v = u THEN n ELSE nick[v]) /\ table[nick[v]] = v
    BY <2>1 DEF Renames, Known
  <2> QED BY <2>2
<1> HIDE DEF R
<1>2. NicksOf(nick', Joins(list[c])) = {R(m) : m \in NicksOf(nick, Joins(list[c]))}
  BY <1>1 DEF NicksOf
<1>3. Shown(c)' = {R(m) : m \in Shown(c)}
  BY <1>2, ShownIs
<1> QED BY <1>3 DEF R

(* Nothing is shown differently but a nick. *)
LEMMA RenamedJoined ==
  ASSUME ChatsInv, NEW u, NEW n, Renames(u, n), UNCHANGED <<list, joined, inside>>
  PROVE  taken' # "freed" => JoinedOK'
BY DEF ChatsInv, JoinedOK, Renames

LEMMA WelcomeStep ==
  ASSUME ChatsInv, NEW n \in Nicks, Welcome(n)
  PROVE  ChatsInv'
<1>1. ~up /\ up' = TRUE /\ irc_event_welcome(n) /\ UNCHANGED <<inside, member, listing>>
  BY DEF Welcome
<1>2. ClientOK /\ nick[Me] \in Nicks /\ Me \in Users /\ inside = {}
  BY <1>1, OwnNick DEF ChatsInv, PeerOK
<1>3. PeerTypeOK'
  BY <1>1 DEF ChatsInv, PeerTypeOK
<1>4. PeerOK'
  BY <1>1, <1>2 DEF ChatsInv, PeerOK, PeerTypeOK
<1>5. ShownOK'
  BY <1>1, <1>2 DEF ShownOK
<1>6. PICK u \in srn_server_get_user(nick[Me]) :
        /\ IF u = NoUser THEN UNCHANGED <<nick, table, key, taken>>
                         ELSE srn_server_rename_user(Me, nick[Me], n)
        /\ UNCHANGED <<list, joined, cur>>
  BY <1>1 DEF irc_event_welcome
<1>7. CASE u = NoUser
  <2>1. UNCHANGED client
    BY <1>6, <1>7 DEF client
  <2>2. ClientOK' /\ taken' = taken /\ (taken = "never" /\ Known => Known')
    BY <1>2, <2>1, UnchangedClient DEF ToldOf
  <2>3. taken' # "freed" => JoinedOK'
    BY <1>1, <2>1 DEF client, ChatsInv, JoinedOK
  <2> QED BY <1>3, <1>4, <1>5, <2>2, <2>3 DEF ChatsInv
<1>8. CASE u # NoUser
  <2>1. srn_server_rename_user(Me, nick[Me], n)
    BY <1>6, <1>8
  <2>2. taken # "freed" => table[nick[Me]] = Me
    BY <1>2 DEF ClientOK, KeysKnown
  <2>3. Renames(Me, n)
    BY <1>2, <1>6, <2>1, <2>2, RenameEvent
  <2>4. taken' # "freed" => JoinedOK'
    BY <1>1, <1>6, <2>3, RenamedJoined
  <2> QED BY <1>3, <1>4, <1>5, <2>3, <2>4 DEF ChatsInv, Renames
<1> QED BY <1>7, <1>8

LEMMA NickStep ==
  ASSUME ChatsInv, NEW o \in Nicks, NEW n \in Nicks, Nick(o, n)
  PROVE  ChatsInv'
<1>1. /\ listing = {} /\ up
      /\ o \in Others \cup {nick[Me]}
      /\ n \notin Others /\ n # nick[Me]
      /\ member' = [c \in Channels |->
           IF o \in member[c] THEN (member[c] \ {o}) \cup {n} ELSE member[c]]
      /\ irc_event_nick(o, n)
      /\ UNCHANGED <<up, inside, listing>>
  BY DEF Nick, PeerTurn
<1>2. /\ ClientOK /\ nick[Me] \in Nicks /\ Channels \subseteq Chats
      /\ member \in [Channels -> SUBSET Nicks] /\ inside \subseteq Channels
      /\ \A c \in Channels : nick[Me] \notin member[c] /\ (c \notin inside => member[c] = {})
      /\ Me \in UsersOf(list[ServerChat]) /\ ServerChat \in Chats
  BY OwnNick, ChatKinds, OwnInServerChat DEF ChatsInv, PeerTypeOK, PeerOK, ClientOK
<1>3. PeerTypeOK'
  BY <1>1, <1>2 DEF ChatsInv, PeerTypeOK
<1>4. PICK u \in srn_server_get_user(o) :
        /\ IF u = NoUser THEN UNCHANGED <<nick, table, key, taken>>
                         ELSE srn_server_rename_user(u, o, n)
        /\ UNCHANGED <<list, joined, cur>>
  BY <1>1 DEF irc_event_nick
<1>5. (u = table[o] \/ u = NoUser) /\ (taken # "freed" => u = table[o])
  BY <1>2 DEF srn_server_get_user, ClientOK, KeysKnown
<1>6. \A c \in Channels : member'[c] = IF o \in member[c] THEN (member[c] \ {o}) \cup {n} ELSE member[c]
  BY <1>1
<1>7. ASSUME nick'[Me] = nick[Me] \/ (o = nick[Me] /\ nick'[Me] = n)
      PROVE  PeerOK'
  <2>1. ASSUME NEW c \in Channels
        PROVE  nick'[Me] \notin member'[c] /\ (c \notin inside' => member'[c] = {})
    <3>1. n \notin member[c]
      BY <1>1 DEF Others
    <3>2. nick'[Me] \notin member'[c]
      BY <1>1, <1>2, <1>6, <1>7, <3>1
    <3>3. c \notin inside' => member'[c] = {}
      BY <1>1, <1>2, <1>6
    <3> QED BY <3>2, <3>3
  <2> QED BY <1>1, <2>1 DEF PeerOK
<1>8. CASE u = NoUser
  <2>1. UNCHANGED client /\ nick'[Me] = nick[Me]
    BY <1>4, <1>8 DEF client
  <2>2. ClientOK' /\ taken' = taken /\ (taken = "never" /\ Known => Known')
    BY <1>2, <2>1, UnchangedClient DEF ToldOf
  <2>3. taken' # "freed" => JoinedOK'
    BY <1>1, <2>1 DEF client, ChatsInv, JoinedOK
  <2>4. ASSUME taken = "never", NEW c \in inside
        PROVE  o \notin member[c]
    <3>1. ShownAt(c) /\ Known /\ c \in Chats /\ table[o] = NoUser /\ listing = {}
      BY <1>1, <1>2, <1>5, <1>8, <2>4 DEF ChatsInv, ShownOK
    <3>2. SUFFICES ASSUME o \in member[c] PROVE FALSE
      OBVIOUS
    <3>3. o \in Shown(c)
      BY <3>1, <3>2 DEF ShownAt, All
    <3>4. PICK v \in Joins(list[c]) : nick[v] = o
      BY <3>3, ShownIs DEF NicksOf
    <3>5. v \in UsersOf(list[c]) /\ table[o] = v
      BY <1>2, <3>1, <3>4, JoinsListed DEF Known
    <3>6. NoUser \notin UsersOf(list[c])
      BY <1>2, <3>1, NobodyJoined DEF ClientOK, GoodLists
    <3> QED BY <3>1, <3>5, <3>6
  <2>5. ASSUME taken' = "never"
        PROVE  ShownOK'
    <3>1. ASSUME NEW c \in inside'
          PROVE  ShownAt(c)'
      <4>1. c \in inside /\ c \in Channels /\ taken = "never"
        BY <1>1, <1>2, <2>2, <2>5, <3>1
      <4>2. ShownAt(c) /\ member'[c] = member[c]
        BY <1>6, <2>4, <4>1 DEF ChatsInv, ShownOK
      <4>3. Shown(c)' = Shown(c) /\ All(c)' = All(c)
        BY <2>1, <4>2 DEF client, Shown, All
      <4> QED BY <1>1, <4>2, <4>3 DEF ShownAt
    <3> QED BY <3>1 DEF ShownOK
  <2> QED BY <1>3, <1>7, <2>1, <2>2, <2>3, <2>5 DEF ChatsInv
<1>9. CASE u # NoUser
  <2>1. u \in Users /\ nick[u] = o /\ table[o] = u /\ srn_server_rename_user(u, o, n)
    BY <1>2, <1>4, <1>5, <1>9 DEF ClientOK, Heap
  <2>2. Renames(u, n)
    BY <1>1, <1>2, <1>4, <2>1, RenameEvent
  <2>3. nick'[Me] = IF Me = u THEN n ELSE nick[Me]
    BY <1>2, <2>2 DEF Renames
  <2>4. Me = u => o = nick[Me]
    BY <2>1
  <2>5. PeerOK'
    BY <1>7, <2>3, <2>4
  <2>6. taken' # "freed" => JoinedOK'
    BY <1>1, <1>4, <2>2, RenamedJoined
  <2>7. ASSUME taken' = "never"
        PROVE  Known' /\ ShownOK'
    <3>1. taken = "never" /\ Known /\ Known' /\ ShownOK
      BY <2>2, <2>7 DEF Renames, ChatsInv
    <3>2. o = nick[Me] <=> Me = u
      BY <2>1, <3>1, <1>2 DEF ClientOK, KeysKnown
    <3>3. ASSUME NEW c \in inside'
          PROVE  ShownAt(c)'
      <4>1. c \in inside /\ c \in Channels /\ c \in Chats /\ ShownAt(c)
        BY <1>1, <1>2, <3>1, <3>3 DEF ShownOK
      <4>2. Shown(c)' = {IF m = o THEN n ELSE m : m \in Shown(c)}
        BY <1>2, <1>4, <2>1, <2>2, <3>1, <4>1, RenamedShown
      <4>3. Shown(c) = All(c)
        BY <1>1, <4>1 DEF ShownAt
      <4>4. member'[c] \cup {nick'[Me]} = {IF m = o THEN n ELSE m : m \in member[c] \cup {nick[Me]}}
        <5>1. nick[Me] \notin member[c]
          BY <1>2, <4>1
        <5> QED BY <1>6, <2>3, <3>2, <4>1, <5>1
      <4> QED BY <4>2, <4>3, <4>4 DEF ShownAt, All
    <3> QED BY <3>1, <3>3 DEF ShownOK
  <2> QED BY <1>3, <2>2, <2>5, <2>6, <2>7 DEF ChatsInv, Renames
<1> QED BY <1>8, <1>9

-----------------------------------------------------------------------------
(* The theorems.                                                           *)

LEMMA ChatsInvInit ==
  ASSUME Init
  PROVE  ChatsInv
<1>1. /\ nick \in [Users -> Nicks \cup {Free}] /\ nick[Me] = MyNick
      /\ table \in [Nicks -> Users \cup {NoUser}]
      /\ \A n \in Nicks : table[n] # NoUser => n = MyNick /\ table[n] = Me
      /\ table[MyNick] = Me /\ MyNick \in Nicks /\ Me \in Users
      /\ key = [n \in Nicks |-> "own"]
  BY UsersAssumption, NicksAssumption DEF Init
<1>2. /\ list = [c \in Chats |-> list[c]]
      /\ \A c \in Chats \ {ServerChat} : list[c] = <<>>
      /\ list[ServerChat] = <<ChatUser(Me)>>
  BY ChatKinds DEF Init
<1>3. GoodList(<<>>) /\ UsersOf(<<>>) = {} /\ Joins(<<>>) = {}
  BY DEF GoodList, UsersOf, Joins
<1>4. /\ GoodLists(list)
      /\ \A c \in Chats : \A v \in UsersOf(list[c]) : v = Me
  BY <1>2, <1>3, OwnList DEF GoodLists
<1>5. \A c \in Chats : Joins(list[c]) = {}
  <2>1. Joins(<<ChatUser(Me)>>) = {}
    BY <1>1, NewChatUser DEF Joins
  <2> QED BY <1>2, <1>3, <2>1
<1>6. Heap(nick, table, list) /\ Known /\ KeysKnown
  BY <1>1, <1>4, NicksAssumption DEF Heap, Known, KeysKnown
<1>7. ClientOK
  BY <1>1, <1>4, <1>6, ChatKinds DEF Init, ClientOK, GoodLists, Open
<1>8. PeerTypeOK /\ PeerOK /\ JoinedOK /\ ShownOK
  BY <1>5 DEF Init, PeerTypeOK, PeerOK, JoinedOK, ShownOK
<1> QED BY <1>6, <1>7, <1>8 DEF ChatsInv

LEMMA ChatsInvNext ==
  ASSUME ChatsInv, [Next]_vars
  PROVE  ChatsInv'
<1>1. CASE UNCHANGED vars
  BY <1>1, StutterStep
<1>2. CASE \E n \in Nicks : Welcome(n)
  BY <1>2, WelcomeStep
<1>3. CASE Disconnect
  BY <1>3, DisconnectStep
<1>4. CASE \E c \in Channels : SelfJoin(c)
  BY <1>4, SelfJoinStep
<1>5. CASE Names
  BY <1>5, NamesStep
<1>6. CASE \E n \in Nicks, c \in Channels : Join(n, c)
  BY <1>6, JoinStep
<1>7. CASE \E n \in Nicks, c \in Channels : Part(n, c)
  BY <1>7, PartStep
<1>8. CASE \/ \E n \in Nicks, c \in Channels : ChannelMessage(n, c)
           \/ \E n \in Dialogs : PrivateMessage(n) \/ CtcpRequest(n) \/ Query(n)
  BY <1>8, QuietSteps
<1>9. CASE \E by, n \in Nicks, c \in Channels : Kick(by, n, c)
  BY <1>9, KickStep
<1>10. CASE \E n \in Nicks : Quit(n)
  BY <1>10, QuitStep
<1>11. CASE \E o, n \in Nicks : Nick(o, n)
  BY <1>11, NickStep
<1>12. CASE \E c \in Channels \cup Dialogs : Close(c)
  BY <1>12, CloseStep
<1>13. CASE \E c \in Chats : ui_event_cutover(c)
  BY <1>13, CutoverStep
<1> QED
  BY <1>1, <1>2, <1>3, <1>4, <1>5, <1>6, <1>7, <1>8, <1>9, <1>10, <1>11, <1>12, <1>13 DEF Next

(* Every step of the peer and of the user keeps the invariant.             *)
THEOREM ChatsInvariance == Spec => []ChatsInv
BY ChatsInvInit, ChatsInvNext, PTL DEF Spec

LEMMA InvImpliesTypeOK == ChatsInv => TypeOK
BY DEF ChatsInv, ClientOK, PeerTypeOK, Heap, GoodLists, GoodList, TypeOK

(* The tables, lists and flags have the values their C types and their     *)
(* uses allow, whatever the peer sends.                                    *)
THEOREM ChatsTypeOK == Spec => []TypeOK
BY ChatsInvariance, InvImpliesTypeOK, PTL

LEMMA InvImpliesPointersLive == ChatsInv => PointersLive
<1>1. SUFFICES ASSUME ChatsInv PROVE PointersLive
  OBVIOUS
<1>2. ClientOK /\ nick[Me] # Free
  BY <1>1, OwnNick, NicksAssumption DEF ChatsInv
<1>3. ASSUME NEW c \in Chats
      PROVE  /\ \A i \in DOMAIN list[c] : nick[list[c][i].user] # Free
             /\ Open(c) => list[c][1].user = Me
  <2>1. GoodList(list[c]) /\ \A u \in UsersOf(list[c]) : nick[u] # Free
    BY <1>2 DEF ClientOK, GoodLists, Heap
  <2> QED BY <2>1 DEF GoodList, UsersOf, Open
<1> QED BY <1>2, <1>3 DEF ClientOK, Heap, KeysKnown, PointersLive

(* No entry of the user table, no chat user, neither srv->user nor         *)
(* srv->cur_chat ever leads to something that was released.                *)
THEOREM ChatsPointersLive == Spec => []PointersLive
BY ChatsInvariance, InvImpliesPointersLive, PTL

LEMMA InvImpliesNoDoubleEntry == ChatsInv => NoDoubleEntry
BY DEF ChatsInv, ClientOK, GoodLists, GoodList, NoDoubleEntry

(* No chat lists a user twice, whatever the order of JOIN, names, NICK,    *)
(* messages and QUIT.                                                      *)
THEOREM ChatsNoDoubleEntry == Spec => []NoDoubleEntry
BY ChatsInvariance, InvImpliesNoDoubleEntry, PTL

LEMMA InvImpliesJoinedMatchesPeer == ChatsInv => JoinedMatchesPeer
<1>1. SUFFICES ASSUME ChatsInv, taken # "freed"
      PROVE  /\ joined = inside
             /\ \A c \in Chats \ joined : \A i \in DOMAIN list[c] : ~list[c][i].joined
  BY DEF JoinedMatchesPeer
<1>2. JoinedOK
  BY <1>1 DEF ChatsInv
<1>3. ASSUME NEW c \in Chats \ joined, NEW i \in DOMAIN list[c], list[c][i].joined
      PROVE  FALSE
  BY <1>2, <1>3 DEF JoinedOK, Joins
<1> QED BY <1>2, <1>3 DEF JoinedOK

(* A chat counts as joined exactly while the peer has the user in the      *)
(* channel, and only then it shows anybody as joined - unless a nick was   *)
(* taken over and its key released.                                        *)
THEOREM ChatsJoinedMatchesPeer == Spec => []JoinedMatchesPeer
BY ChatsInvariance, InvImpliesJoinedMatchesPeer, PTL

LEMMA InvImpliesRosterExact == ChatsInv => RosterExact
<1>1. SUFFICES ASSUME ChatsInv, taken = "never", NEW c \in inside,
                      {n \in Nicks : <<c, n>> \in listing} = {}
               PROVE  Shown(c) = member[c] \cup {nick[Me]}
  BY DEF RosterExact
<1>2. ShownAt(c) /\ All(c) \subseteq Nicks
  BY <1>1, OwnNick DEF ChatsInv, ShownOK, All, PeerTypeOK
<1> QED BY <1>1, <1>2 DEF ShownAt, All

(* Once the names are listed, the user list of a channel shows exactly     *)
(* whom the peer has told of, as long as nobody took over the nick of one  *)
(* the table remembers.                                                    *)
THEOREM ChatsRosterExact == Spec => []RosterExact
BY ChatsInvariance, InvImpliesRosterExact, PTL

=============================================================================
