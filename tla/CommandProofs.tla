---------------------------- MODULE CommandProofs ----------------------------
(***************************************************************************)
(* Commands: what /reload changes while servers and chats come and go, and *)
(* how the line of any command is read.                                    *)
(*                                                                         *)
(* Configurations: nothing that runs points to one that is freed, and when *)
(* all is said to be reloaded it is, for any servers, files and number of  *)
(* reloads. The argument of the first is that whoever uses a configuration *)
(* is given the new one together with all others that use that of the same *)
(* owner, and that a configuration is named after the step that made it:   *)
(* so what is freed was used by those alone who have just been given       *)
(* another one.                                                            *)
(*                                                                         *)
(* Command lines: a command is read as it was meant, whatever the values   *)
(* of its options and arguments. The line is followed from its end: each   *)
(* part begins and ends with something other than a blank, so what is left *)
(* behind one is a blank and the parts after it, and the parser, which     *)
(* leaves nothing else, stands before each part in turn. That a quoted     *)
(* part ends where it was meant to rests on the scan of the escaped value: *)
(* it is behind every sign of the value neither in an escape nor closed.   *)
(***************************************************************************)
EXTENDS ConfigReload, CommandLine, SequenceLemmas

Quit == <<"quit", "">>
IsUser(u) == \E s : u \in Global \cup OfServer(s) \cup OfChat(s)

(* All users of the configurations of their owners. *)
Whole(us) ==
  \A v \in us : /\ IsUser(v) /\ v # Quit
                /\ \A u : IsUser(u) /\ u # Quit /\ OwnerOf(u) = OwnerOf(v) => u \in us

Numbered ==
  /\ made \in Nat
  /\ \A u \in DOMAIN uses : IsUser(u) /\ uses[u] \in 0..made
  /\ \A c \in freed : c[2] \in 0..made

Uniform ==
  \A u, v \in DOMAIN uses \ {Quit} : OwnerOf(u) = OwnerOf(v) => uses[u] = uses[v]

UsersLive == \A u \in DOMAIN uses \ {Quit} : <<OwnerOf(u), uses[u]>> \notin freed

LiveInv == Numbered /\ Uniform /\ UsersLive

(* What strays use nobody else does, and of theirs that of servers is      *)
(* freed.                                                                  *)
StrayInv ==
  \A c \in strays : /\ c \in ({"server", "own", "chat"} \X Names) \X (0..made)
                    /\ \A u \in DOMAIN uses : <<OwnerOf(u), uses[u]>> # c
                    /\ c \in freed <=> c[1][1] = "server"

-----------------------------------------------------------------------------
(* The sets of users that are set together.                                *)

AppUsers == {"app", "ui", "window"} \X {""}
LoggerUsers == {"logger", "quit"} \X {""}
ServerUsers(s) == {"server", "session", "addr"} \X {s}
OwnUsers(s) == {"own", "ownbuffer"} \X {s}

LEMMA UserClasses ==
  /\ Global = AppUsers \cup LoggerUsers
  /\ \A s : OfServer(s) = ServerUsers(s) \cup OwnUsers(s)
BY DEF Global, OfServer, AppUsers, LoggerUsers, ServerUsers, OwnUsers

LEMMA PairParts == \A K, s : \A u \in K \X {s} : u[1] \in K /\ u[2] = s
OBVIOUS

LEMMA PairEta == ASSUME NEW K, NEW L, NEW u \in K \X L
                 PROVE  u = <<u[1], u[2]>>
OBVIOUS

LEMMA Owners ==
  /\ \A u \in AppUsers : OwnerOf(u) = <<"app", "">>
  /\ \A u \in LoggerUsers : OwnerOf(u) = <<"logger", "">>
  /\ \A s : \A u \in ServerUsers(s) : OwnerOf(u) = <<"server", s>>
  /\ \A s : \A u \in OwnUsers(s) : OwnerOf(u) = <<"own", s>>
  /\ \A s : \A u \in OfChat(s) : OwnerOf(u) = <<"chat", s>>
<1>3. \A u : u[1] \in {"server", "session", "addr"} => OwnerOf(u) = <<"server", u[2]>>
  BY DEF OwnerOf
<1>4. \A u : u[1] \in {"own", "ownbuffer"} => OwnerOf(u) = <<"own", u[2]>>
  BY DEF OwnerOf
<1>5. \A u : u[1] \in {"chat", "buffer"} => OwnerOf(u) = <<"chat", u[2]>>
  BY DEF OwnerOf
<1>6. \A u \in AppUsers : u[1] \in {"app", "ui", "window"}
  BY PairParts DEF AppUsers
<1>7. \A u \in LoggerUsers : u[1] \in {"logger", "quit"}
  BY PairParts DEF LoggerUsers
<1>8. \A s : \A u \in ServerUsers(s) : u[1] \in {"server", "session", "addr"} /\ u[2] = s
  BY PairParts DEF ServerUsers
<1>9. \A s : \A u \in OwnUsers(s) : u[1] \in {"own", "ownbuffer"} /\ u[2] = s
  BY PairParts DEF OwnUsers
<1>10. \A s : \A u \in OfChat(s) : u[1] \in {"chat", "buffer"} /\ u[2] = s
  BY PairParts DEF OfChat
<1>11. ASSUME NEW u \in AppUsers
       PROVE  OwnerOf(u) = <<"app", "">>
  <2>1. u[1] \in {"app", "ui", "window"}
    BY <1>6
  <2> QED BY <2>1 DEF OwnerOf
<1>12. ASSUME NEW u \in LoggerUsers
       PROVE  OwnerOf(u) = <<"logger", "">>
  <2>1. u[1] \in {"logger", "quit"}
    BY <1>7
  <2> QED BY <2>1 DEF OwnerOf
<1>13. \A s : \A u \in ServerUsers(s) : OwnerOf(u) = <<"server", s>>
  BY <1>3, <1>8
<1>14. \A s : \A u \in OwnUsers(s) : OwnerOf(u) = <<"own", s>>
  BY <1>4, <1>9
<1>15. \A s : \A u \in OfChat(s) : OwnerOf(u) = <<"chat", s>>
  BY <1>5, <1>10
<1> QED
  BY <1>11, <1>12, <1>13, <1>14, <1>15

LEMMA OwnersDiffer ==
  ASSUME NEW s, NEW t
  PROVE  /\ <<"app", "">> # <<"logger", "">>
         /\ \A o \in {<<"server", s>>, <<"own", s>>, <<"chat", s>>} :
              o # <<"app", "">> /\ o # <<"logger", "">>
         /\ <<"server", s>> # <<"own", t>> /\ <<"server", s>> # <<"chat", t>>
         /\ <<"own", s>> # <<"chat", t>>
         /\ \A k : <<k, s>> = <<k, t>> => s = t
OBVIOUS

LEMMA IsUserClasses ==
  ASSUME NEW u
  PROVE  IsUser(u) <=> \/ u \in AppUsers \cup LoggerUsers
                       \/ \E s : u \in ServerUsers(s) \cup OwnUsers(s) \cup OfChat(s)
BY UserClasses DEF IsUser

LEMMA QuitIsLogger == Quit \in LoggerUsers /\ \A u \in LoggerUsers : u = Quit \/ u = <<"logger", "">>
<1>1. Quit \in LoggerUsers
  BY DEF Quit, LoggerUsers
<1>2. ASSUME NEW u \in LoggerUsers
      PROVE  u = Quit \/ u = <<"logger", "">>
  <2>1. u = <<u[1], u[2]>>
    <3>1. u \in {"logger", "quit"} \X {""}
      BY DEF LoggerUsers
    <3> QED BY <3>1, PairEta
  <2>2. u[1] = "logger" \/ u[1] = "quit"
    BY DEF LoggerUsers
  <2>3. u[2] = ""
    BY DEF LoggerUsers
  <2>4. CASE u[1] = "logger"
    BY <2>1, <2>3, <2>4, Zenon
  <2>5. CASE u[1] = "quit"
    BY <2>1, <2>3, <2>5, Zenon DEF Quit
  <2> QED BY <2>2, <2>4, <2>5
<1> QED BY <1>1, <1>2

(* Whoever has the owner of a class is of that class. *)
LEMMA OwnedClass ==
  ASSUME NEW u, IsUser(u), NEW s
  PROVE  /\ OwnerOf(u) = <<"app", "">> => u \in AppUsers
         /\ OwnerOf(u) = <<"logger", "">> => u \in LoggerUsers
         /\ OwnerOf(u) = <<"server", s>> => u \in ServerUsers(s)
         /\ OwnerOf(u) = <<"own", s>> => u \in OwnUsers(s)
         /\ OwnerOf(u) = <<"chat", s>> => u \in OfChat(s)
<1>1. CASE u \in AppUsers
  <2>1. OwnerOf(u) = <<"app", "">>
    BY <1>1, Owners
  <2> QED BY <1>1, <2>1, OwnersDiffer
<1>2. CASE u \in LoggerUsers
  <2>1. OwnerOf(u) = <<"logger", "">>
    BY <1>2, Owners
  <2> QED BY <1>2, <2>1, OwnersDiffer
<1>3. ASSUME NEW t, u \in ServerUsers(t) \cup OwnUsers(t) \cup OfChat(t)
      PROVE  /\ OwnerOf(u) \in {<<"server", t>>, <<"own", t>>, <<"chat", t>>}
             /\ OwnerOf(u) = <<"server", s>> => u \in ServerUsers(s)
             /\ OwnerOf(u) = <<"own", s>> => u \in OwnUsers(s)
             /\ OwnerOf(u) = <<"chat", s>> => u \in OfChat(s)
  <2>1. CASE u \in ServerUsers(t)
    <3>1. OwnerOf(u) = <<"server", t>>
      BY <2>1, Owners
    <3> QED BY <2>1, <3>1
  <2>2. CASE u \in OwnUsers(t)
    <3>1. OwnerOf(u) = <<"own", t>>
      BY <2>2, Owners
    <3> QED BY <2>2, <3>1
  <2>3. CASE u \in OfChat(t)
    <3>1. OwnerOf(u) = <<"chat", t>>
      BY <2>3, Owners
    <3> QED BY <2>3, <3>1
  <2> QED BY <1>3, <2>1, <2>2, <2>3
<1>4. ASSUME NEW t, u \in ServerUsers(t) \cup OwnUsers(t) \cup OfChat(t)
      PROVE  OwnerOf(u) # <<"app", "">> /\ OwnerOf(u) # <<"logger", "">>
  BY <1>3, <1>4, OwnersDiffer
<1> QED BY <1>1, <1>2, <1>3, <1>4, IsUserClasses

(* None but those of the logger is the pointer that is freed by quit. *)
LEMMA NotQuit ==
  ASSUME NEW v, v \in AppUsers \/ \E s : v \in ServerUsers(s) \cup OwnUsers(s) \cup OfChat(s)
  PROVE  v # Quit
<1>1. Quit[1] = "quit"
  BY DEF Quit
<1>2. v[1] # "quit"
  BY PairParts DEF AppUsers, ServerUsers, OwnUsers, OfChat
<1> QED BY <1>1, <1>2

LEMMA WholeGlobal == Whole({<<"logger", "">>}) /\ Whole(AppUsers)
<1>1. Whole(AppUsers)
  BY Owners, OwnedClass, IsUserClasses, NotQuit DEF Whole
<1>2. <<"logger", "">> \in LoggerUsers /\ <<"logger", "">> # Quit
  BY DEF LoggerUsers, Quit
<1>3. Whole({<<"logger", "">>})
  BY <1>2, Owners, OwnedClass, IsUserClasses, QuitIsLogger DEF Whole
<1> QED BY <1>1, <1>3

LEMMA WholeServerOnly == \A s : Whole(ServerUsers(s))
BY Owners, OwnedClass, IsUserClasses, NotQuit DEF Whole

LEMMA WholeOwn == \A s : Whole(OwnUsers(s))
BY Owners, OwnedClass, IsUserClasses, NotQuit DEF Whole

LEMMA WholeChat == \A s : Whole(OfChat(s))
BY Owners, OwnedClass, IsUserClasses, NotQuit DEF Whole

LEMMA WholeUnion == \A us, vs : Whole(us) /\ Whole(vs) => Whole(us \cup vs)
BY DEF Whole

LEMMA WholeServer == \A s : Whole(OfServer(s))
BY WholeServerOnly, WholeOwn, WholeUnion, UserClasses

LEMMA WholeReload == \A ss : Whole(ReloadUsers(ss))
<1> SUFFICES ASSUME NEW ss, NEW v \in ReloadUsers(ss)
             PROVE  /\ IsUser(v) /\ v # Quit
                    /\ \A u : IsUser(u) /\ u # Quit /\ OwnerOf(u) = OwnerOf(v) => u \in ReloadUsers(ss)
  BY DEF Whole
<1>1. CASE v \in {"server", "session", "addr"} \X ss
  <2>1. v[2] \in ss /\ v \in ServerUsers(v[2])
    BY <1>1 DEF ServerUsers
  <2>2. ServerUsers(v[2]) \subseteq ReloadUsers(ss)
    BY <2>1 DEF ReloadUsers, ServerUsers
  <2> QED BY <2>1, <2>2, WholeServerOnly DEF Whole
<1>2. CASE v \in {"chat", "buffer"} \X (ss \cap chan)
  <2>1. v[2] \in ss \cap chan /\ v \in OfChat(v[2])
    BY <1>2 DEF OfChat
  <2>2. OfChat(v[2]) \subseteq ReloadUsers(ss)
    BY <2>1 DEF ReloadUsers, OfChat
  <2> QED BY <2>1, <2>2, WholeChat DEF Whole
<1> QED BY <1>1, <1>2 DEF ReloadUsers

-----------------------------------------------------------------------------
LEMMA ConfigInitInv == ConfigInit => LiveInv
BY DEF ConfigInit, LiveInv, Numbered, Uniform, UsersLive, Quit, OwnerOf, IsUser

(* Users are given a configuration that was just made, the old ones of     *)
(* their owners may be freed.                                              *)
LEMMA PointStep ==
  ASSUME LiveInv, NEW us, Whole(us), made' = made + 1, uses' = Point(us, made + 1),
         freed' \subseteq freed \cup ConfigsOf(us)
  PROVE  LiveInv'
<1>1. /\ DOMAIN uses' = DOMAIN uses \cup us
      /\ \A u \in us : uses'[u] = made + 1
      /\ \A u \in DOMAIN uses \ us : uses'[u] = uses[u]
  BY DEF Point
<1>2. made \in Nat /\ \A u \in DOMAIN uses : IsUser(u) /\ uses[u] \in 0..made
  BY DEF LiveInv, Numbered
<1>3. \A c \in freed' : c[2] \in 0..made
  BY <1>2 DEF LiveInv, Numbered, ConfigsOf
<1>4. Numbered'
  BY <1>1, <1>2, <1>3 DEF Numbered, Whole
<1>5. ASSUME NEW u \in DOMAIN uses \ us, u # Quit, NEW v \in us
      PROVE  OwnerOf(u) # OwnerOf(v)
  BY <1>2, <1>5 DEF Whole
<1>6. Uniform'
  <2> SUFFICES ASSUME NEW u \in DOMAIN uses' \ {Quit}, NEW v \in DOMAIN uses' \ {Quit},
                      OwnerOf(u) = OwnerOf(v)
               PROVE  uses'[u] = uses'[v]
    BY DEF Uniform, Quit, OwnerOf
  <2>1. CASE u \in us <=> v \in us
    BY <1>1, <2>1 DEF LiveInv, Uniform
  <2> QED BY <1>1, <1>5, <2>1
<1>7. UsersLive'
  <2> SUFFICES ASSUME NEW u \in DOMAIN uses' \ {Quit}
               PROVE  <<OwnerOf(u), uses'[u]>> \notin freed'
    BY DEF UsersLive, Quit, OwnerOf
  <2>1. CASE u \in us
    BY <1>1, <1>2, <1>3, <2>1
  <2>2. CASE u \notin us
    <3>1. <<OwnerOf(u), uses[u]>> \notin freed
      BY <1>1, <2>2 DEF LiveInv, UsersLive, Quit
    <3>2. <<OwnerOf(u), uses[u]>> \notin ConfigsOf(us)
      BY <1>1, <1>5, <2>2 DEF ConfigsOf
    <3> QED BY <1>1, <2>2, <3>1, <3>2
  <2> QED BY <2>1, <2>2
<1> QED BY <1>4, <1>6, <1>7 DEF LiveInv

(* Users go, and what they used is freed. *)
LEMMA DropStep ==
  ASSUME LiveInv, NEW us, Whole(us), made' = made, uses' = Drop(us),
         freed' \subseteq freed \cup ConfigsOf(us)
  PROVE  LiveInv'
<1>1. DOMAIN uses' = DOMAIN uses \ us /\ \A u \in DOMAIN uses \ us : uses'[u] = uses[u]
  BY DEF Drop
<1>2. made \in Nat /\ \A u \in DOMAIN uses : IsUser(u) /\ uses[u] \in 0..made
  BY DEF LiveInv, Numbered
<1>3. Numbered'
  BY <1>1, <1>2 DEF LiveInv, Numbered, ConfigsOf
<1>4. Uniform'
  <2> SUFFICES ASSUME NEW u \in DOMAIN uses' \ {Quit}, NEW v \in DOMAIN uses' \ {Quit},
                      OwnerOf(u) = OwnerOf(v)
               PROVE  uses'[u] = uses'[v]
    BY DEF Uniform, Quit, OwnerOf
  <2> QED BY <1>1 DEF LiveInv, Uniform
<1>5. UsersLive'
  <2> SUFFICES ASSUME NEW u \in DOMAIN uses' \ {Quit}
               PROVE  <<OwnerOf(u), uses'[u]>> \notin freed'
    BY DEF UsersLive, Quit, OwnerOf
  <2>1. <<OwnerOf(u), uses[u]>> \notin freed
    BY <1>1 DEF LiveInv, UsersLive, Quit
  <2>2. \A v \in us : OwnerOf(u) # OwnerOf(v)
    BY <1>1, <1>2 DEF Whole
  <2>3. <<OwnerOf(u), uses[u]>> \notin ConfigsOf(us)
    BY <2>2 DEF ConfigsOf
  <2> QED BY <1>1, <2>1, <2>3
<1> QED BY <1>3, <1>4, <1>5 DEF LiveInv

LEMMA AddStep ==
  ASSUME LiveInv, NEW s, NEW cfg, Add(s, cfg)
  PROVE  LiveInv'
<1> DEFINE us == OfServer(s) \cup (IF cfg.join THEN OfChat(s) ELSE {})
<1>1. Whole(us)
  BY WholeServer, WholeChat, WholeUnion
<1>2. CASE ServerChecked(cfg, s)
  <2>1. made' = made + 1 /\ uses' = Point(us, made + 1) /\ freed' = freed
    BY <1>2 DEF Add
  <2> QED BY <1>1, <2>1, PointStep
<1>3. CASE ~ServerChecked(cfg, s)
  <2>1. /\ made' = made + 1 /\ uses' = uses
        /\ freed' = freed \cup {<<<<"server", s>>, made + 1>>}
    BY <1>3 DEF Add
  <2>2. made \in Nat
    BY DEF LiveInv, Numbered
  <2>3. Numbered' /\ Uniform'
    BY <2>1, <2>2 DEF LiveInv, Numbered, Uniform
  <2>4. UsersLive'
    <3> SUFFICES ASSUME NEW u \in DOMAIN uses \ {Quit}
                 PROVE  <<OwnerOf(u), uses[u]>> \notin freed'
      BY <2>1 DEF UsersLive, Quit, OwnerOf
    <3>1. <<OwnerOf(u), uses[u]>> \notin freed
      BY DEF LiveInv, UsersLive, Quit
    <3>2. uses[u] # made + 1
      BY <2>2 DEF LiveInv, Numbered
    <3> QED BY <2>1, <3>1, <3>2
  <2> QED BY <2>3, <2>4 DEF LiveInv
<1> QED BY <1>2, <1>3

LEMMA ReloadStep ==
  ASSUME LiveInv, ReloadConfig
  PROVE  LiveInv'
<1>1. made' = made + 1
  BY DEF ReloadConfig
<1>2. ASSUME NEW us, Whole(us), Replaced(us) PROVE LiveInv'
  <2>1. uses' = Point(us, made + 1) /\ freed' \subseteq freed \cup ConfigsOf(us)
    BY <1>2 DEF Replaced, Moved, ConfigsOf
  <2> QED BY <1>1, <1>2, <2>1, PointStep
<1>3. Whole({})
  BY DEF Whole
<1>4. \A ss : Whole({<<"logger", "">>} \cup AppUsers \cup ReloadUsers(ss))
  BY WholeGlobal, WholeReload, WholeUnion
<1>5. \/ Replaced({}) \/ Replaced({<<"logger", "">>})
      \/ \E ss : Replaced({<<"logger", "">>} \cup AppUsers \cup ReloadUsers(ss))
  BY DEF ReloadConfig, ReloadFails, AppUsers
<1> QED BY <1>2, <1>3, <1>4, <1>5, WholeGlobal

LEMMA LiveInvKept == LiveInv /\ [ConfigNext]_configVars => LiveInv'
<1> SUFFICES ASSUME LiveInv, [ConfigNext]_configVars PROVE LiveInv'
  OBVIOUS
<1>1. CASE UNCHANGED <<uses, freed, made>>
  BY <1>1 DEF LiveInv, Numbered, Uniform, UsersLive
<1>2. ASSUME NEW f, EditFile(f) PROVE LiveInv'
  BY <1>1, <1>2 DEF EditFile
<1>3. ASSUME NEW s, AddServer(s) \/ AddServerWith(s) PROVE LiveInv'
  BY <1>3, AddStep DEF AddServer, AddServerWith
<1>4. ASSUME NEW s, NEW disconnected \in BOOLEAN, RemoveServer(s, disconnected) PROVE LiveInv'
  <2>1. Whole(OfServer(s) \cup OfChat(s))
    BY WholeServer, WholeChat, WholeUnion
  <2>2. <<"server", s>> \in OfServer(s)
    BY DEF OfServer
  <2>3. freed' \subseteq freed \cup ConfigsOf(OfServer(s) \cup OfChat(s))
    BY <1>4, <2>2 DEF RemoveServer, ConfigsOf
  <2> QED BY <1>4, <2>1, <2>3, DropStep DEF RemoveServer
<1>5. ASSUME NEW s, OpenChat(s) PROVE LiveInv'
  <2>1. made' = made + 1 /\ uses' = Point(OfChat(s), made + 1) /\ freed' = freed
    BY <1>5 DEF OpenChat
  <2> QED BY <2>1, WholeChat, PointStep
<1>6. ASSUME NEW s, CloseChat(s) PROVE LiveInv'
  BY <1>6, WholeChat, DropStep DEF CloseChat
<1>7. CASE ReloadConfig
  BY <1>7, ReloadStep
<1>8. CASE UNCHANGED configVars
  BY <1>1, <1>8 DEF configVars
<1> QED BY <1>2, <1>3, <1>4, <1>5, <1>6, <1>7, <1>8 DEF ConfigNext

-----------------------------------------------------------------------------
(* Types.  The list of servers holds nobody twice, and whoever has a chat  *)
(* is in it.                                                               *)

UsersOf(ss, cs) == Global \cup (UNION {OfServer(s) : s \in ss}) \cup (UNION {OfChat(s) : s \in cs})

LEMMA UsersIn ==
  \A ss, cs, u : u \in UsersOf(ss, cs) <=> \/ u \in Global
                                           \/ \E s \in ss : u \in OfServer(s)
                                           \/ \E s \in cs : u \in OfChat(s)
<1> TAKE ss, cs, u
<1>1. u \in UNION {OfServer(s) : s \in ss} <=> \E s \in ss : u \in OfServer(s)
  BY Zenon
<1>2. u \in UNION {OfChat(s) : s \in cs} <=> \E s \in cs : u \in OfChat(s)
  BY Zenon
<1>3. u \in UsersOf(ss, cs) <=> \/ u \in Global
                                \/ u \in UNION {OfServer(s) : s \in ss}
                                \/ u \in UNION {OfChat(s) : s \in cs}
  BY DEF UsersOf
<1> QED BY <1>1, <1>2, <1>3, Zenon

LEMMA UsersApart ==
  ASSUME NEW s, NEW t
  PROVE  /\ \A u \in Global : u \notin OfServer(s) /\ u \notin OfChat(s)
         /\ \A u \in OfServer(s) : u \notin OfChat(t) /\ (u \in OfServer(t) => s = t)
         /\ \A u \in OfChat(s) : u \notin OfServer(t) /\ (u \in OfChat(t) => s = t)
<1>1. \A u \in Global : u[1] \in {"app", "ui", "window", "logger", "quit"}
  BY PairParts DEF Global
<1>2. \A x : \A u \in OfServer(x) : u[1] \in {"server", "session", "addr", "own", "ownbuffer"} /\ u[2] = x
  BY PairParts DEF OfServer
<1>3. \A x : \A u \in OfChat(x) : u[1] \in {"chat", "buffer"} /\ u[2] = x
  BY PairParts DEF OfChat
<1>4. /\ \A x \in {"app", "ui", "window", "logger", "quit"} :
           x \notin {"server", "session", "addr", "own", "ownbuffer"} /\ x \notin {"chat", "buffer"}
      /\ \A x \in {"chat", "buffer"} : x \notin {"server", "session", "addr", "own", "ownbuffer"}
  OBVIOUS
<1> QED BY <1>1, <1>2, <1>3, <1>4

(* A server or a chat comes with its users, and goes with them. *)
LEMMA ServerComes == \A ss, cs, s : UsersOf(ss \cup {s}, cs) = UsersOf(ss, cs) \cup OfServer(s)
<1> TAKE ss, cs, s
<1>1. ASSUME NEW u PROVE u \in UsersOf(ss \cup {s}, cs) <=> u \in UsersOf(ss, cs) \cup OfServer(s)
  <2>1. u \in UsersOf(ss \cup {s}, cs) <=> \/ u \in Global
                                           \/ \E t \in ss \cup {s} : u \in OfServer(t)
                                           \/ \E t \in cs : u \in OfChat(t)
    BY UsersIn, Zenon
  <2>2. u \in UsersOf(ss, cs) <=> \/ u \in Global
                                  \/ \E t \in ss : u \in OfServer(t)
                                  \/ \E t \in cs : u \in OfChat(t)
    BY UsersIn, Zenon
  <2> QED BY <2>1, <2>2, Zenon
<1> QED BY <1>1, Zenon

LEMMA ChatComes == \A ss, cs, s : UsersOf(ss, cs \cup {s}) = UsersOf(ss, cs) \cup OfChat(s)
<1> TAKE ss, cs, s
<1>1. ASSUME NEW u PROVE u \in UsersOf(ss, cs \cup {s}) <=> u \in UsersOf(ss, cs) \cup OfChat(s)
  <2>1. u \in UsersOf(ss, cs \cup {s}) <=> \/ u \in Global
                                           \/ \E t \in ss : u \in OfServer(t)
                                           \/ \E t \in cs \cup {s} : u \in OfChat(t)
    BY UsersIn, Zenon
  <2>2. u \in UsersOf(ss, cs) <=> \/ u \in Global
                                  \/ \E t \in ss : u \in OfServer(t)
                                  \/ \E t \in cs : u \in OfChat(t)
    BY UsersIn, Zenon
  <2> QED BY <2>1, <2>2, Zenon
<1> QED BY <1>1, Zenon

LEMMA ServerGoes == \A ss, cs, s : UsersOf(ss \ {s}, cs) = UsersOf(ss, cs) \ OfServer(s)
<1> TAKE ss, cs, s
<1>1. ASSUME NEW u PROVE u \in UsersOf(ss \ {s}, cs) <=> u \in UsersOf(ss, cs) \ OfServer(s)
  <2>1. u \in UsersOf(ss \ {s}, cs) <=> \/ u \in Global
                                        \/ \E t \in ss \ {s} : u \in OfServer(t)
                                        \/ \E t \in cs : u \in OfChat(t)
    BY UsersIn, Zenon
  <2>2. u \in UsersOf(ss, cs) <=> \/ u \in Global
                                  \/ \E t \in ss : u \in OfServer(t)
                                  \/ \E t \in cs : u \in OfChat(t)
    BY UsersIn, Zenon
  <2> QED BY <2>1, <2>2, UsersApart, Zenon
<1> QED BY <1>1, Zenon

LEMMA ChatGoes == \A ss, cs, s : UsersOf(ss, cs \ {s}) = UsersOf(ss, cs) \ OfChat(s)
<1> TAKE ss, cs, s
<1>1. ASSUME NEW u PROVE u \in UsersOf(ss, cs \ {s}) <=> u \in UsersOf(ss, cs) \ OfChat(s)
  <2>1. u \in UsersOf(ss, cs \ {s}) <=> \/ u \in Global
                                        \/ \E t \in ss : u \in OfServer(t)
                                        \/ \E t \in cs \ {s} : u \in OfChat(t)
    BY UsersIn, Zenon
  <2>2. u \in UsersOf(ss, cs) <=> \/ u \in Global
                                  \/ \E t \in ss : u \in OfServer(t)
                                  \/ \E t \in cs : u \in OfChat(t)
    BY UsersIn, Zenon
  <2> QED BY <2>1, <2>2, UsersApart, Zenon
<1> QED BY <1>1, Zenon

ListInv ==
  /\ file \in UserFiles \cup {Malformed} /\ userCfg \in UserFiles \cup {EmptyFile}
  /\ srvList \in Seq(Names) /\ IsInjective(srvList) /\ chan \subseteq ToSet(srvList)
  /\ DOMAIN uses = UsersOf(ToSet(srvList), chan)
  /\ made \in 0..MaxMade /\ told \in {"ok", "error", "nothing"}

LEMMA ListInit == ConfigInit => ListInv
<1> SUFFICES ASSUME ConfigInit PROVE ListInv
  OBVIOUS
<1>1. ToSet(<<>>) = {} /\ IsInjective(<<>>) /\ <<>> \in Seq(Names)
  BY DEF ToSet, IsInjective
<1>2. UsersOf({}, {}) = Global
  BY UsersIn
<1>3. file \in UserFiles \cup {Malformed} /\ userCfg \in UserFiles \cup {EmptyFile}
  BY DEF ConfigInit, Parsed
<1>4. srvList = <<>> /\ chan = {} /\ DOMAIN uses = Global /\ made = 0 /\ told = "nothing"
  BY DEF ConfigInit
<1> QED BY <1>1, <1>2, <1>3, <1>4, ConfigBound DEF ListInv

LEMMA ListStep == ListInv /\ [ConfigNext]_configVars => ListInv'
<1> SUFFICES ASSUME ListInv, [ConfigNext]_configVars PROVE ListInv'
  OBVIOUS
<1>1. ASSUME NEW s \in Names, NEW cfg, ~Listed(s), Add(s, cfg),
             told' \in {told, "nothing"}
      PROVE  ListInv'
  <2>1. made' \in 0..MaxMade /\ file' = file /\ userCfg' = userCfg
    BY <1>1, ConfigBound DEF Add, ListInv
  <2>2. CASE ServerChecked(cfg, s)
    <3> DEFINE us == OfServer(s) \cup (IF cfg.join THEN OfChat(s) ELSE {})
    <3>1. /\ srvList' = Append(srvList, s)
          /\ chan' = IF cfg.join THEN chan \cup {s} ELSE chan
          /\ uses' = Point(us, made + 1)
      BY <1>1, <2>2 DEF Add, ListInv
    <3>2. /\ srvList' \in Seq(Names) /\ IsInjective(srvList')
          /\ ToSet(srvList') = ToSet(srvList) \cup {s}
      BY <1>1, <3>1, AppendedOnce DEF Listed, ListInv
    <3>3. DOMAIN uses' = DOMAIN uses \cup us
      BY <3>1 DEF Point, ListInv
    <3>4. DOMAIN uses' = UsersOf(ToSet(srvList'), chan')
      <4>1. CASE cfg.join
        <5>1. UsersOf(ToSet(srvList) \cup {s}, chan \cup {s})
                = UsersOf(ToSet(srvList) \cup {s}, chan) \cup OfChat(s)
          BY ChatComes
        <5>2. UsersOf(ToSet(srvList) \cup {s}, chan) = UsersOf(ToSet(srvList), chan) \cup OfServer(s)
          BY ZenonT(30), ServerComes
        <5>3. DOMAIN uses' = (DOMAIN uses \cup OfServer(s)) \cup OfChat(s)
          BY <3>3, <4>1 DEF ListInv
        <5> QED BY <3>1, <3>2, <4>1, <5>1, <5>2, <5>3, Zenon DEF ListInv
      <4>2. CASE ~cfg.join
        <5>1. UsersOf(ToSet(srvList) \cup {s}, chan) = UsersOf(ToSet(srvList), chan) \cup OfServer(s)
          BY ZenonT(30), ServerComes
        <5>2. DOMAIN uses' = DOMAIN uses \cup OfServer(s)
          BY <3>3, <4>2 DEF ListInv
        <5> QED BY <3>1, <3>2, <4>2, <5>1, <5>2, Zenon DEF ListInv
      <4> QED BY <4>1, <4>2 DEF ListInv
    <3> QED BY <1>1, <2>1, <3>1, <3>2, <3>4 DEF ListInv
  <2>3. CASE ~ServerChecked(cfg, s)
    BY <1>1, <2>1, <2>3 DEF Add, ListInv
  <2> QED BY <2>2, <2>3 DEF ListInv
<1>2. ASSUME NEW f \in UserFiles \cup {Malformed}, EditFile(f) PROVE ListInv'
  BY <1>2 DEF EditFile, ListInv
<1>3. ASSUME NEW s \in Names, AddServer(s) \/ AddServerWith(s) PROVE ListInv'
  BY <1>1, <1>3 DEF AddServer, AddServerWith, ListInv
<1>5. ASSUME NEW s \in Names, NEW disconnected \in BOOLEAN, RemoveServer(s, disconnected)
      PROVE  ListInv'
  <2>1. PICK i \in DOMAIN srvList : srvList[i] = s /\ srvList' = RemoveAt(srvList, i)
    BY <1>5 DEF RemoveServer, ListInv
  <2>2. /\ srvList' \in Seq(Names) /\ IsInjective(srvList')
        /\ ToSet(srvList') = ToSet(srvList) \ {s}
    BY <2>1, RemovedAt, RemovedOnce DEF ListInv
  <2>3. /\ chan' = chan \ {s} /\ DOMAIN uses' = DOMAIN uses \ (OfServer(s) \cup OfChat(s))
        /\ UNCHANGED <<file, userCfg, made, told>>
    BY <1>5 DEF RemoveServer, Drop, ListInv
  <2>4. DOMAIN uses' = UsersOf(ToSet(srvList'), chan')
    <3>1. UsersOf(ToSet(srvList) \ {s}, chan \ {s}) = UsersOf(ToSet(srvList) \ {s}, chan) \ OfChat(s)
      BY ZenonT(30), ChatGoes
    <3>2. UsersOf(ToSet(srvList) \ {s}, chan) = UsersOf(ToSet(srvList), chan) \ OfServer(s)
      BY ServerGoes, Zenon
    <3>3. DOMAIN uses' = (DOMAIN uses \ OfServer(s)) \ OfChat(s)
      BY <2>3 DEF ListInv
    <3> QED BY <2>1, <2>2, <2>3, <3>1, <3>2, <3>3, Zenon DEF ListInv
  <2> QED BY <2>2, <2>3, <2>4 DEF ListInv
<1>6. ASSUME NEW s \in Names, OpenChat(s) PROVE ListInv'
  <2>1. DOMAIN uses' = DOMAIN uses \cup OfChat(s) /\ chan' = chan \cup {s}
    BY <1>6 DEF OpenChat, Point, ListInv
  <2>2. DOMAIN uses' = UsersOf(ToSet(srvList), chan')
    <3>1. UsersOf(ToSet(srvList), chan \cup {s}) = UsersOf(ToSet(srvList), chan) \cup OfChat(s)
      BY ChatComes
    <3> QED BY <2>1, <3>1, Zenon DEF ListInv
  <2> QED BY <1>6, <2>1, <2>2, ConfigBound DEF OpenChat, Listed, ListInv
<1>7. ASSUME NEW s \in Names, CloseChat(s) PROVE ListInv'
  <2>1. DOMAIN uses' = DOMAIN uses \ OfChat(s) /\ chan' = chan \ {s}
    BY <1>7 DEF CloseChat, Drop, ListInv
  <2>2. DOMAIN uses' = UsersOf(ToSet(srvList), chan')
    <3>1. UsersOf(ToSet(srvList), chan \ {s}) = UsersOf(ToSet(srvList), chan) \ OfChat(s)
      BY ChatGoes, Zenon
    <3> QED BY <2>1, <3>1, Zenon DEF ListInv
  <2> QED BY <1>7, <2>1, <2>2 DEF CloseChat, ListInv
<1>8. CASE ReloadConfig
  <2>1. ASSUME NEW us, us \subseteq DOMAIN uses, Replaced(us) PROVE DOMAIN uses' = DOMAIN uses
    BY <2>1 DEF Replaced, Moved, Point, ListInv
  <2>2. {} \subseteq DOMAIN uses /\ {<<"logger", "">>} \subseteq DOMAIN uses
    BY UsersIn DEF Global, ListInv
  <2>3. ASSUME NEW ss, ss \subseteq ToSet(srvList)
        PROVE  {<<"logger", "">>} \cup AppUsers \cup ReloadUsers(ss) \subseteq DOMAIN uses
    <3>1. AppUsers \subseteq DOMAIN uses
      BY UserClasses, UsersIn DEF ListInv
    <3>2. ASSUME NEW u \in {"server", "session", "addr"} \X ss PROVE u \in DOMAIN uses
      <4>1. u[2] \in ToSet(srvList) /\ u \in OfServer(u[2])
        BY <2>3, <3>2 DEF OfServer, ListInv
      <4> QED BY <4>1, UsersIn DEF ListInv
    <3>3. ASSUME NEW u \in {"chat", "buffer"} \X (ss \cap chan) PROVE u \in DOMAIN uses
      <4>1. u[2] \in chan /\ u \in OfChat(u[2])
        BY <3>3 DEF OfChat, ListInv
      <4> QED BY <4>1, UsersIn DEF ListInv
    <3> QED BY <2>2, <3>1, <3>2, <3>3 DEF ReloadUsers, ListInv
  <2>4. \E ss : /\ ss \subseteq ToSet(srvList)
                /\ \/ Replaced({}) \/ Replaced({<<"logger", "">>})
                   \/ Replaced({<<"logger", "">>} \cup AppUsers \cup ReloadUsers(ss))
    <3> DEFINE first == {i \in DOMAIN srvList :
                           \A j \in 1..i : ServerChecked(ReadServer(Parsed(file), srvList[j]), srvList[j])}
               ss == {srvList[i] : i \in first}
    <3>1. ss \subseteq ToSet(srvList)
      BY DEF ToSet, ListInv
    <3> QED BY <1>8, <3>1 DEF ReloadConfig, ReloadFails, AppUsers, ListInv
  <2>6. DOMAIN uses' = DOMAIN uses
    <3>1. PICK ss : /\ ss \subseteq ToSet(srvList)
                    /\ \/ Replaced({}) \/ Replaced({<<"logger", "">>})
                       \/ Replaced({<<"logger", "">>} \cup AppUsers \cup ReloadUsers(ss))
      BY <2>4
    <3>2. {<<"logger", "">>} \cup AppUsers \cup ReloadUsers(ss) \subseteq DOMAIN uses
      BY <2>3, <3>1
    <3>3. CASE Replaced({})
      BY <2>1, <2>2, <3>3
    <3>4. CASE Replaced({<<"logger", "">>})
      BY <2>1, <2>2, <3>4
    <3>5. CASE Replaced({<<"logger", "">>} \cup AppUsers \cup ReloadUsers(ss))
      BY <2>1, <3>2, <3>5
    <3> QED BY <3>1, <3>3, <3>4, <3>5
  <2>7. /\ made < MaxMade /\ made' = made + 1 /\ userCfg' = Parsed(file)
        /\ UNCHANGED <<file, srvList, chan>>
    BY <1>8 DEF ReloadConfig
  <2>8. made' \in 0..MaxMade /\ userCfg' \in UserFiles \cup {EmptyFile}
    BY <2>7, ConfigBound DEF Parsed, ListInv
  <2>9. told' \in {"ok", "error"}
    <3>1. CASE file = Malformed
      BY <1>8, <3>1 DEF ReloadConfig, ReloadFails
    <3>2. CASE file # Malformed /\ ~OrderValid(Parsed(file))
      BY <1>8, <3>2 DEF ReloadConfig, ReloadFails
    <3>3. CASE file # Malformed /\ OrderValid(Parsed(file))
      BY <1>8, <3>3 DEF ReloadConfig
    <3> QED BY <3>1, <3>2, <3>3
  <2> QED BY <2>6, <2>7, <2>8, <2>9 DEF ListInv
<1>9. CASE UNCHANGED configVars
  BY <1>9 DEF configVars, ListInv
<1> QED BY <1>2, <1>3, <1>5, <1>6, <1>7, <1>8, <1>9 DEF ConfigNext, ListInv

LEMMA ListInvariance == ConfigSpec => []ListInv
<1> QED BY ListInit, ListStep, PTL DEF ConfigSpec

-----------------------------------------------------------------------------
(* Those off the list keep to themselves.                                  *)

(* Somebody is given a configuration that was just made, or goes; what is  *)
(* freed is what they used, or what was just made.                         *)
LEMMA StraysStay ==
  ASSUME StrayInv, Numbered, strays' = strays, made' \in {made, made + 1},
         \A u \in DOMAIN uses' : uses'[u] = made + 1 \/ (u \in DOMAIN uses /\ uses'[u] = uses[u]),
         freed \subseteq freed',
         \A c \in freed' \ freed : c[2] = made + 1 \/ \E u \in DOMAIN uses : c = <<OwnerOf(u), uses[u]>>
  PROVE  StrayInv'
<1> SUFFICES ASSUME NEW c \in strays
             PROVE  /\ c \in ({"server", "own", "chat"} \X Names) \X (0..made')
                    /\ \A u \in DOMAIN uses' : <<OwnerOf(u), uses'[u]>> # c
                    /\ c \in freed' <=> c[1][1] = "server"
  BY DEF StrayInv, OwnerOf
<1>1. /\ c \in ({"server", "own", "chat"} \X Names) \X (0..made)
      /\ \A u \in DOMAIN uses : <<OwnerOf(u), uses[u]>> # c
      /\ c \in freed <=> c[1][1] = "server"
  BY DEF StrayInv
<1>2. made \in Nat
  BY DEF Numbered
<1>3. c[2] # made + 1 /\ c[2] \in 0..made'
  BY <1>1, <1>2
<1>4. c \in ({"server", "own", "chat"} \X Names) \X (0..made')
  BY <1>1, <1>3
<1>5. \A u \in DOMAIN uses' : <<OwnerOf(u), uses'[u]>> # c
  BY <1>1, <1>3
<1>6. c \in freed' <=> c \in freed
  BY <1>1, <1>3
<1> QED BY <1>1, <1>4, <1>5, <1>6

LEMMA StraysJoin ==
  ASSUME StrayInv, LiveInv, ListInv, NEW s \in Names, NEW disconnected \in BOOLEAN,
         RemoveServer(s, disconnected)
  PROVE  StrayInv'
<1> DEFINE us == OfServer(s) \cup OfChat(s)
           ends == IF disconnected THEN us ELSE {<<"server", s>>}
<1>1. /\ uses' = Drop(us) /\ freed' = freed \cup ConfigsOf(ends) /\ made' = made
      /\ strays' = strays \cup (IF disconnected THEN {} ELSE ConfigsOf(us))
  BY DEF RemoveServer
<1>2. DOMAIN uses' = DOMAIN uses \ us /\ \A u \in DOMAIN uses \ us : uses'[u] = uses[u]
  BY <1>1 DEF Drop
<1>3. Numbered
  BY DEF LiveInv
<1>4. \A c \in freed' \ freed : \E u \in DOMAIN uses : c = <<OwnerOf(u), uses[u]>>
  BY <1>1 DEF ConfigsOf
<1>5. ASSUME NEW c \in strays
      PROVE  /\ c \in ({"server", "own", "chat"} \X Names) \X (0..made)
             /\ \A u \in DOMAIN uses' : <<OwnerOf(u), uses'[u]>> # c
             /\ c \in freed' <=> c[1][1] = "server"
  <2>1. /\ c \in ({"server", "own", "chat"} \X Names) \X (0..made)
        /\ \A u \in DOMAIN uses : <<OwnerOf(u), uses[u]>> # c
        /\ c \in freed <=> c[1][1] = "server"
    BY <1>5 DEF StrayInv
  <2>2. \A u \in DOMAIN uses' : <<OwnerOf(u), uses'[u]>> # c
    BY <1>2, <2>1
  <2>3. c \in freed' <=> c \in freed
    <3>1. c \in freed => c \in freed'
      BY <1>1
    <3>2. c \notin freed' \ freed
      BY <1>4, <2>1
    <3> QED BY <3>1, <3>2
  <2> QED BY <2>1, <2>2, <2>3
<1>6. ASSUME NEW v \in us \cap DOMAIN uses, ~disconnected
      PROVE  /\ <<OwnerOf(v), uses[v]>> \in ({"server", "own", "chat"} \X Names) \X (0..made)
             /\ \A u \in DOMAIN uses' : <<OwnerOf(u), uses'[u]>> # <<OwnerOf(v), uses[v]>>
             /\ <<OwnerOf(v), uses[v]>> \in freed' <=> OwnerOf(v)[1] = "server"
  <2>1. OwnerOf(v) \in {<<"server", s>>, <<"own", s>>, <<"chat", s>>}
    <3>1. v \in ServerUsers(s) \/ v \in OwnUsers(s) \/ v \in OfChat(s)
      BY <1>6, UserClasses
    <3> QED BY <3>1, Owners
  <2>2. uses[v] \in 0..made /\ v # Quit
    <3>1. Whole(us)
      BY WholeServer, WholeChat, WholeUnion
    <3> QED BY <1>3, <1>6, <3>1 DEF Numbered, Whole
  <2>3. ASSUME NEW u \in DOMAIN uses' PROVE OwnerOf(u) # OwnerOf(v)
    <3>1. CASE u = Quit
      <4>1. OwnerOf(u) = <<"logger", "">>
        BY <3>1, QuitIsLogger, Owners
      <4> QED BY <2>1, <4>1, OwnersDiffer
    <3>2. CASE u # Quit
      <4>1. Whole(us) /\ IsUser(u) /\ u \notin us
        BY <1>2, <1>3, <2>3, WholeServer, WholeChat, WholeUnion DEF Numbered
      <4> QED BY <1>6, <3>2, <4>1 DEF Whole
    <3> QED BY <3>1, <3>2
  <2>4. <<OwnerOf(v), uses[v]>> \notin freed
    BY <1>6, <2>2 DEF LiveInv, UsersLive
  <2>5. CASE OwnerOf(v) = <<"server", s>>
    <3>1. <<"server", s>> \in ServerUsers(s) /\ OwnerOf(<<"server", s>>) = <<"server", s>>
      BY Owners DEF ServerUsers
    <3>2. <<"server", s>> \in DOMAIN uses
      BY <3>1, UsersIn, UserClasses DEF RemoveServer, Listed, ListInv
    <3>3. uses[<<"server", s>>] = uses[v]
      <4>1. <<"server", s>> # Quit
        BY <3>1, NotQuit
      <4> QED BY <1>6, <2>2, <2>5, <3>1, <3>2, <4>1 DEF LiveInv, Uniform
    <3>4. <<OwnerOf(v), uses[v]>> \in ConfigsOf(ends)
      BY <1>6, <2>5, <3>1, <3>2, <3>3 DEF ConfigsOf
    <3>5. OwnerOf(v)[1] = "server"
      BY <2>5
    <3>6. <<OwnerOf(v), uses[v]>> \in ({"server", "own", "chat"} \X Names) \X (0..made)
      BY <2>2, <2>5
    <3> QED BY <1>1, <2>3, <3>4, <3>5, <3>6
  <2>6. CASE OwnerOf(v) # <<"server", s>>
    <3>1. OwnerOf(<<"server", s>>) = <<"server", s>>
      BY Owners DEF ServerUsers
    <3>2. \A c \in ConfigsOf(ends) : c[1] = <<"server", s>>
      BY <1>6, <3>1 DEF ConfigsOf
    <3>3. OwnerOf(v)[1] # "server"
      BY <2>1, <2>6
    <3>4. OwnerOf(v) \in {"server", "own", "chat"} \X Names
      BY <2>1
    <3>5. \A u \in DOMAIN uses' : <<OwnerOf(u), uses'[u]>> # <<OwnerOf(v), uses[v]>>
      BY <2>3
    <3>6. <<OwnerOf(v), uses[v]>> \notin freed'
      BY <1>1, <2>4, <2>6, <3>2
    <3> QED BY <2>2, <3>3, <3>4, <3>5, <3>6
  <2> QED BY <2>5, <2>6
<1>7. ASSUME NEW c \in strays'
      PROVE  /\ c \in ({"server", "own", "chat"} \X Names) \X (0..made')
             /\ \A u \in DOMAIN uses' : <<OwnerOf(u), uses'[u]>> # c
             /\ c \in freed' <=> c[1][1] = "server"
  <2>1. CASE c \in strays
    BY <1>1, <1>5, <2>1
  <2>2. CASE c \notin strays
    <3>1. ~disconnected /\ \E v \in us \cap DOMAIN uses : c = <<OwnerOf(v), uses[v]>>
      BY <1>1, <1>7, <2>2 DEF ConfigsOf
    <3> QED BY <1>1, <1>6, <3>1
  <2> QED BY <2>1, <2>2
<1> QED BY <1>7 DEF StrayInv, OwnerOf

LEMMA StrayInit == ConfigInit => StrayInv
BY DEF ConfigInit, StrayInv

LEMMA StraysReload ==
  ASSUME StrayInv, LiveInv, ReloadConfig
  PROVE  StrayInv'
<1>1. made' = made + 1 /\ strays' = strays /\ Numbered
  BY DEF ReloadConfig, LiveInv
<1>2. PICK us : Replaced(us)
  BY DEF ReloadConfig, ReloadFails
<1>3. \A u \in DOMAIN uses' : uses'[u] = made + 1 \/ (u \in DOMAIN uses /\ uses'[u] = uses[u])
  BY <1>2 DEF Replaced, Moved, Point
<1>4. /\ freed \subseteq freed'
      /\ \A c \in freed' \ freed : \E u \in DOMAIN uses : c = <<OwnerOf(u), uses[u]>>
  BY <1>2 DEF Replaced, Moved, ConfigsOf
<1> QED BY <1>1, <1>3, <1>4, StraysStay

LEMMA StraysAdd ==
  ASSUME StrayInv, LiveInv, NEW s, NEW cfg, Add(s, cfg)
  PROVE  StrayInv'
<1>1. made' = made + 1 /\ strays' = strays /\ Numbered
  BY DEF Add, LiveInv
<1>2. \A u \in DOMAIN uses' : uses'[u] = made + 1 \/ (u \in DOMAIN uses /\ uses'[u] = uses[u])
  BY DEF Add, Point
<1>3. freed \subseteq freed' /\ \A c \in freed' \ freed : c[2] = made + 1
  BY DEF Add
<1> QED BY <1>1, <1>2, <1>3, StraysStay

LEMMA StrayInvKept == LiveInv /\ ListInv /\ StrayInv /\ [ConfigNext]_configVars => StrayInv'
<1> SUFFICES ASSUME LiveInv, ListInv, StrayInv, [ConfigNext]_configVars PROVE StrayInv'
  OBVIOUS
<1>1. Numbered
  BY DEF LiveInv
<1>2. CASE UNCHANGED <<uses, freed, strays, made>>
  BY <1>1, <1>2 DEF StrayInv, OwnerOf
<1>3. ASSUME NEW f, EditFile(f) PROVE StrayInv'
  BY <1>2, <1>3 DEF EditFile
<1>4. ASSUME NEW s, AddServer(s) \/ AddServerWith(s) PROVE StrayInv'
  BY <1>4, StraysAdd DEF AddServer, AddServerWith
<1>5. ASSUME NEW s \in Names, NEW disconnected \in BOOLEAN, RemoveServer(s, disconnected)
      PROVE  StrayInv'
  BY <1>5, StraysJoin
<1>6. ASSUME NEW s, OpenChat(s) PROVE StrayInv'
  <2>1. made' = made + 1 /\ strays' = strays /\ freed' = freed
    BY <1>6 DEF OpenChat
  <2>2. \A u \in DOMAIN uses' : uses'[u] = made + 1 \/ (u \in DOMAIN uses /\ uses'[u] = uses[u])
    BY <1>6 DEF OpenChat, Point
  <2> QED BY <1>1, <2>1, <2>2, StraysStay
<1>7. ASSUME NEW s, CloseChat(s) PROVE StrayInv'
  <2>1. made' = made /\ strays' = strays /\ freed \subseteq freed'
    BY <1>7 DEF CloseChat
  <2>2. /\ \A u \in DOMAIN uses' : u \in DOMAIN uses /\ uses'[u] = uses[u]
        /\ \A c \in freed' \ freed : \E u \in DOMAIN uses : c = <<OwnerOf(u), uses[u]>>
    BY <1>7 DEF CloseChat, Drop, ConfigsOf
  <2> QED BY <1>1, <2>1, <2>2, StraysStay
<1>8. CASE ReloadConfig
  BY <1>8, StraysReload
<1>9. CASE UNCHANGED configVars
  BY <1>2, <1>9 DEF configVars
<1> QED BY <1>3, <1>4, <1>5, <1>6, <1>7, <1>8, <1>9 DEF ConfigNext

-----------------------------------------------------------------------------
(* Whatever is used is made, all users of an owner agree on one            *)
(* configuration, and it is not freed; what a server off the list uses     *)
(* that was not freed with it is used by nobody else, and its own          *)
(* configuration alone is freed: srn_application_reload_config,            *)
(* srn_server_set_config, srn_application_rm_server, srn_server_free.      *)
THEOREM ConfigInvariance == ConfigSpec => [](LiveInv /\ StrayInv)
<1> QED BY ConfigInitInv, LiveInvKept, ListInvariance, StrayInit, StrayInvKept, PTL DEF ConfigSpec

(* Servers of the list, chats, windows, sessions and buffers never point   *)
(* to a configuration that a reload, a failed server or a removal has      *)
(* freed; a server off the list that was not freed does, its chats do not. *)
THEOREM UsedConfigsLive == ConfigSpec => []ConfigsLive
<1>1. LiveInv /\ StrayInv => ConfigsLive
  BY DEF LiveInv, UsersLive, StrayInv, ConfigsLive, Quit
<1> QED BY <1>1, ConfigInvariance, PTL

(* Configurations keep their types: whoever uses one is a server of the    *)
(* list, a chat of it or one of the users that are always there.           *)
THEOREM ConfigTypes == ConfigSpec => []ConfigTypeOK
<1>1. ListInv /\ LiveInv /\ StrayInv => ConfigTypeOK
  <2> SUFFICES ASSUME ListInv, LiveInv, StrayInv PROVE ConfigTypeOK
    OBVIOUS
  <2>1. ToSet(srvList) \subseteq Names
    <3>1. \A i \in DOMAIN srvList : srvList[i] \in Names
      BY LenProperties DEF ListInv
    <3> QED BY <3>1 DEF ToSet
  <2>2. \A u \in DOMAIN uses : uses[u] \in 0..made
    BY DEF LiveInv, Numbered
  <2>3. DOMAIN uses = UsersOf(ToSet(srvList), chan)
    BY DEF ListInv
  <2>4. strays \subseteq ({"server", "own", "chat"} \X Names) \X (0..made)
    BY DEF StrayInv
  <2> QED BY <2>1, <2>2, <2>3, <2>4 DEF ListInv, ConfigTypeOK, UsersOf
<1> QED BY <1>1, ListInvariance, ConfigInvariance, PTL

-----------------------------------------------------------------------------
(* "Reloaded" is said of everybody in the list, and whoever joins it later *)
(* reads what is then still the file.                                      *)

SaysOfServer(s) == <<"server", s>> \in DOMAIN is /\ is[<<"server", s>>] = ReadServer(file, s)
SaysOfChat(s) == <<"chat", s>> \in DOMAIN is /\ is[<<"chat", s>>] = ReadChat(file, s)

ReloadedInv ==
  told = "ok" => /\ file # Malformed /\ userCfg = file
                 /\ \A s \in ToSet(srvList) : SaysOfServer(s)
                 /\ \A s \in chan : SaysOfChat(s)

LEMMA SayingRead ==
  ASSUME NEW read
  PROVE  /\ DOMAIN Saying(read) = DOMAIN read \cup DOMAIN is
         /\ \A o \in DOMAIN read : Saying(read)[o] = read[o]
         /\ \A o \in DOMAIN is : o \notin DOMAIN read => Saying(read)[o] = is[o]
BY DEF Saying

LEMMA ReloadedAdd ==
  ASSUME ListInv, ReloadedInv, NEW s \in Names, NEW cfg, Add(s, cfg), ~Listed(s),
         told' = "ok" => told = "ok" /\ cfg = ReadServer(userCfg, s)
  PROVE  ReloadedInv'
<1> SUFFICES ASSUME told' = "ok" PROVE ReloadedInv'
  BY DEF ReloadedInv
<1>1. told = "ok" /\ cfg = ReadServer(file, s) /\ file # Malformed /\ userCfg = file
  BY DEF ReloadedInv
<1>2. file' = file /\ userCfg' = userCfg
  BY DEF Add
<1>3. CASE ~ServerChecked(cfg, s)
  BY <1>1, <1>3 DEF Add, ReloadedInv, SaysOfServer, SaysOfChat
<1>4. CASE ServerChecked(cfg, s)
  <2>1. /\ ToSet(srvList') = ToSet(srvList) \cup {s} /\ chan' \subseteq chan \cup {s}
        /\ chan \subseteq ToSet(srvList)
    <3>1. srvList' = Append(srvList, s) /\ chan' \in {chan \cup {s}, chan}
      BY <1>4 DEF Add
    <3> QED BY <3>1, AppendedOnce DEF ListInv, Listed
  <2> DEFINE read == [o \in {<<"server", s>>, <<"chat", s>>} |->
                        IF o[1] = "server" THEN cfg ELSE ReadChat(userCfg, s)]
  <2>2. is' = Saying(read)
    BY <1>4 DEF Add
  <2>3. /\ DOMAIN read = {<<"server", s>>, <<"chat", s>>}
        /\ read[<<"server", s>>] = cfg /\ read[<<"chat", s>>] = ReadChat(userCfg, s)
    OBVIOUS
  <2> HIDE DEF read
  <2>4. /\ DOMAIN is' = {<<"server", s>>, <<"chat", s>>} \cup DOMAIN is
        /\ is'[<<"server", s>>] = cfg /\ is'[<<"chat", s>>] = ReadChat(userCfg, s)
        /\ \A o \in DOMAIN is : o \notin {<<"server", s>>, <<"chat", s>>} => is'[o] = is[o]
    BY <2>2, <2>3, SayingRead
  <2>5. SaysOfServer(s)' /\ SaysOfChat(s)'
    BY <1>1, <1>2, <2>4 DEF SaysOfServer, SaysOfChat
  <2>6. ASSUME NEW t \in ToSet(srvList), t # s PROVE SaysOfServer(t)'
    <3>1. <<"server", t>> # <<"server", s>> /\ <<"server", t>> # <<"chat", s>>
      BY <2>6
    <3>2. SaysOfServer(t)
      BY <1>1 DEF ReloadedInv
    <3> QED BY <1>2, <2>4, <3>1, <3>2 DEF SaysOfServer
  <2>7. ASSUME NEW t \in chan, t # s PROVE SaysOfChat(t)'
    <3>1. <<"chat", t>> # <<"server", s>> /\ <<"chat", t>> # <<"chat", s>>
      BY <2>7
    <3>2. SaysOfChat(t)
      BY <1>1 DEF ReloadedInv
    <3> QED BY <1>2, <2>4, <3>1, <3>2 DEF SaysOfChat
  <2> QED BY <1>1, <1>2, <2>1, <2>5, <2>6, <2>7 DEF ReloadedInv
<1> QED BY <1>3, <1>4

LEMMA ReloadedReload ==
  ASSUME ListInv, ReloadConfig
  PROVE  ReloadedInv'
<1> SUFFICES ASSUME told' = "ok" PROVE ReloadedInv'
  BY DEF ReloadedInv
<1> DEFINE new == Parsed(file)
           Good(s) == ServerChecked(ReadServer(new, s), s)
           first == {i \in DOMAIN srvList : \A j \in 1..i : Good(srvList[j])}
           ss == {srvList[i] : i \in first}
           us == ReloadUsers(ss)
           read == [o \in {OwnerOf(u) : u \in us} |->
                      IF o[1] = "server" THEN ReadServer(new, o[2]) ELSE ReadChat(new, o[2])]
<1>1. file # Malformed
  BY DEF ReloadConfig, ReloadFails
<1>2. OrderValid(Parsed(file))
  BY <1>1 DEF ReloadConfig, ReloadFails
<1>3. /\ is' = Saying(read)
      /\ \A s \in ToSet(srvList) : Good(s)
  BY <1>1, <1>2 DEF ReloadConfig, Moved
<1>4. new = file /\ userCfg' = file /\ UNCHANGED <<file, srvList, chan>>
  BY <1>1 DEF ReloadConfig, Parsed
<1>5. ss = ToSet(srvList)
  <2>1. DOMAIN srvList = 1..Len(srvList) /\ Len(srvList) \in Nat
    BY LenProperties DEF ListInv
  <2>2. \A i \in DOMAIN srvList : \A j \in 1..i : srvList[j] \in ToSet(srvList)
    BY <2>1 DEF ToSet
  <2>3. first = DOMAIN srvList
    BY <1>3, <2>2
  <2> QED BY <2>3 DEF ToSet
<1>6. \A o \in DOMAIN read : o \in DOMAIN is' /\ is'[o] = read[o]
  BY <1>3, SayingRead
<1>7. ASSUME NEW s \in ToSet(srvList)
      PROVE  SaysOfServer(s)'
  <2>1. <<"server", s>> \in us /\ OwnerOf(<<"server", s>>) = <<"server", s>>
    BY <1>5 DEF ReloadUsers, OwnerOf
  <2>2. <<"server", s>> \in DOMAIN read /\ read[<<"server", s>>] = ReadServer(new, s)
    BY <2>1
  <2> QED BY <1>4, <1>6, <2>2 DEF SaysOfServer
<1>8. ASSUME NEW s \in chan
      PROVE  SaysOfChat(s)'
  <2>1. <<"chat", s>> \in us /\ OwnerOf(<<"chat", s>>) = <<"chat", s>>
    BY <1>5 DEF ReloadUsers, OwnerOf, ListInv
  <2>2. <<"chat", s>> \in DOMAIN read /\ read[<<"chat", s>>] = ReadChat(new, s)
    BY <2>1
  <2> QED BY <1>4, <1>6, <2>2 DEF SaysOfChat
<1> QED BY <1>1, <1>4, <1>7, <1>8 DEF ReloadedInv

LEMMA ReloadedStep == ListInv /\ ReloadedInv /\ [ConfigNext]_configVars => ReloadedInv'
<1> SUFFICES ASSUME ListInv, ReloadedInv, [ConfigNext]_configVars PROVE ReloadedInv'
  OBVIOUS
<1>1. CASE UNCHANGED configVars
  BY <1>1 DEF configVars, ReloadedInv, SaysOfServer, SaysOfChat
<1>2. ASSUME NEW f, EditFile(f) PROVE ReloadedInv'
  BY <1>2 DEF EditFile, ReloadedInv
<1>3. ASSUME NEW s \in Names, AddServer(s) PROVE ReloadedInv'
  <2>1. told' = told
    BY <1>3 DEF AddServer
  <2>2. Add(s, ReadServer(userCfg, s)) /\ ~Listed(s)
    BY <1>3 DEF AddServer
  <2> QED BY <2>1, <2>2, ReloadedAdd
<1>4. ASSUME NEW s \in Names, AddServerWith(s) PROVE ReloadedInv'
  BY <1>4 DEF AddServerWith, ReloadedInv
<1>5. ASSUME NEW s, NEW disconnected \in BOOLEAN, RemoveServer(s, disconnected) PROVE ReloadedInv'
  <2>1. PICK i \in DOMAIN srvList : srvList[i] = s /\ srvList' = RemoveAt(srvList, i)
    BY <1>5 DEF RemoveServer
  <2>2. ToSet(srvList') \subseteq ToSet(srvList)
    BY <2>1, RemovedOnce DEF ListInv
  <2>3. chan' \subseteq chan /\ UNCHANGED <<file, userCfg, is, told>>
    BY <1>5 DEF RemoveServer
  <2> QED BY <2>2, <2>3 DEF ReloadedInv, SaysOfServer, SaysOfChat
<1>6. ASSUME NEW s, OpenChat(s) PROVE ReloadedInv'
  <2> SUFFICES ASSUME told' = "ok" PROVE ReloadedInv'
    BY DEF ReloadedInv
  <2> DEFINE read == [o \in {<<"chat", s>>} |-> ReadChat(userCfg, s)]
  <2>1. /\ chan' = chan \cup {s} /\ is' = Saying(read)
        /\ UNCHANGED <<file, userCfg, srvList, told>>
    BY <1>6 DEF OpenChat
  <2>2. /\ DOMAIN is' = {<<"chat", s>>} \cup DOMAIN is /\ is'[<<"chat", s>>] = ReadChat(userCfg, s)
        /\ \A o \in DOMAIN is : o # <<"chat", s>> => is'[o] = is[o]
    BY <2>1, SayingRead
  <2> HIDE DEF read
  <2>3. ASSUME NEW t \in ToSet(srvList) PROVE SaysOfServer(t)'
    <3>1. <<"server", t>> # <<"chat", s>>
      OBVIOUS
    <3> QED BY <2>1, <2>2, <3>1 DEF ReloadedInv, SaysOfServer
  <2>4. ASSUME NEW t \in chan' PROVE SaysOfChat(t)'
    <3>1. t # s => t \in chan /\ <<"chat", t>> # <<"chat", s>>
      BY <2>1
    <3> QED BY <2>1, <2>2, <3>1 DEF ReloadedInv, SaysOfChat
  <2> QED BY <2>1, <2>3, <2>4 DEF ReloadedInv
<1>7. ASSUME NEW s, CloseChat(s) PROVE ReloadedInv'
  BY <1>7 DEF CloseChat, ReloadedInv, SaysOfServer, SaysOfChat
<1>8. CASE ReloadConfig
  BY <1>8, ReloadedReload
<1> QED BY <1>1, <1>2, <1>3, <1>4, <1>5, <1>6, <1>7, <1>8 DEF ConfigNext

(* When a reload said that all was reloaded, every server and chat of the  *)
(* list goes by what the file said then.                                   *)
THEOREM ReloadedMeansAll == ConfigSpec => []AllReloaded
<1>1. ConfigInit => ReloadedInv
  BY DEF ConfigInit, ReloadedInv
<1>2. ReloadedInv => AllReloaded
  BY DEF ReloadedInv, AllReloaded, SaysOfServer, SaysOfChat
<1>3. ConfigSpec => []ReloadedInv
  BY <1>1, ReloadedStep, ListInvariance, PTL DEF ConfigSpec
<1> QED BY <1>2, <1>3, PTL

-----------------------------------------------------------------------------
(* Command lines.                                                          *)

(* What lines are made of, and what the parser leaves of one. *)
Signs ==
  {BLANK, QUOTE, SLASH, "-"} \cup DOMAIN Bindings
    \cup (UNION {ToSet(Bindings[c].sub) : c \in DOMAIN Bindings})
    \cup (UNION {UNION {ToSet(o.key) : o \in ToSet(Bindings[c].opts)} : c \in DOMAIN Bindings})
    \cup (UNION {ToSet(v) : v \in Values})
Script == Seq(Signs)
Trimmed == {s \in Script : s # <<>> => s[1] # BLANK}

LEMMA SignsApart ==
  /\ BLANK # QUOTE /\ BLANK # SLASH /\ QUOTE # SLASH /\ BLANK # "-" /\ QUOTE # "-"
  /\ {BLANK, QUOTE, SLASH, "-"} \subseteq Signs
<1>1. BLANK # QUOTE /\ BLANK # SLASH /\ QUOTE # SLASH /\ BLANK # "-" /\ QUOTE # "-"
  BY Zenon DEF BLANK, QUOTE, SLASH
<1> QED BY <1>1 DEF Signs

LEMMA ValuesAreScript == Values \subseteq Script
<1> SUFFICES ASSUME NEW v \in Values PROVE v \in Script
  OBVIOUS
<1>1. v \in Seq(ToSet(v))
  BY ValuesAreTexts
<1>2. ToSet(v) \subseteq Signs
  BY DEF Signs
<1>3. Len(v) \in Nat /\ v \in [1..Len(v) -> Signs]
  BY <1>1, <1>2
<1> QED BY <1>3 DEF Script

LEMMA ScriptIs ==
  ASSUME NEW s \in Script
  PROVE  /\ Len(s) \in Nat /\ DOMAIN s = 1..Len(s) /\ \A i \in 1..Len(s) : s[i] \in Signs
         /\ s = <<>> <=> Len(s) = 0
BY LenProperties, ElementOfSeq, EmptySeq DEF Script

(* The rest of a line from one place on. *)
Remain(m, n, i) == m = n - i + 1 \/ (m = 0 /\ i > n)
LEMMA BehindIs ==
  ASSUME NEW s \in Script, NEW n \in Nat, n = Len(s), NEW i \in Nat \ {0}, NEW m \in Nat,
         Remain(m, n, i)
  PROVE  /\ Behind(s, i) \in Script /\ Len(Behind(s, i)) = m
         /\ \A j \in 1..m : Behind(s, i)[j] = s[i + j - 1]
<1>1. i \in Int /\ n \in Int /\ \A j \in i..n : s[j] \in Signs
  BY ScriptIs
<1>2. /\ SubSeq(s, i, n) \in Seq(Signs)
      /\ Len(SubSeq(s, i, n)) = IF i <= n THEN n - i + 1 ELSE 0
      /\ \A j \in 1..n - i + 1 : SubSeq(s, i, n)[j] = s[i + j - 1]
  BY <1>1, SubSeqProperties
<1> USE DEF Remain
<1> DEFINE t == SubSeq(s, i, n)
<1>3. Behind(s, i) = t
  BY DEF Behind
<1> HIDE DEF t
<1>4. t \in Script /\ Len(t) = m
  BY <1>2 DEF t, Script
<1>5. \A j \in 1..m : t[j] = s[i + j - 1]
  BY <1>2 DEF t
<1> QED BY <1>3, <1>4, <1>5

LEMMA BehindAll == ASSUME NEW s \in Script PROVE Behind(s, 1) = s
BY SubSeqFull DEF Behind, Script

(* The first of the places where something holds. *)
IsFirst(k, T, n) == k \in 1..n + 1 /\ (k <= n => k \in T) /\ \A j \in 1..n : j < k => j \notin T

LEMMA FirstPlace ==
  ASSUME NEW n \in Nat, NEW T \in SUBSET (1..n), NEW k,
         k = IF (IF T # {} THEN Min(T) ELSE 0) = 0 THEN n + 1 ELSE (IF T # {} THEN Min(T) ELSE 0)
  PROVE  IsFirst(k, T, n)
<1>1. CASE T = {}
  BY <1>1 DEF IsFirst
<1>2. CASE T # {}
  <2>1. Min(T) \in T /\ \A y \in T : Min(T) <= y
    BY <1>2, MinIn
  <2>2. Min(T) \in 1..n /\ Min(T) # 0
    BY <2>1
  <2>3. k = Min(T)
    BY <1>2, <2>2
  <2> QED BY <2>1, <2>2, <2>3 DEF IsFirst
<1> QED BY <1>1, <1>2

LEMMA FirstIs ==
  ASSUME NEW n \in Nat, NEW T \in SUBSET (1..n), NEW k, IsFirst(k, T, n), NEW l, IsFirst(l, T, n)
  PROVE  k = l
BY DEF IsFirst

(* The word at the beginning ends before the first blank. *)
LEMMA FirstBlank ==
  ASSUME NEW s \in Script, NEW n \in Nat, n = Len(s)
  PROVE  IsFirst(FirstAt(s, LAMBDA c : c = BLANK), {i \in 1..n : s[i] = BLANK}, n)
<1> DEFINE T == {i \in 1..n : s[i] = BLANK}
           k == FirstAt(s, LAMBDA c : c = BLANK)
<1>1. k = IF (IF T # {} THEN Min(T) ELSE 0) = 0 THEN n + 1 ELSE (IF T # {} THEN Min(T) ELSE 0)
  BY DEF FirstAt, SelectInSeq
<1>2. T \in SUBSET (1..n)
  OBVIOUS
<1> HIDE DEF T, k
<1>3. IsFirst(k, T, n)
  BY <1>1, <1>2, FirstPlace
<1> QED BY <1>3 DEF T, k

LEMMA FirstOther ==
  ASSUME NEW s \in Script, NEW n \in Nat, n = Len(s)
  PROVE  \E k \in Nat \ {0} : IsFirst(k, {i \in 1..n : s[i] # BLANK}, n) /\ Chug(s) = Behind(s, k)
<1> DEFINE T == {i \in 1..n : s[i] # BLANK}
           k == FirstAt(s, LAMBDA c : c # BLANK)
<1>1. k = IF (IF T # {} THEN Min(T) ELSE 0) = 0 THEN n + 1 ELSE (IF T # {} THEN Min(T) ELSE 0)
  BY DEF FirstAt, SelectInSeq
<1>2. T \in SUBSET (1..n)
  OBVIOUS
<1>4. Chug(s) = Behind(s, k)
  BY DEF Chug
<1> HIDE DEF T, k
<1>3. IsFirst(k, T, n)
  BY <1>1, <1>2, FirstPlace
<1>5. k \in Nat \ {0}
  BY <1>3 DEF IsFirst
<1> QED BY <1>3, <1>4, <1>5 DEF T

(* g_strchug leaves what does not begin with a blank, and takes the blanks *)
(* off what does.                                                          *)
LEMMA ChugTyped == ASSUME NEW s \in Script PROVE Chug(s) \in Trimmed
<1>1. PICK n \in Nat : n = Len(s)
  BY ScriptIs
<1>2. PICK k \in Nat \ {0} : IsFirst(k, {i \in 1..n : s[i] # BLANK}, n) /\ Chug(s) = Behind(s, k)
  BY <1>1, FirstOther
<1>3. k \in 1..n + 1 /\ k \in Nat \ {0} /\ (k <= n => s[k] # BLANK)
  BY <1>2 DEF IsFirst
<1>4. PICK m \in Nat : m = n - k + 1 /\ Remain(m, n, k)
  BY <1>3 DEF Remain
<1>5. /\ Chug(s) \in Script /\ Len(Chug(s)) = m /\ \A j \in 1..m : Chug(s)[j] = s[k + j - 1]
  <2>1. /\ Behind(s, k) \in Script /\ Len(Behind(s, k)) = m
        /\ \A j \in 1..m : Behind(s, k)[j] = s[k + j - 1]
    BY <1>1, <1>4, BehindIs
  <2> QED BY <1>2, <2>1
<1>6. CASE m = 0
  <2>1. Chug(s) = <<>>
    BY <1>5, <1>6, ScriptIs
  <2> QED BY <1>5, <2>1 DEF Trimmed
<1>7. CASE m > 0
  <2>1. Chug(s)[1] = s[k + 1 - 1] /\ k + 1 - 1 = k /\ k <= n
    BY <1>3, <1>4, <1>5, <1>7
  <2> QED BY <1>3, <1>5, <2>1 DEF Trimmed
<1> QED BY <1>4, <1>6, <1>7

LEMMA ChugNothing == ASSUME NEW s \in Trimmed PROVE Chug(s) = s
<1>0. s \in Script /\ (s # <<>> => s[1] # BLANK)
  BY DEF Trimmed
<1>1. PICK n \in Nat : n = Len(s)
  BY <1>0, ScriptIs
<1>2. PICK k \in Nat \ {0} : IsFirst(k, {i \in 1..n : s[i] # BLANK}, n) /\ Chug(s) = Behind(s, k)
  BY <1>0, <1>1, FirstOther
<1>3. k = 1
  <2>1. CASE n = 0
    BY <1>2, <2>1 DEF IsFirst
  <2>2. CASE n > 0
    <3>1. 1 \in {i \in 1..n : s[i] # BLANK}
      BY <1>0, <1>1, <2>2, ScriptIs
    <3> QED BY <1>2, <2>2, <3>1 DEF IsFirst
  <2> QED BY <2>1, <2>2
<1> QED BY <1>0, <1>2, <1>3, BehindAll

LEMMA ChugBlank ==
  ASSUME NEW s \in Script, s # <<>>, s[1] = BLANK, NEW r \in Trimmed, r # <<>>, Len(s) = Len(r) + 1,
         \A i \in 1..Len(r) : s[i + 1] = r[i]
  PROVE  Chug(s) = r
<1>0. r \in Script /\ r[1] # BLANK
  BY DEF Trimmed
<1>1. PICK n \in Nat : n = Len(s)
  BY ScriptIs
<1>2. PICK k \in Nat \ {0} : IsFirst(k, {i \in 1..n : s[i] # BLANK}, n) /\ Chug(s) = Behind(s, k)
  BY <1>1, FirstOther
<1>3. PICK m \in Nat : m = Len(r) /\ m > 0
  BY <1>0, ScriptIs
<1>4. s[2] # BLANK /\ n = m + 1
  <2>1. 1 \in 1..Len(r)
    BY <1>3
  <2> QED BY <1>0, <1>1, <1>3, <2>1
<1>5. IsFirst(2, {i \in 1..n : s[i] # BLANK}, n)
  <2>1. \A j \in 1..n : j < 2 => j = 1
    OBVIOUS
  <2>2. 2 \in 1..n + 1 /\ 2 \in {i \in 1..n : s[i] # BLANK}
    BY <1>3, <1>4
  <2> QED BY <2>1, <2>2 DEF IsFirst
<1>6. k = 2
  <2>1. {i \in 1..n : s[i] # BLANK} \in SUBSET (1..n)
    OBVIOUS
  <2> QED BY <1>2, <1>5, <2>1, FirstIs
<1>7. /\ Behind(s, 2) \in Script /\ Len(Behind(s, 2)) = m
      /\ \A j \in 1..m : Behind(s, 2)[j] = s[2 + j - 1]
  <2>1. Remain(m, n, 2) /\ 2 \in Nat \ {0}
    BY <1>3, <1>4 DEF Remain
  <2> QED BY <1>1, <2>1, BehindIs
<1>8. \A j \in 1..m : Behind(s, 2)[j] = r[j]
  <2>1. \A j \in 1..m : 2 + j - 1 = j + 1
    OBVIOUS
  <2> QED BY <1>3, <1>7, <2>1
<1>9. Behind(s, 2) = r
  BY <1>0, <1>3, <1>7, <1>8, SeqEqual DEF Script
<1> QED BY <1>2, <1>6, <1>9

(* s is x alone, or x, a blank and what is left for later. *)
Leads(s, x, r) ==
  /\ s \in Script /\ x \in Script /\ r \in Trimmed
  /\ \/ r = <<>> /\ s = x
     \/ /\ r # <<>> /\ Len(s) = Len(x) + 1 + Len(r) /\ s[Len(x) + 1] = BLANK
        /\ \A i \in 1..Len(x) : s[i] = x[i]
        /\ \A j \in 1..Len(r) : s[Len(x) + 1 + j] = r[j]

LEMMA LedFacts ==
  ASSUME NEW s, NEW x, NEW r, Leads(s, x, r), NEW n, n = Len(x)
  PROVE  /\ n \in Nat /\ Len(s) \in Nat /\ n <= Len(s) /\ \A i \in 1..n : s[i] = x[i]
         /\ (r = <<>> => s = x /\ Len(s) = n)
         /\ (r # <<>> => Len(s) > n /\ s[n + 1] = BLANK)
<1>1. s \in Script /\ x \in Script /\ r \in Script /\ n \in Nat /\ Len(s) \in Nat /\ Len(r) \in Nat
  BY ScriptIs DEF Leads, Trimmed
<1>2. CASE r = <<>>
  BY <1>1, <1>2 DEF Leads
<1>3. CASE r # <<>>
  BY <1>1, <1>3 DEF Leads
<1> QED BY <1>2, <1>3

LEMMA BehindLed ==
  ASSUME NEW s, NEW x, NEW r, Leads(s, x, r), NEW n \in Nat, n = Len(x)
  PROVE  Chug(Behind(s, n + 1)) = r /\ Chug(Behind(s, n + 2)) = r
<1>0. s \in Script /\ x \in Script /\ r \in Trimmed /\ r \in Script
  BY DEF Leads, Trimmed
<1>1. PICK k \in Nat : k = Len(s)
  BY <1>0, ScriptIs
<1>2. PICK m \in Nat : m = Len(r)
  BY <1>0, ScriptIs
<1>3. CASE r = <<>>
  <2>1. k = n
    BY <1>1, <1>3, LedFacts
  <2>2. Remain(0, k, n + 1) /\ Remain(0, k, n + 2) /\ 0 \in Nat /\ n + 1 \in Nat \ {0} /\ n + 2 \in Nat \ {0}
    BY <2>1 DEF Remain
  <2>3. Behind(s, n + 1) \in Script /\ Len(Behind(s, n + 1)) = 0
    BY <1>0, <1>1, <2>2, BehindIs
  <2>4. Behind(s, n + 2) \in Script /\ Len(Behind(s, n + 2)) = 0
    BY <1>0, <1>1, <2>2, BehindIs
  <2>5. Behind(s, n + 1) = <<>> /\ Behind(s, n + 2) = <<>>
    BY <2>3, <2>4, ScriptIs
  <2>6. Chug(r) = r
    BY <1>0, ChugNothing
  <2> QED BY <1>3, <2>5, <2>6
<1>4. CASE r # <<>>
  <2>1. k = n + 1 + m /\ s[n + 1] = BLANK /\ \A j \in 1..m : s[n + 1 + j] = r[j]
    BY <1>1, <1>2, <1>4 DEF Leads
  <2>2. PICK a \in Nat \ {0} : a = n + 1
    OBVIOUS
  <2>3. PICK b \in Nat \ {0} : b = n + 2
    OBVIOUS
  <2>4. PICK l \in Nat : l = m + 1
    OBVIOUS
  <2>5. Remain(l, k, a) /\ Remain(m, k, b)
    BY <2>1, <2>2, <2>3, <2>4 DEF Remain
  <2>6. PICK y : y = Behind(s, a)
    OBVIOUS
  <2>7. y \in Script /\ Len(y) = l /\ \A j \in 1..l : y[j] = s[a + j - 1]
    BY <1>0, <1>1, <2>5, <2>6, BehindIs
  <2>8. PICK z : z = Behind(s, b)
    OBVIOUS
  <2>9. z \in Script /\ Len(z) = m /\ \A j \in 1..m : z[j] = s[b + j - 1]
    BY <1>0, <1>1, <2>5, <2>8, BehindIs
  <2>10. z = r
    <3>1. \A j \in 1..m : b + j - 1 = n + 1 + j
      BY <2>3
    <3>2. \A j \in 1..m : z[j] = r[j]
      BY <2>1, <2>9, <3>1
    <3> QED BY <1>0, <1>2, <2>9, <3>2, SeqEqual DEF Script
  <2>11. y # <<>> /\ y[1] = BLANK
    <3>1. 1 \in 1..l /\ a + 1 - 1 = n + 1
      BY <2>2, <2>4
    <3> QED BY <2>1, <2>7, <3>1, ScriptIs
  <2>12. ASSUME NEW i \in 1..m PROVE y[i + 1] = r[i]
    <3>1. PICK j \in 1..l : j = i + 1 /\ a + j - 1 = n + 1 + i
      BY <2>2, <2>4
    <3> QED BY <2>1, <2>7, <3>1
  <2>13. Chug(y) = r
    BY <1>0, <1>2, <1>4, <2>4, <2>7, <2>11, <2>12, ChugBlank
  <2>14. Chug(z) = r
    BY <1>0, <2>10, ChugNothing
  <2> QED BY <2>2, <2>3, <2>6, <2>8, <2>13, <2>14
<1> QED BY <1>3, <1>4

LEMMA LedTrimmed ==
  ASSUME NEW s, NEW x, NEW r, Leads(s, x, r), x # <<>>, x[1] # BLANK
  PROVE  s \in Trimmed /\ s # <<>> /\ s[1] = x[1]
<1>0. s \in Script /\ x \in Script
  BY DEF Leads
<1>1. PICK n \in Nat : n = Len(x) /\ n > 0
  BY <1>0, ScriptIs
<1>2. n <= Len(s) /\ Len(s) \in Nat /\ s[1] = x[1]
  BY <1>1, LedFacts
<1>3. s # <<>>
  BY <1>0, <1>1, <1>2, ScriptIs
<1> QED BY <1>0, <1>2, <1>3 DEF Trimmed

(* get_arg takes a word, and what is left for later. *)
IsScriptWord(x) == x \in Script /\ x # <<>> /\ \A i \in 1..Len(x) : x[i] # BLANK

LEMMA WordTaken ==
  ASSUME NEW s, NEW x, NEW r, Leads(s, x, r), IsScriptWord(x)
  PROVE  get_arg(s) = [ok |-> TRUE, arg |-> x, next |-> r]
<1>0. s \in Script /\ x \in Script /\ x # <<>>
  BY DEF Leads, IsScriptWord
<1>1. PICK n \in Nat : n = Len(x) /\ n > 0
  BY <1>0, ScriptIs
<1>2. PICK k \in Nat : k = Len(s) /\ n <= k
  BY <1>0, <1>1, LedFacts
<1>3. \A i \in 1..n : s[i] = x[i] /\ x[i] # BLANK
  BY <1>1, LedFacts DEF IsScriptWord
<1>4. s \in Trimmed /\ s # <<>>
  BY <1>0, <1>1, <1>3, LedTrimmed
<1>5. Chug(s) = s
  BY <1>4, ChugNothing
<1> DEFINE e == FirstAt(s, LAMBDA c : c = BLANK)
           T == {i \in 1..k : s[i] = BLANK}
<1>6. IsFirst(e, T, k)
  BY <1>0, <1>2, FirstBlank
<1>7. get_arg(s) = [ok |-> TRUE, arg |-> SubSeq(s, 1, e - 1), next |-> Chug(Behind(s, e + 1))]
  BY <1>4, <1>5 DEF get_arg, WordOf, Split
<1> HIDE DEF e
<1>8. IsFirst(n + 1, T, k)
  <2>1. \A j \in 1..k : j < n + 1 => j \notin T
    BY <1>3
  <2>2. n + 1 <= k => s[n + 1] = BLANK
    BY <1>1, <1>2, LedFacts
  <2> QED BY <1>2, <2>1, <2>2 DEF IsFirst
<1>9. e = n + 1
  <2>1. T \in SUBSET (1..k)
    OBVIOUS
  <2> HIDE DEF T
  <2> QED BY <1>2, <1>6, <1>8, <2>1, FirstIs
<1>10. SubSeq(s, 1, n) = x
  <2>1. \A j \in 1..n : s[j] \in Signs
    BY <1>0, <1>2, ScriptIs
  <2>2. /\ SubSeq(s, 1, n) \in Seq(Signs) /\ Len(SubSeq(s, 1, n)) = n
        /\ \A j \in 1..n : SubSeq(s, 1, n)[j] = s[j]
    BY <1>1, <2>1, SubSeqProperties
  <2>3. \A j \in 1..n : SubSeq(s, 1, n)[j] = x[j]
    BY <1>3, <2>2
  <2> QED BY <1>0, <1>1, <2>2, <2>3, SeqEqual DEF Script
<1>11. Chug(Behind(s, n + 2)) = r
  BY <1>1, BehindLed
<1>12. e - 1 = n /\ e + 1 = n + 2
  BY <1>9
<1> QED BY <1>7, <1>10, <1>11, <1>12

-----------------------------------------------------------------------------
(* The loop of get_quote_arg. *)
QuoteStates == [arg : Script, esc : BOOLEAN, closed : BOOLEAN, used : Nat]
QuoteStart == [arg |-> <<>>, esc |-> FALSE, closed |-> FALSE, used |-> 0]
Scanned(s) == FoldLeft(QuoteStep, QuoteStart, s)

At(q, u, esc, closed, n) ==
  q \in QuoteStates /\ q.arg = u /\ q.esc = esc /\ q.closed = closed /\ q.used = n

LEMMA AtIs ==
  ASSUME NEW q, NEW u, NEW esc, NEW closed, NEW n, At(q, u, esc, closed, n)
  PROVE  q = [arg |-> u, esc |-> esc, closed |-> closed, used |-> n]
BY DEF At, QuoteStates

LEMMA IsAt ==
  ASSUME NEW u \in Script, NEW esc \in BOOLEAN, NEW closed \in BOOLEAN, NEW n \in Nat
  PROVE  At([arg |-> u, esc |-> esc, closed |-> closed, used |-> n], u, esc, closed, n)
BY DEF At, QuoteStates

LEMMA EmptyScript == <<>> \in Script /\ <<>> \in Trimmed
BY DEF Script, Trimmed

LEMMA AppendedScript ==
  ASSUME NEW s \in Script, NEW c \in Signs
  PROVE  Append(s, c) \in Script /\ Len(Append(s, c)) = Len(s) + 1
BY AppendProperties DEF Script

LEMMA StepClosed ==
  ASSUME NEW q, NEW u, NEW esc, NEW n, At(q, u, esc, TRUE, n), NEW c
  PROVE  QuoteStep(q, c) = q
BY DEF At, QuoteStep

LEMMA StepOpen ==
  ASSUME NEW q, NEW u, NEW n, At(q, u, FALSE, FALSE, n), NEW c \in Signs
  PROVE  /\ (c = SLASH => At(QuoteStep(q, c), Append(u, c), TRUE, FALSE, n + 1))
         /\ (c = QUOTE => At(QuoteStep(q, c), u, FALSE, TRUE, n + 1))
         /\ (c \notin {QUOTE, SLASH} => At(QuoteStep(q, c), Append(u, c), FALSE, FALSE, n + 1))
<1>0. q \in QuoteStates /\ q.arg = u /\ ~q.esc /\ ~q.closed /\ q.used = n
  BY DEF At
<1>1. u \in Script /\ n \in Nat /\ Append(u, c) \in Script /\ n + 1 \in Nat
  BY <1>0, AppendedScript DEF QuoteStates
<1>2. PICK r : r = [q EXCEPT !.used = @ + 1]
  OBVIOUS
<1>3. r \in QuoteStates /\ r.arg = u /\ r.esc = FALSE /\ r.closed = FALSE /\ r.used = n + 1
  BY <1>0, <1>1, <1>2 DEF QuoteStates
<1>4. CASE c = SLASH
  <2>1. QuoteStep(q, c) = [r EXCEPT !.esc = TRUE, !.arg = Append(@, c)]
    <3>1. c # QUOTE
      BY <1>4, SignsApart
    <3> QED BY <1>0, <1>2, <1>4, <3>1, Zenon DEF QuoteStep
  <2>2. At([r EXCEPT !.esc = TRUE, !.arg = Append(@, c)], Append(u, c), TRUE, FALSE, n + 1)
    BY <1>1, <1>3 DEF At, QuoteStates
  <2> QED BY <1>4, <2>1, <2>2, SignsApart
<1>5. CASE c = QUOTE
  <2>1. QuoteStep(q, c) = [r EXCEPT !.closed = TRUE]
    BY <1>0, <1>2, <1>5, SignsApart, Zenon DEF QuoteStep
  <2>2. At([r EXCEPT !.closed = TRUE], u, FALSE, TRUE, n + 1)
    BY <1>1, <1>3 DEF At, QuoteStates
  <2> QED BY <1>5, <2>1, <2>2, SignsApart
<1>6. CASE c \notin {QUOTE, SLASH}
  <2>1. QuoteStep(q, c) = [r EXCEPT !.esc = FALSE, !.arg = Append(@, c)]
    BY <1>0, <1>2, <1>6, Zenon DEF QuoteStep
  <2>2. At([r EXCEPT !.esc = FALSE, !.arg = Append(@, c)], Append(u, c), FALSE, FALSE, n + 1)
    BY <1>1, <1>3 DEF At, QuoteStates
  <2> QED BY <1>6, <2>1, <2>2
<1> QED BY <1>4, <1>5, <1>6

LEMMA QuoteStepEscaped ==
  ASSUME NEW q, NEW u, NEW n, At(q, u, TRUE, FALSE, n), NEW c \in Signs
  PROVE  /\ (c \in {QUOTE, SLASH} => At(QuoteStep(q, c), u, FALSE, FALSE, n + 1))
         /\ (c \notin {QUOTE, SLASH} => At(QuoteStep(q, c), Append(u, c), FALSE, FALSE, n + 1))
<1>0. q \in QuoteStates /\ q.arg = u /\ q.esc /\ ~q.closed /\ q.used = n
  BY DEF At
<1>1. u \in Script /\ n \in Nat /\ Append(u, c) \in Script /\ n + 1 \in Nat
  BY <1>0, AppendedScript DEF QuoteStates
<1>2. PICK r : r = [q EXCEPT !.used = @ + 1]
  OBVIOUS
<1>3. r \in QuoteStates /\ r.arg = u /\ r.esc = TRUE /\ r.closed = FALSE /\ r.used = n + 1
  BY <1>0, <1>1, <1>2 DEF QuoteStates
<1>4. CASE c \in {QUOTE, SLASH}
  <2>1. QuoteStep(q, c) = [r EXCEPT !.esc = ~EscapeEnds(c)]
    BY <1>0, <1>2, <1>4, Zenon DEF QuoteStep
  <2>2. EscapeEnds(c)
    BY <1>4 DEF EscapeEnds
  <2>3. At([r EXCEPT !.esc = ~EscapeEnds(c)], u, FALSE, FALSE, n + 1)
    BY <1>1, <1>3, <2>2 DEF At, QuoteStates
  <2> QED BY <1>4, <2>1, <2>3
<1>6. CASE c \notin {QUOTE, SLASH}
  <2>1. QuoteStep(q, c) = [r EXCEPT !.esc = FALSE, !.arg = Append(@, c)]
    BY <1>0, <1>2, <1>6, Zenon DEF QuoteStep
  <2>2. At([r EXCEPT !.esc = FALSE, !.arg = Append(@, c)], Append(u, c), FALSE, FALSE, n + 1)
    BY <1>1, <1>3 DEF At, QuoteStates
  <2> QED BY <1>6, <2>1, <2>2
<1> QED BY <1>4, <1>6

LEMMA QuoteStepTyped ==
  ASSUME NEW q \in QuoteStates, NEW c \in Signs
  PROVE  QuoteStep(q, c) \in QuoteStates
<1>1. At(q, q.arg, q.esc, q.closed, q.used) /\ q.esc \in BOOLEAN /\ q.closed \in BOOLEAN
  BY DEF At, QuoteStates
<1>2. CASE q.closed
  BY <1>1, <1>2 DEF QuoteStep
<1>3. CASE ~q.closed /\ q.esc
  <2>1. At(q, q.arg, TRUE, FALSE, q.used)
    BY <1>1, <1>3
  <2> QED BY <2>1, QuoteStepEscaped DEF At
<1>4. CASE ~q.closed /\ ~q.esc
  <2>1. At(q, q.arg, FALSE, FALSE, q.used)
    BY <1>1, <1>4
  <2> QED BY <2>1, StepOpen DEF At
<1> QED BY <1>2, <1>3, <1>4

AreScans(f, s, n) ==
  /\ f \in [0..n -> QuoteStates] /\ f[0] = QuoteStart /\ f[n] = Scanned(s)
  /\ \A k \in 1..n : f[k] = QuoteStep(f[k - 1], s[k])

LEMMA ScanFold ==
  ASSUME NEW s \in Script, NEW n, n = Len(s)
  PROVE  \E f : AreScans(f, s, n)
<1>0. n \in Nat /\ DOMAIN s = 1..n /\ \A k \in 1..n : s[k] \in Signs
  BY ScriptIs
<1> DEFINE Y == QuoteStates
           F == [p \in (1..n) \X Y |-> QuoteStep(p[2], s[p[1]])]
           Next(it, t) == IF t = {} THEN QuoteStart ELSE QuoteStep(it[t \ {Max(t)}], s[Max(t)])
           g == CHOOSE h : h = [t \in SUBSET (1..n) |-> Next(h, t)]
<1>1. Steps(F, Y, n)
  <2>1. \A p \in (1..n) \X Y : QuoteStep(p[2], s[p[1]]) \in Y
    BY <1>0, QuoteStepTyped
  <2> HIDE DEF Y
  <2> QED BY <2>1 DEF Steps
<1>2. \A k \in 1..n, x \in Y : F[<<k, x>>] = QuoteStep(x, s[k])
  <2> HIDE DEF Y
  <2> QED OBVIOUS
<1>3. Scanned(s) = g[1..n]
  BY <1>0 DEF Scanned, FoldLeft, MapThenFoldSet
<1>4. QuoteStart \in Y
  BY EmptyScript DEF QuoteStart, QuoteStates
<1> HIDE DEF F, Y
<1>5. PICK it : IsFold(it, Y, n, QuoteStart, F)
  BY <1>0, <1>1, <1>4, FoldExists
<1>6. it = [t \in SUBSET (1..n) |-> Next(it, t)]
  <2>1. ASSUME NEW t \in SUBSET (1..n), t # {}
        PROVE  it[t] = QuoteStep(it[t \ {Max(t)}], s[Max(t)])
    <3>1. Max(t) \in 1..n /\ t \ {Max(t)} \in SUBSET (1..n)
      BY <1>0, <2>1, MaxIn
    <3>2. it[t \ {Max(t)}] \in Y /\ it[t] = F[<<Max(t), it[t \ {Max(t)}]>>]
      BY <1>5, <2>1, <3>1 DEF IsFold
    <3> QED BY <1>2, <3>1, <3>2
  <2>2. \A t \in SUBSET (1..n) : it[t] = Next(it, t)
    BY <1>5, <2>1 DEF IsFold
  <2>3. it = [t \in SUBSET (1..n) |-> it[t]]
    BY <1>5 DEF IsFold
  <2> QED BY <2>2, <2>3
<1>7. g = [t \in SUBSET (1..n) |-> Next(g, t)]
  BY <1>6
<1> HIDE DEF g
<1>8. Recurs(g, Y, n, QuoteStart, F)
  <2>1. ASSUME NEW t \in SUBSET (1..n), t # {}, g[t \ {Max(t)}] \in Y
        PROVE  g[t] = F[<<Max(t), g[t \ {Max(t)}]>>]
    <3>1. Max(t) \in 1..n
      BY <1>0, <2>1, MaxIn
    <3>2. g[t] = QuoteStep(g[t \ {Max(t)}], s[Max(t)])
      BY <1>7, <2>1
    <3> QED BY <1>2, <2>1, <3>1, <3>2
  <2>2. g[{}] = QuoteStart
    BY <1>7
  <2> QED BY <2>1, <2>2 DEF Recurs
<1>9. PICK f : IsLeftFold(f, g, Y, n, QuoteStart, F)
  BY <1>0, <1>1, <1>4, <1>8, FoldValues
<1>10. f \in [0..n -> Y] /\ f[0] = QuoteStart /\ f[n] = Scanned(s)
  BY <1>3, <1>9 DEF IsLeftFold
<1>11. ASSUME NEW k \in 1..n PROVE f[k] = QuoteStep(f[k - 1], s[k])
  <2>1. k - 1 \in 0..n
    BY <1>0
  <2>2. f[k - 1] \in Y /\ f[k] = F[<<k, f[k - 1]>>]
    BY <1>9, <1>10, <2>1 DEF IsLeftFold
  <2> QED BY <1>2, <2>2
<1> QED BY <1>0, <1>10, <1>11 DEF AreScans, Y

LEMMA ScanAt ==
  ASSUME NEW s, NEW n \in Nat, NEW f, AreScans(f, s, n), NEW k \in Nat, k < n
  PROVE  f[k + 1] = QuoteStep(f[k], s[k + 1])
<1>1. PICK j \in 1..n : j = k + 1
  OBVIOUS
<1>2. f[j] = QuoteStep(f[j - 1], s[j])
  BY DEF AreScans
<1>3. j - 1 = k
  BY <1>1
<1> QED BY <1>1, <1>2, <1>3

(* Two texts are scanned alike as far as they agree. *)
LEMMA ScansAgree ==
  ASSUME NEW s \in Script, NEW n \in Nat, n = Len(s), NEW t \in Script, NEW m \in Nat, m = Len(t),
         n <= m, \A i \in 1..n : t[i] = s[i], NEW g, AreScans(g, t, m)
  PROVE  g[n] = Scanned(s)
<1>1. PICK f : AreScans(f, s, n)
  BY ScanFold
<1> DEFINE S == {k \in 0..n : f[k] = g[k]}
<1>2. 0 \in S
  BY <1>1 DEF AreScans
<1>3. ASSUME NEW k \in 0..n, k < n, k \in S PROVE k + 1 \in S
  <2>1. k \in Nat /\ k + 1 \in 1..n /\ k + 1 \in 0..n /\ k < m
    BY <1>3
  <2>2. f[k + 1] = QuoteStep(f[k], s[k + 1])
    BY <1>1, <2>1, ScanAt
  <2>3. g[k + 1] = QuoteStep(g[k], t[k + 1])
    BY <2>1, ScanAt
  <2>4. f[k] = g[k] /\ t[k + 1] = s[k + 1]
    BY <1>3, <2>1 DEF S
  <2> QED BY <2>1, <2>2, <2>3, <2>4 DEF S
<1> HIDE DEF S
<1>4. \A k \in 0..n : k \in S
  BY <1>2, <1>3, BoundedInduction
<1>5. f[n] = g[n]
  BY <1>4 DEF S
<1> QED BY <1>1, <1>5 DEF AreScans

LEMMA ScanAppend ==
  ASSUME NEW s \in Script, NEW c \in Signs
  PROVE  Append(s, c) \in Script /\ Scanned(Append(s, c)) = QuoteStep(Scanned(s), c)
<1> DEFINE t == Append(s, c)
<1>0. PICK n \in Nat : n = Len(s)
  BY ScriptIs
<1>1. t \in Script /\ Len(t) = n + 1 /\ t[n + 1] = c /\ \A k \in 1..n : t[k] = s[k]
  BY <1>0, AppendProperties DEF Script
<1> HIDE DEF t
<1>3. PICK m \in Nat : m = n + 1
  BY <1>0
<1>4. PICK g : AreScans(g, t, m)
  BY <1>1, <1>3, ScanFold
<1>5. g[n] = Scanned(s)
  BY <1>0, <1>1, <1>3, <1>4, ScansAgree
<1>6. g[n + 1] = QuoteStep(g[n], t[n + 1])
  BY <1>3, <1>4, ScanAt, n < m
<1>7. g[m] = Scanned(t)
  BY <1>4 DEF AreScans
<1> QED BY <1>1, <1>3, <1>5, <1>6, <1>7 DEF t

LEMMA ScanNothing == Scanned(<<>>) = QuoteStart
<1>1. <<>> \in Script /\ Len(<<>>) = 0
  BY EmptyScript
<1>2. PICK f : AreScans(f, <<>>, 0)
  BY <1>1, ScanFold
<1> QED BY <1>2 DEF AreScans

LEMMA ScannedTyped == ASSUME NEW s \in Script PROVE Scanned(s) \in QuoteStates
<1>1. PICK n \in Nat : n = Len(s)
  BY ScriptIs
<1>2. PICK f : AreScans(f, s, n)
  BY <1>1, ScanFold
<1>3. n \in 0..n
  BY <1>1
<1> QED BY <1>2, <1>3 DEF AreScans

-----------------------------------------------------------------------------
(* A text between quotation marks. *)
QuoteEscape(c) == IF c \in {QUOTE, SLASH} THEN <<SLASH, c>> ELSE <<c>>
Inner(v) ==
  FoldLeft(LAMBDA acc, c : acc \o (IF c \in {QUOTE, SLASH} THEN <<SLASH, c>> ELSE <<c>>), <<>>, v)
ArrivesAs(c) == IF c = QUOTE THEN SLASH ELSE c

(* What a text arrives as: of a quotation mark that was escaped the        *)
(* backslash alone.                                                        *)
Arrives(v, bare) == [i \in DOMAIN v |-> IF v[i] = QUOTE /\ ~bare THEN SLASH ELSE v[i]]

LEMMA QuoteEscapeTyped == ASSUME NEW c \in Signs PROVE QuoteEscape(c) \in Script
BY SignsApart DEF QuoteEscape, Script

LEMMA GluedScript == ASSUME NEW a \in Script, NEW b \in Script PROVE a \o b \in Script
BY ConcatProperties DEF Script

IsInner(f, v, n) ==
  /\ f \in [0..n -> Script] /\ f[0] = <<>> /\ f[n] = Inner(v)
  /\ \A k \in 1..n : f[k] = f[k - 1] \o QuoteEscape(v[k])

LEMMA InnerFold ==
  ASSUME NEW v \in Script, NEW n, n = Len(v)
  PROVE  \E f : IsInner(f, v, n)
<1>0. n \in Nat /\ DOMAIN v = 1..n /\ \A k \in 1..n : v[k] \in Signs
  BY ScriptIs
<1> DEFINE Y == Script
           More(x, c) == x \o QuoteEscape(c)
           F == [p \in (1..n) \X Y |-> More(p[2], v[p[1]])]
           Next(it, t) == IF t = {} THEN <<>> ELSE More(it[t \ {Max(t)}], v[Max(t)])
           g == CHOOSE h : h = [t \in SUBSET (1..n) |-> Next(h, t)]
<1>01. \A x \in Y, c \in Signs : More(x, c) \in Y
  BY QuoteEscapeTyped, GluedScript
<1>3. Inner(v) = g[1..n]
  BY <1>0 DEF Inner, QuoteEscape, FoldLeft, MapThenFoldSet
<1>4. <<>> \in Y
  BY EmptyScript
<1> HIDE DEF Y, More
<1>1. Steps(F, Y, n)
  BY <1>0, <1>01 DEF Steps
<1>2. \A k \in 1..n, x \in Y : F[<<k, x>>] = More(x, v[k])
  OBVIOUS
<1> HIDE DEF F
<1>5. PICK it : IsFold(it, Y, n, <<>>, F)
  BY <1>0, <1>1, <1>4, FoldExists
<1>6. it = [t \in SUBSET (1..n) |-> Next(it, t)]
  <2>1. ASSUME NEW t \in SUBSET (1..n), t # {}
        PROVE  it[t] = More(it[t \ {Max(t)}], v[Max(t)])
    <3>1. Max(t) \in 1..n /\ t \ {Max(t)} \in SUBSET (1..n)
      BY <1>0, <2>1, MaxIn
    <3>2. it[t \ {Max(t)}] \in Y /\ it[t] = F[<<Max(t), it[t \ {Max(t)}]>>]
      BY <1>5, <2>1, <3>1 DEF IsFold
    <3> QED BY <1>2, <3>1, <3>2
  <2>2. \A t \in SUBSET (1..n) : it[t] = Next(it, t)
    BY <1>5, <2>1 DEF IsFold
  <2>3. it = [t \in SUBSET (1..n) |-> it[t]]
    BY <1>5 DEF IsFold
  <2> QED BY <2>2, <2>3
<1>7. g = [t \in SUBSET (1..n) |-> Next(g, t)]
  BY <1>6
<1> HIDE DEF g
<1>8. Recurs(g, Y, n, <<>>, F)
  <2>1. ASSUME NEW t \in SUBSET (1..n), t # {}, g[t \ {Max(t)}] \in Y
        PROVE  g[t] = F[<<Max(t), g[t \ {Max(t)}]>>]
    <3>1. Max(t) \in 1..n
      BY <1>0, <2>1, MaxIn
    <3>2. g[t] = More(g[t \ {Max(t)}], v[Max(t)])
      BY <1>7, <2>1
    <3> QED BY <1>2, <2>1, <3>1, <3>2
  <2>2. g[{}] = <<>>
    BY <1>7
  <2> QED BY <2>1, <2>2 DEF Recurs
<1>9. PICK f : IsLeftFold(f, g, Y, n, <<>>, F)
  BY <1>0, <1>1, <1>4, <1>8, FoldValues
<1>10. f \in [0..n -> Y] /\ f[0] = <<>> /\ f[n] = Inner(v)
  BY <1>3, <1>9 DEF IsLeftFold
<1>11. ASSUME NEW k \in 1..n PROVE f[k] = More(f[k - 1], v[k])
  <2>1. k - 1 \in 0..n
    BY <1>0
  <2>2. f[k - 1] \in Y /\ f[k] = F[<<k, f[k - 1]>>]
    BY <1>9, <1>10, <2>1 DEF IsLeftFold
  <2> QED BY <1>2, <2>2
<1>12. \A k \in 1..n : f[k] = f[k - 1] \o QuoteEscape(v[k])
  BY <1>11 DEF More
<1> QED BY <1>0, <1>10, <1>12 DEF IsInner, Y

(* s was scanned within the quotation marks, and u is what has arrived. *)
OpenAt(s, u) == s \in Script /\ At(Scanned(s), u, FALSE, FALSE, Len(s))

LEMMA OneAppended ==
  ASSUME NEW s \in Script, NEW c \in Signs
  PROVE  s \o <<c>> = Append(s, c)
BY AppendIsConcat DEF Script

LEMMA TwoAppended ==
  ASSUME NEW s \in Script, NEW c \in Signs, NEW d \in Signs
  PROVE  s \o <<c, d>> = Append(Append(s, c), d)
<1>1. PICK a : a = <<c>>
  OBVIOUS
<1>2. PICK b : b = <<d>>
  OBVIOUS
<1>3. a \in Seq(Signs) /\ b \in Seq(Signs) /\ s \in Seq(Signs)
  BY <1>1, <1>2 DEF Script
<1>4. (s \o a) \o b = s \o (a \o b)
  BY <1>3, ConcatAssociative
<1>5. a \o b = <<c, d>>
  <2>1. Len(a) = 1 /\ Len(b) = 1 /\ a[1] = c /\ b[1] = d
    BY <1>1, <1>2
  <2>2. PICK y : y = a \o b
    OBVIOUS
  <2>3. Joined(y, Signs, a, 1, b, 2)
    <3>1. PICK l \in Nat : l = 1
      OBVIOUS
    <3>2. PICK k \in Nat : k = 2
      OBVIOUS
    <3>3. l = Len(a) /\ l = Len(b) /\ k = l + l
      BY <2>1, <3>1, <3>2
    <3>4. Joined(a \o b, Signs, a, l, b, k)
      BY <1>3, <3>3, ConcatIs
    <3> QED BY <2>2, <3>1, <3>2, <3>4
  <2>4. y \in Seq(Signs) /\ Len(y) = 2 /\ y[1] = c /\ y[2] = d
    BY <2>1, <2>3 DEF Joined
  <2>5. PICK e : e = <<c, d>>
    OBVIOUS
  <2>6. e \in Seq(Signs) /\ Len(e) = 2 /\ e[1] = c /\ e[2] = d
    BY <2>5
  <2>7. \A i \in 1..2 : y[i] = e[i]
    BY <2>4, <2>6
  <2>8. y = e
    BY <2>4, <2>6, <2>7, SeqEqual
  <2> QED BY <2>2, <2>5, <2>8
<1>6. s \o a = Append(s, c)
  BY <1>1, OneAppended
<1>7. Append(s, c) \o b = Append(Append(s, c), d)
  BY <1>2, OneAppended, AppendedScript
<1> QED BY <1>4, <1>5, <1>6, <1>7, Zenon

LEMMA OpenEscape ==
  ASSUME NEW s, NEW u, OpenAt(s, u), NEW c \in Signs
  PROVE  OpenAt(s \o QuoteEscape(c), Append(u, ArrivesAs(c)))
<1>0. s \in Script /\ At(Scanned(s), u, FALSE, FALSE, Len(s)) /\ SLASH \in Signs
  BY SignsApart DEF OpenAt
<1>1. CASE c \notin {QUOTE, SLASH}
  <2>1. s \o QuoteEscape(c) = Append(s, c) /\ ArrivesAs(c) = c
    BY <1>0, <1>1, OneAppended DEF QuoteEscape, ArrivesAs
  <2>2. Append(s, c) \in Script /\ Scanned(Append(s, c)) = QuoteStep(Scanned(s), c)
        /\ Len(Append(s, c)) = Len(s) + 1
    BY <1>0, ScanAppend, AppendedScript
  <2>3. At(QuoteStep(Scanned(s), c), Append(u, c), FALSE, FALSE, Len(s) + 1)
    BY <1>0, <1>1, StepOpen
  <2>4. OpenAt(Append(s, c), Append(u, c))
    BY <2>2, <2>3 DEF OpenAt
  <2> QED BY <2>1, <2>4, Zenon
<1>2. CASE c \in {QUOTE, SLASH}
  <2>1. PICK t : t = Append(s, SLASH)
    OBVIOUS
  <2>2. t \in Script /\ Scanned(t) = QuoteStep(Scanned(s), SLASH) /\ Len(t) = Len(s) + 1
    BY <1>0, <2>1, ScanAppend, AppendedScript
  <2>3. At(Scanned(t), Append(u, SLASH), TRUE, FALSE, Len(t))
    BY <1>0, <2>2, StepOpen
  <2>4. Append(t, c) \in Script /\ Scanned(Append(t, c)) = QuoteStep(Scanned(t), c)
        /\ Len(Append(t, c)) = Len(t) + 1
    BY <2>2, ScanAppend, AppendedScript
  <2>5. At(QuoteStep(Scanned(t), c), Append(u, SLASH), FALSE, FALSE, Len(t) + 1)
    BY <1>2, <2>3, QuoteStepEscaped
  <2>6. OpenAt(Append(t, c), Append(u, SLASH))
    BY <2>4, <2>5 DEF OpenAt
  <2>7. s \o QuoteEscape(c) = Append(t, c)
    BY <1>0, <1>2, <2>1, TwoAppended DEF QuoteEscape
  <2>8. ArrivesAs(c) = SLASH
    BY <1>2 DEF ArrivesAs
  <2> QED BY <2>6, <2>7, <2>8, Zenon
<1> QED BY <1>1, <1>2

LEMMA ArrivesIs ==
  ASSUME NEW v \in Script, NEW n, n = Len(v)
  PROVE  /\ Arrives(v, FALSE) \in Script /\ Len(Arrives(v, FALSE)) = n
         /\ \A i \in 1..n : Arrives(v, FALSE)[i] = ArrivesAs(v[i]) /\ ArrivesAs(v[i]) \in Signs
<1>1. n \in Nat /\ DOMAIN v = 1..n /\ \A i \in 1..n : v[i] \in Signs
  BY ScriptIs
<1>2. \A i \in 1..n : ArrivesAs(v[i]) \in Signs
  BY <1>1, SignsApart DEF ArrivesAs
<1>3. Arrives(v, FALSE) = [i \in 1..n |-> ArrivesAs(v[i])]
  BY <1>1 DEF Arrives, ArrivesAs
<1>4. PICK w : w = [i \in 1..n |-> ArrivesAs(v[i])]
  OBVIOUS
<1>5. w \in [1..n -> Signs] /\ \A i \in 1..n : w[i] = ArrivesAs(v[i])
  BY <1>2, <1>4
<1>6. w \in Seq(Signs) /\ Len(w) = n
  BY <1>1, <1>5
<1> QED BY <1>2, <1>3, <1>4, <1>5, <1>6 DEF Script

LEMMA ArrivesBare == ASSUME NEW v \in Script PROVE Arrives(v, TRUE) = v
<1>1. DOMAIN v = 1..Len(v) /\ Arrives(v, TRUE) = [i \in DOMAIN v |-> v[i]]
  BY ScriptIs DEF Arrives
<1>2. v \in [1..Len(v) -> Signs]
  BY LenProperties DEF Script
<1> QED BY <1>1, <1>2

LEMMA OneMore ==
  ASSUME NEW X, NEW w \in Seq(X), NEW n \in Nat, n = Len(w), NEW j \in 1..n
  PROVE  SubSeq(w, 1, j) = Append(SubSeq(w, 1, j - 1), w[j])
<1>1. PICK k \in Nat : k = j - 1 /\ k + 1 = j
  OBVIOUS
<1>2. \A i \in 1..n : w[i] \in X
  BY LenProperties, ElementOfSeq
<1>3. /\ SubSeq(w, 1, j) \in Seq(X) /\ Len(SubSeq(w, 1, j)) = j
      /\ \A i \in 1..j : SubSeq(w, 1, j)[i] = w[i]
  BY <1>2, SubSeqProperties
<1>4. /\ SubSeq(w, 1, k) \in Seq(X) /\ Len(SubSeq(w, 1, k)) = k
      /\ \A i \in 1..k : SubSeq(w, 1, k)[i] = w[i]
  <2>1. \A i \in 1..k : w[i] \in X
    BY <1>1, <1>2
  <2> QED BY <1>1, <2>1, SubSeqProperties
<1>5. PICK a : a = SubSeq(w, 1, k)
  OBVIOUS
<1>6. /\ Append(a, w[j]) \in Seq(X) /\ Len(Append(a, w[j])) = k + 1 /\ Append(a, w[j])[k + 1] = w[j]
      /\ \A i \in 1..k : Append(a, w[j])[i] = a[i]
  BY <1>2, <1>4, <1>5, AppendProperties
<1>7. ASSUME NEW i \in 1..j PROVE SubSeq(w, 1, j)[i] = Append(a, w[j])[i]
  <2>1. i = j \/ i \in 1..k
    BY <1>1
  <2>2. CASE i = j
    BY <1>1, <1>3, <1>6, <2>2
  <2>3. CASE i \in 1..k
    BY <1>3, <1>4, <1>5, <1>6, <2>3
  <2> QED BY <2>1, <2>2, <2>3
<1>8. SubSeq(w, 1, j) = Append(a, w[j])
  BY <1>1, <1>3, <1>6, <1>7, SeqEqual
<1> QED BY <1>1, <1>5, <1>8

LEMMA InnerScanned == ASSUME NEW v \in Script PROVE OpenAt(Inner(v), Arrives(v, FALSE))
<1>1. PICK n \in Nat : n = Len(v)
  BY ScriptIs
<1>2. PICK f : IsInner(f, v, n)
  BY <1>1, InnerFold
<1>3. PICK w : w = Arrives(v, FALSE)
  OBVIOUS
<1>4. w \in Script /\ Len(w) = n /\ \A i \in 1..n : w[i] = ArrivesAs(v[i]) /\ v[i] \in Signs
  BY <1>1, <1>3, ArrivesIs, ScriptIs
<1> DEFINE S == {k \in 0..n : OpenAt(f[k], SubSeq(w, 1, k))}
<1>5. 0 \in S
  <2>1. SubSeq(w, 1, 0) = <<>> /\ f[0] = <<>> /\ Len(<<>>) = 0
    BY <1>2, SubSeqEmpty DEF IsInner
  <2>2. At(Scanned(<<>>), <<>>, FALSE, FALSE, 0)
    BY ScanNothing, EmptyScript, IsAt DEF QuoteStart
  <2>3. OpenAt(<<>>, <<>>)
    BY <2>1, <2>2, EmptyScript DEF OpenAt
  <2>4. OpenAt(f[0], SubSeq(w, 1, 0))
    BY <2>1, <2>3, Zenon
  <2> QED BY <2>4
<1>6. ASSUME NEW k \in 0..n, k < n, k \in S PROVE k + 1 \in S
  <2>1. PICK j \in 1..n : j = k + 1 /\ j - 1 = k
    BY <1>6
  <2>2. OpenAt(f[k], SubSeq(w, 1, k))
    BY <1>6
  <2>3. f[j] = f[k] \o QuoteEscape(v[j])
    BY <1>2, <2>1 DEF IsInner
  <2>4. OpenAt(f[k] \o QuoteEscape(v[j]), Append(SubSeq(w, 1, k), ArrivesAs(v[j])))
    BY <1>4, <2>2, OpenEscape
  <2>5. SubSeq(w, 1, j) = Append(SubSeq(w, 1, k), w[j])
    <3>1. SubSeq(w, 1, j) = Append(SubSeq(w, 1, j - 1), w[j])
      BY <1>4, OneMore DEF Script
    <3> QED BY <2>1, <3>1
  <2>6. OpenAt(f[j], SubSeq(w, 1, j))
    BY <1>4, <2>3, <2>4, <2>5, Zenon
  <2>7. j \in S
    BY <2>6
  <2> QED BY <2>1, <2>7
<1> HIDE DEF S
<1>7. \A k \in 0..n : k \in S
  BY <1>5, <1>6, BoundedInduction
<1>8. OpenAt(f[n], SubSeq(w, 1, n))
  BY <1>7 DEF S
<1>9. SubSeq(w, 1, n) = w
  BY <1>4, SubSeqFull DEF Script
<1>10. f[n] = Inner(v)
  BY <1>2 DEF IsInner
<1> QED BY <1>3, <1>8, <1>9, <1>10, Zenon

-----------------------------------------------------------------------------
(* What the four readers take from a line that was written for them.       *)

LEMMA QuotedIs ==
  ASSUME NEW v \in Script, NEW n, n = Len(Inner(v))
  PROVE  /\ n \in Nat /\ Quoted(v) \in Script /\ Len(Quoted(v)) = n + 2
         /\ Quoted(v)[1] = QUOTE /\ Quoted(v)[n + 2] = QUOTE
         /\ \A i \in 1..n : Quoted(v)[i + 1] = Inner(v)[i]
<1>0. PICK w \in Script : w = Inner(v)
  BY InnerScanned DEF OpenAt
<1>1. n \in Nat /\ n = Len(w) /\ QUOTE \in Signs
  BY <1>0, ScriptIs, SignsApart
<1>2. PICK a : a = <<QUOTE>>
  OBVIOUS
<1>3. a \in Seq(Signs) /\ Len(a) = 1 /\ a[1] = QUOTE
  BY <1>1, <1>2
<1>4. PICK k \in Nat : k = n + 1
  BY <1>1
<1>5. PICK y : y = a \o w
  OBVIOUS
<1>6. Joined(y, Signs, a, 1, w, k)
  <2>1. PICK l \in Nat : l = 1
    OBVIOUS
  <2>2. l = Len(a) /\ n = Len(w) /\ k = l + n /\ w \in Seq(Signs)
    BY <1>0, <1>1, <1>3, <1>4, <2>1 DEF Script
  <2>3. Joined(a \o w, Signs, a, l, w, k)
    BY <1>1, <1>3, <2>2, ConcatIs
  <2> QED BY <1>5, <2>1, <2>3
<1>7. y \in Script /\ Len(y) = k /\ y[1] = QUOTE
  BY <1>1, <1>3, <1>4, <1>6 DEF Joined, Script
<1>8. ASSUME NEW i \in 1..n PROVE y[i + 1] = w[i]
  <2>1. PICK j \in 1..k : j = i + 1 /\ ~(j <= 1) /\ j - 1 = i
    BY <1>1, <1>4
  <2> QED BY <1>6, <2>1 DEF Joined
<1>9. Quoted(v) = Append(y, QUOTE)
  <2>1. Quoted(v) = a \o w \o <<QUOTE>>
    BY <1>0, <1>2, Zenon DEF Quoted, Inner
  <2> QED BY <1>1, <1>5, <1>7, <2>1, OneAppended
<1>10. /\ Append(y, QUOTE) \in Script /\ Len(Append(y, QUOTE)) = k + 1
       /\ Append(y, QUOTE)[k + 1] = QUOTE /\ \A i \in 1..k : Append(y, QUOTE)[i] = y[i]
  BY <1>1, <1>7, AppendProperties DEF Script
<1>11. k + 1 = n + 2 /\ 1 \in 1..k /\ \A i \in 1..n : i + 1 \in 1..k
  BY <1>1, <1>4
<1> QED BY <1>0, <1>1, <1>7, <1>8, <1>9, <1>10, <1>11

Continues(t, n, e) == \A i \in 1..n : t[i] = e[i]

LEMMA ScannedClosed ==
  ASSUME NEW e, NEW u, OpenAt(e, u), NEW n \in Nat, n = Len(e), NEW t \in Script, NEW m \in Nat,
         m = Len(t), n < m, Continues(t, n, e), t[n + 1] = QUOTE
  PROVE  Scanned(t) = [arg |-> u, esc |-> FALSE, closed |-> TRUE, used |-> n + 1]
<1>1. e \in Script /\ At(Scanned(e), u, FALSE, FALSE, n)
  BY DEF OpenAt
<1>2. PICK g : AreScans(g, t, m)
  BY ScanFold
<1>3. g[n] = Scanned(e)
  BY <1>1, <1>2, ScansAgree DEF Continues
<1>4. g[n + 1] = QuoteStep(g[n], QUOTE)
  BY <1>2, ScanAt
<1>5. At(g[n + 1], u, FALSE, TRUE, n + 1)
  BY <1>1, <1>3, <1>4, StepOpen, SignsApart
<1> DEFINE S == {k \in 0..m : k > n => g[k] = g[n + 1]}
<1>6. 0 \in S
  OBVIOUS
<1>7. ASSUME NEW k \in 0..m, k < m, k \in S PROVE k + 1 \in S
  <2>1. k \in Nat /\ k + 1 \in 0..m
    BY <1>7
  <2>2. CASE k <= n
    BY <2>1, <2>2
  <2>3. CASE k > n
    <3>1. g[k] = g[n + 1]
      BY <1>7, <2>3
    <3>2. g[k + 1] = QuoteStep(g[k], t[k + 1])
      BY <1>2, <1>7, <2>1, ScanAt
    <3>3. QuoteStep(g[k], t[k + 1]) = g[k]
      BY <1>5, <3>1, StepClosed
    <3> QED BY <2>1, <3>1, <3>2, <3>3
  <2> QED BY <2>1, <2>2, <2>3
<1> HIDE DEF S
<1>8. \A k \in 0..m : k \in S
  BY <1>6, <1>7, BoundedInduction
<1>9. g[m] = g[n + 1]
  BY <1>8 DEF S
<1>10. g[m] = Scanned(t)
  BY <1>2 DEF AreScans
<1>11. g[n + 1] = [arg |-> u, esc |-> FALSE, closed |-> TRUE, used |-> n + 1]
  BY <1>5 DEF At, QuoteStates
<1> QED BY <1>9, <1>10, <1>11

LEMMA TailIs ==
  ASSUME NEW s \in Script, NEW n \in Nat, n = Len(s), n > 0
  PROVE  /\ Tail(s) \in Script /\ Len(Tail(s)) = n - 1 /\ \A i \in 1..n - 1 : Tail(s)[i] = s[i + 1]
         /\ \A i \in Nat \ {0} : Behind(Tail(s), i) = Behind(s, i + 1)
<1>0. s # <<>>
  BY ScriptIs
<1>1. PICK t : t = Tail(s)
  OBVIOUS
<1>2. t \in Script /\ Len(t) = n - 1 /\ \A i \in 1..n - 1 : t[i] = s[i + 1]
  BY <1>0, <1>1, HeadTailProperties DEF Script
<1>3. ASSUME NEW i \in Nat \ {0} PROVE Behind(t, i) = Behind(s, i + 1)
  <2>1. PICK m \in Nat : Remain(m, n - 1, i)
    <3>1. CASE i <= n - 1
      <4>1. n - 1 - i + 1 \in Nat
        BY <3>1
      <4> QED BY <4>1 DEF Remain
    <3>2. CASE i > n - 1
      BY <3>2 DEF Remain
    <3> QED BY <3>1, <3>2
  <2>2. PICK j \in Nat \ {0} : j = i + 1
    OBVIOUS
  <2>3. Remain(m, n, j)
    BY <2>1, <2>2 DEF Remain
  <2>4. PICK l \in Nat : l = n - 1
    OBVIOUS
  <2>5. Behind(t, i) \in Script /\ Len(Behind(t, i)) = m /\ \A k \in 1..m : Behind(t, i)[k] = t[i + k - 1]
    BY <1>2, <2>1, <2>4, BehindIs
  <2>6. Behind(s, j) \in Script /\ Len(Behind(s, j)) = m /\ \A k \in 1..m : Behind(s, j)[k] = s[j + k - 1]
    BY <2>3, BehindIs
  <2>7. ASSUME NEW k \in 1..m PROVE Behind(t, i)[k] = Behind(s, j)[k]
    <3>1. PICK x \in 1..n - 1 : x = i + k - 1 /\ x + 1 = j + k - 1
      BY <2>1, <2>2 DEF Remain
    <3> QED BY <1>2, <2>5, <2>6, <3>1
  <2>8. Behind(t, i) = Behind(s, j)
    BY <2>5, <2>6, <2>7, SeqEqual DEF Script
  <2> QED BY <2>2, <2>8
<1> QED BY <1>1, <1>2, <1>3

ArgTaken(v, r) == [ok |-> TRUE, arg |-> v, next |-> r]

ClosesAt(t, n, e) ==
  n \in Nat /\ n = Len(e) /\ t \in Script /\ n < Len(t) /\ Continues(t, n, e) /\ t[n + 1] = QUOTE
ClosedWith(t, u, n) == Scanned(t) = [arg |-> u, esc |-> FALSE, closed |-> TRUE, used |-> n + 1]

LEMMA ScannedCloses ==
  ASSUME NEW e, NEW u, OpenAt(e, u), NEW t, NEW n, ClosesAt(t, n, e)
  PROVE  ClosedWith(t, u, n)
<1>1. n \in Nat /\ n = Len(e) /\ t \in Script /\ n < Len(t) /\ Continues(t, n, e) /\ t[n + 1] = QUOTE
  BY Zenon DEF ClosesAt
<1>2. PICK m \in Nat : m = Len(t) /\ n < m
  BY <1>1, ScriptIs
<1>3. Scanned(t) = [arg |-> u, esc |-> FALSE, closed |-> TRUE, used |-> n + 1]
  BY <1>1, <1>2, ScannedClosed, SMTT(30)
<1> QED BY <1>3, Zenon DEF ClosedWith

LEMMA UnquoteTaken ==
  ASSUME NEW v \in Script, NEW s, NEW r, Leads(s, Quoted(v), r)
  PROVE  s[1] = QUOTE /\ s \in Trimmed /\ s # <<>> /\ Unquote(Tail(s)) = ArgTaken(Arrives(v, FALSE), r)
<1>1. PICK n : n = Len(Inner(v))
  OBVIOUS
<1>2. PICK e : e = Inner(v)
  OBVIOUS
<1>3. /\ n \in Nat /\ Quoted(v) \in Script /\ Len(Quoted(v)) = n + 2 /\ e \in Script
      /\ Quoted(v)[1] = QUOTE /\ Quoted(v)[n + 2] = QUOTE /\ \A i \in 1..n : Quoted(v)[i + 1] = e[i]
  BY <1>1, <1>2, QuotedIs, InnerScanned DEF OpenAt
<1>4. PICK x : x = Quoted(v)
  OBVIOUS
<1>5. x # <<>> /\ x[1] = QUOTE /\ QUOTE # BLANK /\ Leads(s, x, r)
  BY <1>3, <1>4, ScriptIs, SignsApart
<1>6. s \in Trimmed /\ s # <<>> /\ s[1] = QUOTE /\ s \in Script
  BY <1>5, LedTrimmed DEF Trimmed
<1>7. PICK h \in Nat : h = n + 2 /\ h = Len(x)
  BY <1>3, <1>4
<1>8. PICK k \in Nat : k = Len(s) /\ h <= k /\ \A i \in 1..h : s[i] = x[i]
  BY <1>5, <1>7, LedFacts
<1>9. PICK t : t = Tail(s)
  OBVIOUS
<1>10. PICK m \in Nat : m = k - 1 /\ n < m
  BY <1>3, <1>7, <1>8
<1>11. /\ t \in Script /\ Len(t) = m /\ \A i \in 1..m : t[i] = s[i + 1]
       /\ \A i \in Nat \ {0} : Behind(t, i) = Behind(s, i + 1)
  BY <1>3, <1>6, <1>7, <1>8, <1>9, <1>10, TailIs
<1>12. ASSUME NEW i \in 1..n PROVE t[i] = e[i]
  <2>1. i \in 1..m /\ i + 1 \in 1..h
    BY <1>3, <1>7, <1>10
  <2> QED BY <1>3, <1>4, <1>8, <1>11, <2>1
<1>13. t[n + 1] = QUOTE
  <2>1. n + 1 \in 1..m /\ n + 1 + 1 = n + 2 /\ n + 2 \in 1..h
    BY <1>3, <1>7, <1>10
  <2> QED BY <1>3, <1>4, <1>8, <1>11, <2>1
<1>14. PICK u : u = Arrives(v, FALSE) /\ OpenAt(e, u)
  BY <1>2, InnerScanned
<1>15. Scanned(t) = [arg |-> u, esc |-> FALSE, closed |-> TRUE, used |-> n + 1]
  <2>1. n = Len(e)
    BY <1>1, <1>2
  <2>2. Continues(t, n, e)
    BY <1>12 DEF Continues
  <2>3. n \in Nat /\ t \in Script /\ n < Len(t)
    BY <1>3, <1>10, <1>11
  <2>4. ClosesAt(t, n, e)
    BY <1>13, <2>1, <2>2, <2>3, Zenon DEF ClosesAt
  <2>5. ClosedWith(t, u, n)
    BY <1>14, <2>4, ScannedCloses
  <2> QED BY <2>5, Zenon DEF ClosedWith
<1>16. Chug(Behind(t, n + 2)) = r
  <2>1. Chug(Behind(s, h + 1)) = r
    BY <1>5, <1>7, BehindLed
  <2>2. n + 2 \in Nat \ {0} /\ n + 2 + 1 = h + 1
    BY <1>3, <1>7
  <2> QED BY <1>11, <2>1, <2>2
<1>17. Unquote(t) = Unquoted(t, Scanned(t))
  BY Zenon DEF Unquote, Scanned, QuoteStart
<1>18. Unquote(t) = [ok |-> TRUE, arg |-> u, next |-> Chug(Behind(t, n + 1 + 1))]
  BY <1>15, <1>17 DEF Unquoted
<1>19. n + 1 + 1 = n + 2
  BY <1>3
<1> QED BY <1>6, <1>9, <1>14, <1>16, <1>18, <1>19 DEF ArgTaken

LEMMA QuoteTaken ==
  ASSUME NEW v \in Script, NEW s, NEW r, Leads(s, Quoted(v), r)
  PROVE  get_quote_arg(s) = ArgTaken(Arrives(v, FALSE), r)
<1>1. s[1] = QUOTE /\ s \in Trimmed /\ Unquote(Tail(s)) = ArgTaken(Arrives(v, FALSE), r)
  BY UnquoteTaken
<1>2. Chug(s) = s
  BY <1>1, ChugNothing
<1> QED BY <1>1, <1>2, Zenon DEF get_quote_arg, QuotedOrWord

LEMMA BareTaken ==
  ASSUME NEW v, IsScriptWord(v), v[1] # QUOTE, NEW s, NEW r, Leads(s, v, r)
  PROVE  get_quote_arg(s) = ArgTaken(v, r)
<1>1. get_arg(s) = ArgTaken(v, r)
  BY WordTaken DEF ArgTaken
<1>2. v # <<>> /\ v[1] # BLANK
  <2>1. 1 \in 1..Len(v)
    BY ScriptIs DEF IsScriptWord
  <2> QED BY <2>1 DEF IsScriptWord
<1>3. s \in Trimmed /\ s[1] # QUOTE
  BY <1>2, LedTrimmed
<1>4. Chug(s) = s
  BY <1>3, ChugNothing
<1> QED BY <1>1, <1>3, <1>4, Zenon DEF get_quote_arg, get_arg, QuotedOrWord

(* Nothing is taken off the end of a text that does not end with a blank. *)
LEMMA ChompNothing ==
  ASSUME NEW s \in Script, s # <<>> => s[Len(s)] # BLANK
  PROVE  Chomp(s) = s
<1>1. PICK n \in Nat : n = Len(s) /\ \A i \in 1..n : s[i] \in Signs
  BY ScriptIs
<1>2. PICK t : t = Reverse(s)
  OBVIOUS
<1>3. t \in Script /\ Len(t) = n /\ \A i \in 1..n : t[i] = s[n - i + 1]
  <2>1. t = [i \in 1..n |-> s[n - i + 1]]
    BY <1>1, <1>2 DEF Reverse
  <2>2. \A i \in 1..n : n - i + 1 \in 1..n
    OBVIOUS
  <2>3. t \in [1..n -> Signs] /\ \A i \in 1..n : t[i] = s[n - i + 1]
    BY <1>1, <2>1, <2>2
  <2>4. t \in Seq(Signs) /\ Len(t) = n
    BY <2>3
  <2> QED BY <2>3, <2>4 DEF Script
<1>4. t \in Trimmed
  <2>1. CASE n = 0
    BY <1>3, <2>1, ScriptIs DEF Trimmed
  <2>2. CASE n > 0
    <3>1. t[1] = s[n] /\ s # <<>>
      <4>1. 1 \in 1..n /\ n - 1 + 1 = n
        BY <2>2
      <4> QED BY <1>1, <1>3, <2>2, <4>1, ScriptIs
    <3> QED BY <1>1, <1>3, <3>1 DEF Trimmed
  <2> QED BY <2>1, <2>2
<1>5. Chug(t) = t
  BY <1>4, ChugNothing
<1>6. Reverse(t) = s
  <2>1. Reverse(t) = [i \in 1..n |-> t[n - i + 1]]
    BY <1>3 DEF Reverse
  <2>2. ASSUME NEW i \in 1..n PROVE t[n - i + 1] = s[i]
    <3>1. n - i + 1 \in 1..n /\ n - (n - i + 1) + 1 = i
      OBVIOUS
    <3> QED BY <1>3, <3>1
  <2>3. s = [i \in 1..n |-> s[i]]
    BY <1>1, LenProperties DEF Script
  <2> QED BY <2>1, <2>2, <2>3
<1> QED BY <1>2, <1>5, <1>6 DEF Chomp

Solid(x) == x \in Script /\ x # <<>> /\ x[1] # BLANK /\ x[Len(x)] # BLANK

LEMMA SolidAlone == ASSUME NEW x, Solid(x) PROVE Leads(x, x, <<>>) /\ x \in Trimmed
BY EmptyScript DEF Solid, Leads, Trimmed

LEMMA LastTaken ==
  ASSUME NEW x, Solid(x)
  PROVE  /\ (x[1] # QUOTE => get_last_quote_arg(x) = ArgTaken(x, <<>>))
         /\ \A v \in Script : x = Quoted(v) => get_last_quote_arg(x) = ArgTaken(Arrives(v, FALSE), <<>>)
<1>1. x \in Script /\ Leads(x, x, <<>>) /\ Chug(x) = x /\ Chomp(x) = x
  BY SolidAlone, ChugNothing, ChompNothing DEF Solid
<1>2. get_last_quote_arg(x) = QuotedOrAll(x)
  BY <1>1, Zenon DEF get_last_quote_arg
<1>3. x[1] # QUOTE => get_last_quote_arg(x) = ArgTaken(x, <<>>)
  BY <1>2, Zenon DEF QuotedOrAll, ArgTaken
<1>4. ASSUME NEW v \in Script, x = Quoted(v)
      PROVE  get_last_quote_arg(x) = ArgTaken(Arrives(v, FALSE), <<>>)
  <2>1. x[1] = QUOTE /\ Unquote(Tail(x)) = ArgTaken(Arrives(v, FALSE), <<>>)
    BY <1>1, <1>4, UnquoteTaken
  <2> QED BY <1>2, <2>1, Zenon DEF QuotedOrAll
<1> QED BY <1>3, <1>4

(* How a value arrives that was written in a line. *)
ReadAs(v, bare, isLast) == Arrives(v, bare /\ MayStandBare(v, isLast))

WellWritten(v, bare, isLast) ==
  /\ Solid(Written(v, bare, isLast)) /\ Written(v, bare, isLast)[1] # "-"
  /\ Written(v, bare, isLast)[1] = QUOTE \/ (v # <<>> /\ Written(v, bare, isLast)[1] = v[1])

LEMMA QuotedSolid ==
  ASSUME NEW v \in Script
  PROVE  Solid(Quoted(v)) /\ Quoted(v)[1] = QUOTE
<1>1. PICK n : n = Len(Inner(v))
  OBVIOUS
<1>2. /\ n \in Nat /\ Quoted(v) \in Script /\ Len(Quoted(v)) = n + 2
      /\ Quoted(v)[1] = QUOTE /\ Quoted(v)[n + 2] = QUOTE
  BY <1>1, QuotedIs
<1>3. Quoted(v) # <<>>
  BY <1>2, ScriptIs
<1> QED BY <1>2, <1>3, SignsApart DEF Solid

LEMMA WrittenWell ==
  ASSUME NEW v \in Script, NEW bare \in BOOLEAN, NEW isLast \in BOOLEAN
  PROVE  WellWritten(v, bare, isLast)
<1>1. CASE bare /\ MayStandBare(v, isLast)
  <2>1. Written(v, bare, isLast) = v
    BY <1>1 DEF Written
  <2>2. Solid(v) /\ v[1] # "-" /\ v # <<>>
    BY <1>1 DEF MayStandBare, Solid
  <2> QED BY <2>1, <2>2 DEF WellWritten
<1>2. CASE ~(bare /\ MayStandBare(v, isLast))
  <2>1. Written(v, bare, isLast) = Quoted(v)
    BY <1>2 DEF Written
  <2>2. Solid(Quoted(v)) /\ Quoted(v)[1] = QUOTE /\ QUOTE # "-"
    BY QuotedSolid, SignsApart
  <2> QED BY <2>1, <2>2 DEF WellWritten
<1> QED BY <1>1, <1>2

ReadsTo(s, v, bare, r) == get_quote_arg(s) = ArgTaken(ReadAs(v, bare, FALSE), r)

LEMMA WrittenTaken ==
  ASSUME NEW v \in Script, NEW bare \in BOOLEAN, NEW s, NEW r, Leads(s, Written(v, bare, FALSE), r)
  PROVE  ReadsTo(s, v, bare, r)
<1>1. CASE bare /\ MayStandBare(v, FALSE)
  <2>1. Written(v, bare, FALSE) = v
    BY <1>1 DEF Written
  <2>2. ReadAs(v, bare, FALSE) = v
    <3>1. ReadAs(v, bare, FALSE) = Arrives(v, TRUE)
      BY <1>1 DEF ReadAs, Arrives
    <3> QED BY <3>1, ArrivesBare
  <2>3. v # <<>> /\ v[1] # QUOTE /\ BLANK \notin ToSet(v)
    BY <1>1 DEF MayStandBare
  <2>4. IsScriptWord(v)
    BY <2>3, ScriptIs DEF IsScriptWord, ToSet
  <2>5. Leads(s, v, r)
    BY <2>1
  <2>6. get_quote_arg(s) = ArgTaken(v, r)
    BY <2>3, <2>4, <2>5, BareTaken
  <2> QED BY <2>2, <2>6, Zenon DEF ReadsTo
<1>2. CASE ~(bare /\ MayStandBare(v, FALSE))
  <2>1. Written(v, bare, FALSE) = Quoted(v)
    BY <1>2 DEF Written
  <2>2. ReadAs(v, bare, FALSE) = Arrives(v, FALSE)
    BY <1>2 DEF ReadAs, Arrives
  <2>3. Leads(s, Quoted(v), r)
    BY <2>1
  <2>4. get_quote_arg(s) = ArgTaken(Arrives(v, FALSE), r)
    BY <2>3, QuoteTaken
  <2> QED BY <2>2, <2>4, Zenon DEF ReadsTo
<1> QED BY <1>1, <1>2

LEMMA WrittenLast ==
  ASSUME NEW v \in Script, NEW bare \in BOOLEAN
  PROVE  get_last_quote_arg(Written(v, bare, TRUE)) = ArgTaken(ReadAs(v, bare, TRUE), <<>>)
<1>1. CASE bare /\ MayStandBare(v, TRUE)
  <2>1. Written(v, bare, TRUE) = v
    BY <1>1 DEF Written
  <2>2. ReadAs(v, bare, TRUE) = v
    <3>1. ReadAs(v, bare, TRUE) = Arrives(v, TRUE)
      BY <1>1 DEF ReadAs, Arrives
    <3> QED BY <3>1, ArrivesBare
  <2>3. Solid(v) /\ v[1] # QUOTE
    BY <1>1 DEF MayStandBare, Solid
  <2>4. get_last_quote_arg(v) = ArgTaken(v, <<>>)
    BY <2>3, LastTaken
  <2> QED BY <2>1, <2>2, <2>4
<1>2. CASE ~(bare /\ MayStandBare(v, TRUE))
  <2>1. Written(v, bare, TRUE) = Quoted(v)
    BY <1>2 DEF Written
  <2>2. ReadAs(v, bare, TRUE) = Arrives(v, FALSE)
    BY <1>2 DEF ReadAs, Arrives
  <2>3. get_last_quote_arg(Quoted(v)) = ArgTaken(Arrives(v, FALSE), <<>>)
    BY QuotedSolid, LastTaken
  <2> QED BY <2>1, <2>2, <2>3
<1> QED BY <1>1, <1>2

-----------------------------------------------------------------------------
(* The parts of a line, one after the other.                               *)

(* y goes on with a blank and r, or is nothing. *)
Leaves(y, r) == r \in Trimmed /\ ((y = <<>> /\ r = <<>>) \/ (r # <<>> /\ y = <<BLANK>> \o r))

LEMMA OneBlank == <<BLANK>> \in Script /\ Len(<<BLANK>>) = 1 /\ <<BLANK>>[1] = BLANK
BY SignsApart DEF Script

LEMMA LeavesTyped == ASSUME NEW y, NEW r, Leaves(y, r) PROVE y \in Script /\ r \in Script
BY OneBlank, EmptyScript, GluedScript DEF Leaves, Trimmed

LEMMA JointScript ==
  ASSUME NEW a \in Script, NEW b \in Script, NEW l \in Nat, NEW k \in Nat, NEW n \in Nat,
         l = Len(a), k = Len(b), n = l + k
  PROVE  Joined(a \o b, Signs, a, l, b, n)
BY ConcatIs DEF Script

LEMMA JoinedLeads ==
  ASSUME NEW x \in Script, NEW y, NEW r, Leaves(y, r)
  PROVE  Leads(x \o y, x, r)
<1>0. r \in Trimmed /\ r \in Script /\ y \in Script
  BY LeavesTyped DEF Leaves
<1>1. CASE r = <<>>
  <2>1. y = <<>>
    BY <1>1 DEF Leaves
  <2>2. x \o y = x
    BY <2>1, ConcatEmptySeq DEF Script
  <2> QED BY <1>0, <1>1, <2>2 DEF Leads
<1>2. CASE r # <<>>
  <2>1. PICK b : b = <<BLANK>>
    OBVIOUS
  <2>2. y = b \o r
    BY <1>2, <2>1 DEF Leaves
  <2>3. b \in Script /\ Len(b) = 1 /\ b[1] = BLANK
    BY <2>1, OneBlank
  <2>4. PICK l \in Nat : l = 1
    OBVIOUS
  <2>5. PICK m \in Nat : m = Len(r)
    BY <1>0, ScriptIs
  <2>6. PICK n \in Nat : n = Len(x)
    BY ScriptIs
  <2>7. PICK k \in Nat : k = l + m
    BY <2>4
  <2>8. PICK h \in Nat : h = n + k
    BY <2>7
  <2>9. PICK z : z = b \o r
    OBVIOUS
  <2>10. Joined(z, Signs, b, l, r, k)
    <3>1. Joined(b \o r, Signs, b, l, r, k)
      BY <1>0, <2>3, <2>4, <2>5, <2>7, JointScript
    <3> QED BY <2>9, <3>1
  <2>11. z \in Script /\ Len(z) = k
    BY <2>10 DEF Joined, Script
  <2>12. PICK s : s = x \o z
    OBVIOUS
  <2>13. Joined(s, Signs, x, n, z, h)
    <3>1. Joined(x \o z, Signs, x, n, z, h)
      BY <2>6, <2>7, <2>8, <2>11, JointScript
    <3> QED BY <2>12, <3>1
  <2>14. s \in Script /\ Len(s) = n + 1 + m
    BY <2>4, <2>7, <2>8, <2>13 DEF Joined, Script
  <2>15. z[1] = BLANK
    <3>1. 1 \in 1..k /\ 1 <= l
      BY <2>4, <2>7
    <3> QED BY <2>3, <2>10, <3>1 DEF Joined
  <2>16. s[n + 1] = BLANK
    <3>1. PICK j \in 1..h : j = n + 1 /\ ~(j <= n) /\ j - n = 1
      BY <2>4, <2>7, <2>8
    <3> QED BY <2>13, <2>15, <3>1 DEF Joined
  <2>17. ASSUME NEW i \in 1..n PROVE s[i] = x[i]
    <3>1. i \in 1..h /\ i <= n
      BY <2>7, <2>8
    <3> QED BY <2>13, <3>1 DEF Joined
  <2>18. ASSUME NEW j \in 1..m PROVE s[n + 1 + j] = r[j]
    <3>1. PICK i \in 1..h : i = n + 1 + j /\ ~(i <= n) /\ i - n = j + 1
      BY <2>4, <2>7, <2>8
    <3>2. PICK a \in 1..k : a = j + 1 /\ ~(a <= l) /\ a - l = j
      BY <2>4, <2>7
    <3>3. z[a] = r[j]
      BY <2>10, <3>2 DEF Joined
    <3>4. s[i] = z[a]
      BY <2>13, <3>1, <3>2 DEF Joined
    <3> QED BY <3>1, <3>3, <3>4
  <2>19. Leads(s, x, r)
    BY <1>0, <1>2, <2>5, <2>6, <2>14, <2>16, <2>17, <2>18 DEF Leads
  <2> QED BY <2>2, <2>9, <2>12, <2>19
<1> QED BY <1>1, <1>2

LEMMA GluedAgain ==
  ASSUME NEW a \in Script, NEW b \in Script, NEW c \in Script
  PROVE  (a \o b) \o c = a \o (b \o c)
BY ConcatAssociative DEF Script

Regroups(a, b, c) == (a \o b) \o c = a \o (b \o c)

LEMMA GluedTwice ==
  ASSUME NEW a \in Script, NEW b \in Script, NEW c \in Script
  PROVE  Regroups(a, b, c)
BY GluedAgain DEF Regroups

LEMMA GluedOnce ==
  ASSUME NEW a \in Script, NEW b \in Script, NEW c \in Script, a \o b = a \o c
  PROVE  b = c
BY ConcatSimplifications DEF Script

LEMMA PartBefore ==
  ASSUME NEW x, Solid(x), NEW y, NEW r, Leaves(y, r)
  PROVE  Leaves(<<BLANK>> \o (x \o y), x \o y)
<1>1. x \in Script /\ x # <<>> /\ x[1] # BLANK
  BY DEF Solid
<1>2. PICK s : s = x \o y
  OBVIOUS
<1>3. Leads(s, x, r)
  BY <1>1, <1>2, JoinedLeads
<1>4. s \in Trimmed /\ s # <<>>
  BY <1>1, <1>3, LedTrimmed
<1>5. Leaves(<<BLANK>> \o s, s)
  BY <1>4 DEF Leaves
<1> QED BY <1>2, <1>5

Apart(x) == <<BLANK>> \o x

IsSpaced(f, W, n) ==
  /\ f \in [0..n -> Script] /\ f[0] = <<>> /\ f[n] = Spaced(W)
  /\ \A k \in 1..n : f[k] = f[k - 1] \o Apart(W[k])

AreParts(W, n) == DOMAIN W = 1..n /\ Len(W) = n /\ \A k \in 1..n : Solid(W[k])

LEMMA ApartTyped == ASSUME NEW x \in Script PROVE Apart(x) \in Script
BY OneBlank, GluedScript DEF Apart

LEMMA SpacedFold ==
  ASSUME NEW n \in Nat, NEW W, AreParts(W, n)
  PROVE  \E f : IsSpaced(f, W, n)
<1>0. Len(W) = n /\ DOMAIN W = 1..n /\ \A k \in 1..n : W[k] \in Script
  BY DEF AreParts, Solid
<1> DEFINE Y == Script
           More(x, c) == x \o <<BLANK>> \o c
           F == [p \in (1..n) \X Y |-> More(p[2], W[p[1]])]
           Next(it, t) == IF t = {} THEN <<>> ELSE More(it[t \ {Max(t)}], W[Max(t)])
           g == CHOOSE h : h = [t \in SUBSET (1..n) |-> Next(h, t)]
<1>01. \A x \in Y, c \in Y : More(x, c) \in Y
  BY OneBlank, GluedScript
<1>02. \A x \in Y, c \in Y : More(x, c) = x \o Apart(c)
  BY OneBlank, GluedAgain DEF Apart
<1>3. Spaced(W) = g[1..n]
  BY <1>0 DEF Spaced, FoldLeft, MapThenFoldSet
<1>4. <<>> \in Y
  BY EmptyScript
<1>03. \A k \in 1..n : W[k] \in Y
  BY <1>0
<1> HIDE DEF More, Y
<1>1. Steps(F, Y, n)
  BY <1>03, <1>01 DEF Steps
<1>2. \A k \in 1..n, x \in Y : F[<<k, x>>] = More(x, W[k])
  OBVIOUS
<1> HIDE DEF F
<1>5. PICK it : IsFold(it, Y, n, <<>>, F)
  BY <1>0, <1>1, <1>4, FoldExists
<1>6. it = [t \in SUBSET (1..n) |-> Next(it, t)]
  <2>1. ASSUME NEW t \in SUBSET (1..n), t # {}
        PROVE  it[t] = More(it[t \ {Max(t)}], W[Max(t)])
    <3>1. Max(t) \in 1..n /\ t \ {Max(t)} \in SUBSET (1..n)
      BY <1>0, <2>1, MaxIn
    <3>2. it[t \ {Max(t)}] \in Y /\ it[t] = F[<<Max(t), it[t \ {Max(t)}]>>]
      BY <1>5, <2>1, <3>1 DEF IsFold
    <3> QED BY <1>2, <3>1, <3>2
  <2>2. \A t \in SUBSET (1..n) : it[t] = Next(it, t)
    BY <1>5, <2>1 DEF IsFold
  <2>3. it = [t \in SUBSET (1..n) |-> it[t]]
    BY <1>5 DEF IsFold
  <2> QED BY <2>2, <2>3
<1>7. g = [t \in SUBSET (1..n) |-> Next(g, t)]
  BY <1>6
<1> HIDE DEF g
<1>8. Recurs(g, Y, n, <<>>, F)
  <2>1. ASSUME NEW t \in SUBSET (1..n), t # {}, g[t \ {Max(t)}] \in Y
        PROVE  g[t] = F[<<Max(t), g[t \ {Max(t)}]>>]
    <3>1. Max(t) \in 1..n
      BY <1>0, <2>1, MaxIn
    <3>2. g[t] = More(g[t \ {Max(t)}], W[Max(t)])
      BY <1>7, <2>1
    <3> QED BY <1>2, <2>1, <3>1, <3>2
  <2>2. g[{}] = <<>>
    BY <1>7
  <2> QED BY <2>1, <2>2 DEF Recurs
<1>9. PICK f : IsLeftFold(f, g, Y, n, <<>>, F)
  BY <1>0, <1>1, <1>4, <1>8, FoldValues
<1>10. f \in [0..n -> Y] /\ f[0] = <<>> /\ f[n] = Spaced(W)
  BY <1>3, <1>9 DEF IsLeftFold
<1>11. ASSUME NEW k \in 1..n PROVE f[k] = f[k - 1] \o Apart(W[k])
  <2>1. k - 1 \in 0..n
    BY <1>0
  <2>2. f[k - 1] \in Y /\ f[k] = F[<<k, f[k - 1]>>]
    BY <1>9, <1>10, <2>1 DEF IsLeftFold
  <2>3. f[k] = More(f[k - 1], W[k])
    BY <1>2, <2>2
  <2> QED BY <1>02, <1>03, <2>2, <2>3
<1> QED BY <1>10, <1>11 DEF IsSpaced, Y

(* What is left of a line before each of its parts: R[k] behind the first  *)
(* k of them, with the blank before it Y[k].                               *)
Chain(R, Y, W, n, y, r) ==
  /\ Y[0] = Spaced(W) \o y /\ Y[n] = y /\ R[n] = r
  /\ \A k \in 0..n : Leaves(Y[k], R[k])
  /\ \A k \in 1..n : R[k - 1] = W[k] \o Y[k]

LEMMA SpacedChain ==
  ASSUME NEW n \in Nat, NEW W, AreParts(W, n), NEW y, NEW r, Leaves(y, r)
  PROVE  \E R, Y : Chain(R, Y, W, n, y, r)
<1>1. PICK f : IsSpaced(f, W, n)
  BY SpacedFold
<1>2. /\ f \in [0..n -> Script] /\ f[0] = <<>> /\ f[n] = Spaced(W)
      /\ \A k \in 1..n : f[k] = f[k - 1] \o Apart(W[k])
  BY <1>1 DEF IsSpaced
<1>3. y \in Script /\ \A k \in 1..n : W[k] \in Script /\ Solid(W[k])
  BY LeavesTyped DEF AreParts, Solid
<1>4. PICK total : total = f[n] \o y
  OBVIOUS
<1> DEFINE Y == [k \in 0..n |-> CHOOSE z \in Script : total = f[k] \o z]
           R == [k \in 0..n |-> IF k = n THEN r ELSE W[k + 1] \o Y[k + 1]]
           Goes(k) == \E z \in Script : total = f[k] \o z
           S == {j \in 0..n : Goes(n - j)}
           T == {j \in 0..n : Leaves(Y[n - j], R[n - j])}
<1>5. ASSUME NEW k \in 1..n, NEW z \in Script, total = f[k] \o z
      PROVE  Apart(W[k] \o z) \in Script /\ total = f[k - 1] \o Apart(W[k] \o z)
  <2>1. k - 1 \in 0..n /\ k \in 0..n /\ f[k - 1] \in Script /\ W[k] \in Script
    <3>1. k - 1 \in 0..n /\ k \in 0..n
      OBVIOUS
    <3> QED BY <1>2, <1>3, <3>1
  <2>2. f[k] = f[k - 1] \o Apart(W[k])
    BY <1>2
  <2>3. total = f[k - 1] \o (Apart(W[k]) \o z)
    <3>1. Apart(W[k]) \in Script
      BY <2>1, ApartTyped
    <3>2. Regroups(f[k - 1], Apart(W[k]), z)
      BY <2>1, <3>1, GluedTwice
    <3> QED BY <1>5, <2>2, <3>2, Zenon DEF Regroups
  <2>4. Apart(W[k]) \o z = Apart(W[k] \o z)
    BY <2>1, OneBlank, GluedAgain DEF Apart
  <2>5. Apart(W[k] \o z) \in Script
    BY <2>1, ApartTyped, GluedScript
  <2> QED BY <2>3, <2>4, <2>5
<1>6. \A k \in 0..n : Goes(k)
  <2>1. 0 \in S
    <3>1. n - 0 = n
      OBVIOUS
    <3>2. Goes(n)
      BY <1>3, <1>4
    <3> HIDE DEF Goes
    <3> QED BY <3>1, <3>2
  <2>2. ASSUME NEW j \in 0..n, j < n, j \in S PROVE j + 1 \in S
    <3>1. PICK k \in 1..n : k = n - j /\ k - 1 = n - (j + 1)
      BY <2>2
    <3>2. Goes(k)
      BY <2>2, <3>1
    <3> HIDE DEF Goes
    <3>3. Goes(k - 1)
      BY <1>5, <3>2 DEF Goes
    <3>4. j + 1 \in 0..n
      BY <2>2
    <3> QED BY <3>1, <3>3, <3>4
  <2> HIDE DEF S
  <2>3. \A j \in 0..n : j \in S
    BY <2>1, <2>2, BoundedInduction
  <2> HIDE DEF Goes
  <2>4. ASSUME NEW k \in 0..n PROVE Goes(k)
    <3>1. PICK j \in 0..n : n - j = k
      <4>1. n - k \in 0..n /\ n - (n - k) = k
        OBVIOUS
      <4> QED BY <4>1
    <3> QED BY <2>3, <3>1 DEF S
  <2> QED BY <2>4
<1>7. \A k \in 0..n : Y[k] \in Script /\ total = f[k] \o Y[k]
  BY <1>6
<1> HIDE DEF Goes
<1>8. \A k \in 0..n : R[k] = IF k = n THEN r ELSE W[k + 1] \o Y[k + 1]
  OBVIOUS
<1> HIDE DEF Y, R
<1>9. Y[n] = y
  <2>1. n \in 0..n /\ f[n] \in Script
    BY <1>2
  <2> QED BY <1>3, <1>4, <1>7, <2>1, GluedOnce
<1>10. ASSUME NEW k \in 1..n PROVE Y[k - 1] = Apart(W[k] \o Y[k]) /\ R[k - 1] = W[k] \o Y[k]
  <2>1. k - 1 \in 0..n /\ k \in 0..n /\ k - 1 # n /\ k - 1 + 1 = k
    OBVIOUS
  <2>2. Apart(W[k] \o Y[k]) \in Script /\ total = f[k - 1] \o Apart(W[k] \o Y[k])
    BY <1>5, <1>7, <2>1
  <2>3. f[k - 1] \in Script /\ Y[k - 1] \in Script /\ total = f[k - 1] \o Y[k - 1]
    BY <1>2, <1>7, <2>1
  <2>4. Y[k - 1] = Apart(W[k] \o Y[k])
    BY <2>2, <2>3, GluedOnce
  <2> QED BY <1>8, <2>1, <2>4
<1>11. R[n] = r
  BY <1>8
<1>12. \A k \in 0..n : Leaves(Y[k], R[k])
  <2>1. 0 \in T
    <3>1. n - 0 = n
      OBVIOUS
    <3> QED BY <1>9, <1>11, <3>1
  <2>2. ASSUME NEW j \in 0..n, j < n, j \in T PROVE j + 1 \in T
    <3>1. PICK k \in 1..n : k = n - j /\ k - 1 = n - (j + 1)
      BY <2>2
    <3>2. Leaves(Y[k], R[k])
      BY <2>2, <3>1
    <3>3. Leaves(<<BLANK>> \o (W[k] \o Y[k]), W[k] \o Y[k])
      BY <1>3, <3>2, PartBefore
    <3>4. Leaves(Y[k - 1], R[k - 1])
      BY <1>10, <3>3, Zenon DEF Apart
    <3>5. j + 1 \in 0..n
      BY <2>2
    <3> QED BY <3>1, <3>4, <3>5
  <2> HIDE DEF T
  <2>3. \A j \in 0..n : j \in T
    BY <2>1, <2>2, BoundedInduction
  <2>4. ASSUME NEW k \in 0..n PROVE Leaves(Y[k], R[k])
    <3>1. PICK j \in 0..n : n - j = k
      <4>1. n - k \in 0..n /\ n - (n - k) = k
        OBVIOUS
      <4> QED BY <4>1
    <3> QED BY <2>3, <3>1 DEF T
  <2> QED BY <2>4
<1>13. Y[0] = Spaced(W) \o y
  <2>1. 0 \in 0..n
    OBVIOUS
  <2>2. total = <<>> \o Y[0] /\ Y[0] \in Script
    BY <1>2, <1>7, <2>1
  <2>3. <<>> \o Y[0] = Y[0]
    BY <2>2, ConcatEmptySeq DEF Script
  <2> QED BY <1>2, <1>4, <2>2, <2>3, Zenon
<1>14. Chain(R, Y, W, n, y, r)
  BY <1>9, <1>10, <1>11, <1>12, <1>13, Zenon DEF Chain
<1> QED BY <1>14

-----------------------------------------------------------------------------
(* The loop over the arguments.                                            *)
Takes == [ok : BOOLEAN, arg : Script, next : Trimmed]

LEMMA RestTyped ==
  ASSUME NEW s \in Script, NEW i \in Nat \ {0}
  PROVE  Chug(Behind(s, i)) \in Trimmed
<1>1. PICK n \in Nat : n = Len(s)
  BY ScriptIs
<1>2. PICK m \in Nat : Remain(m, n, i)
  <2>1. CASE i <= n
    <3>1. n - i + 1 \in Nat
      BY <2>1
    <3> QED BY <3>1 DEF Remain
  <2>2. CASE i > n
    BY <2>2 DEF Remain
  <2> QED BY <2>1, <2>2
<1>3. Behind(s, i) \in Script
  BY <1>1, <1>2, BehindIs
<1> QED BY <1>3, ChugTyped

LEMMA WordTyped == ASSUME NEW s \in Script PROVE WordOf(s) \in Takes
<1>1. PICK n \in Nat : n = Len(s) /\ \A i \in 1..n : s[i] \in Signs
  BY ScriptIs
<1> DEFINE e == FirstAt(s, LAMBDA c : c = BLANK)
<1>2. IsFirst(e, {i \in 1..n : s[i] = BLANK}, n)
  BY <1>1, FirstBlank
<1>3. WordOf(s) = [ok |-> s # <<>>, arg |-> SubSeq(s, 1, e - 1), next |-> Chug(Behind(s, e + 1))]
  BY DEF WordOf, Split
<1> HIDE DEF e
<1>4. e \in 1..n + 1
  BY <1>2 DEF IsFirst
<1>5. e + 1 \in Nat \ {0} /\ e - 1 \in 0..n
  BY <1>1, <1>4
<1>6. SubSeq(s, 1, e - 1) \in Script
  <2>1. \A i \in 1..e - 1 : s[i] \in Signs
    BY <1>1, <1>5
  <2> QED BY <1>5, <2>1, SubSeqProperties DEF Script
<1>7. Chug(Behind(s, e + 1)) \in Trimmed
  BY <1>5, RestTyped
<1> QED BY <1>3, <1>6, <1>7 DEF Takes

LEMMA UnquoteTyped == ASSUME NEW t \in Script PROVE Unquote(t) \in Takes
<1>1. PICK q \in QuoteStates : q = Scanned(t)
  BY ScannedTyped
<1>2. Unquote(t) = Unquoted(t, q)
  BY <1>1, Zenon DEF Unquote, Scanned, QuoteStart
<1>3. q.closed \in BOOLEAN /\ q.arg \in Script /\ q.used + 1 \in Nat \ {0}
  BY DEF QuoteStates
<1>4. Chug(Behind(t, q.used + 1)) \in Trimmed
  BY <1>3, RestTyped
<1> QED BY <1>2, <1>3, <1>4 DEF Unquoted, Takes

LEMMA QuotedOrWordTyped ==
  ASSUME NEW t \in Script, t # <<>>
  PROVE  QuotedOrWord(t) \in Takes /\ QuotedOrAll(t) \in Takes \cup {[ok |-> TRUE, arg |-> t, next |-> <<>>]}
<1>1. PICK n \in Nat : n = Len(t) /\ n > 0
  BY ScriptIs
<1>2. Tail(t) \in Script
  BY <1>1, TailIs
<1>3. Unquote(Tail(t)) \in Takes /\ WordOf(t) \in Takes
  BY <1>2, UnquoteTyped, WordTyped
<1> QED BY <1>3 DEF QuotedOrWord, QuotedOrAll

LEMMA ScriptReversed ==
  ASSUME NEW s \in Script, NEW n \in Nat, n = Len(s)
  PROVE  /\ Reverse(s) \in Script /\ Len(Reverse(s)) = n
         /\ \A i \in 1..n : Reverse(s)[i] = s[n - i + 1]
<1>1. \A i \in 1..n : s[i] \in Signs
  BY ScriptIs
<1>2. PICK t : t = Reverse(s)
  OBVIOUS
<1>3. t = [i \in 1..n |-> s[n - i + 1]]
  BY <1>1, <1>2 DEF Reverse
<1>4. \A i \in 1..n : n - i + 1 \in 1..n
  OBVIOUS
<1>5. t \in [1..n -> Signs] /\ \A i \in 1..n : t[i] = s[n - i + 1]
  BY <1>1, <1>3, <1>4
<1>6. t \in Seq(Signs) /\ Len(t) = n
  BY <1>5
<1> QED BY <1>2, <1>5, <1>6 DEF Script

LEMMA ChompTyped ==
  ASSUME NEW s \in Trimmed, s # <<>>
  PROVE  Chomp(s) \in Script /\ Chomp(s) # <<>>
<1>0. s \in Script /\ s[1] # BLANK
  BY DEF Trimmed
<1>1. PICK n \in Nat : n = Len(s) /\ n > 0
  BY <1>0, ScriptIs
<1>2. PICK t : t = Reverse(s)
  OBVIOUS
<1>3. t \in Script /\ Len(t) = n /\ t[n] = s[1]
  <2>1. n \in 1..n /\ n - n + 1 = 1
    BY <1>1
  <2> QED BY <1>0, <1>1, <1>2, <2>1, ScriptReversed
<1>4. PICK k \in Nat \ {0} : IsFirst(k, {i \in 1..n : t[i] # BLANK}, n) /\ Chug(t) = Behind(t, k)
  BY <1>1, <1>3, FirstOther
<1>5. k <= n
  <2>1. SUFFICES ASSUME k > n PROVE FALSE
    BY <1>1
  <2>2. n \in 1..n /\ n < k
    BY <1>1, <2>1
  <2>3. n \notin {i \in 1..n : t[i] # BLANK}
    BY <1>4, <2>2 DEF IsFirst
  <2> QED BY <1>0, <1>3, <2>2, <2>3
<1>6. PICK m \in Nat : m = n - k + 1 /\ Remain(m, n, k) /\ m > 0
  BY <1>1, <1>5 DEF Remain
<1>7. PICK z : z = Chug(t)
  OBVIOUS
<1>8. z \in Script /\ Len(z) = m
  <2>1. Behind(t, k) \in Script /\ Len(Behind(t, k)) = m
    <3>1. t \in Script /\ n = Len(t) /\ Remain(m, n, k)
      BY <1>3, <1>6
    <3> QED BY <3>1, BehindIs
  <2> QED BY <1>4, <1>7, <2>1
<1>9. Reverse(z) \in Script /\ Len(Reverse(z)) = m
  BY <1>6, <1>8, ScriptReversed
<1>10. Reverse(z) # <<>>
  BY <1>6, <1>9, ScriptIs
<1> QED BY <1>2, <1>7, <1>9, <1>10 DEF Chomp

ArgumentAt(b, i, s) == IF i = b.argc THEN get_last_quote_arg(s) ELSE get_quote_arg(s)

LEMMA ArgumentTyped ==
  ASSUME NEW s \in Trimmed, s # <<>>, NEW b, NEW i
  PROVE  ArgumentAt(b, i, s) \in Takes
<1>1. Chug(s) = s /\ s \in Script
  BY ChugNothing DEF Trimmed
<1>2. get_quote_arg(s) \in Takes
  <2>1. get_quote_arg(s) = QuotedOrWord(s)
    BY <1>1, Zenon DEF get_quote_arg
  <2> QED BY <1>1, <2>1, QuotedOrWordTyped
<1>3. get_last_quote_arg(s) \in Takes
  <2>1. PICK t \in Script : t = Chomp(s) /\ t # <<>>
    BY ChompTyped
  <2>2. get_last_quote_arg(s) = QuotedOrAll(t)
    BY <1>1, <2>1, Zenon DEF get_last_quote_arg
  <2>3. [ok |-> TRUE, arg |-> t, next |-> <<>>] \in Takes
    BY EmptyScript DEF Takes
  <2> QED BY <2>1, <2>2, <2>3, QuotedOrWordTyped
<1> QED BY <1>2, <1>3 DEF ArgumentAt

ArgStates == [ok : BOOLEAN, args : Seq(Script), next : Trimmed]
ArgStart(s) == [ok |-> TRUE, args |-> <<>>, next |-> s]
ArgStep(b, p, i) ==
  IF ~p.ok \/ p.next = <<>> THEN [p EXCEPT !.ok = FALSE] ELSE WithArgument(p, ArgumentAt(b, i, p.next))

LEMMA ArgStepTyped ==
  ASSUME NEW b, NEW p \in ArgStates, NEW i
  PROVE  ArgStep(b, p, i) \in ArgStates
<1>0. p.ok \in BOOLEAN /\ p.args \in Seq(Script) /\ p.next \in Trimmed
  BY DEF ArgStates
<1>1. [p EXCEPT !.ok = FALSE] \in ArgStates
  BY DEF ArgStates
<1>2. CASE ~p.ok \/ p.next = <<>>
  BY <1>1, <1>2 DEF ArgStep
<1>3. CASE ~(~p.ok \/ p.next = <<>>)
  <2>1. PICK a \in Takes : a = ArgumentAt(b, i, p.next)
    BY <1>0, <1>3, ArgumentTyped
  <2>2. a.arg \in Script /\ a.next \in Trimmed
    BY DEF Takes
  <2>3. Append(p.args, a.arg) \in Seq(Script)
    BY <1>0, <2>2, AppendProperties
  <2>4. WithArgument(p, a) \in ArgStates
    BY <1>1, <2>2, <2>3 DEF WithArgument, ArgStates
  <2> QED BY <1>3, <2>1, <2>4 DEF ArgStep
<1> QED BY <1>2, <1>3

AreArgs(f, b, s, n) ==
  /\ f \in [0..n -> ArgStates] /\ f[0] = ArgStart(s) /\ f[n] = ParseArgs(b, s)
  /\ \A k \in 1..n : f[k] = ArgStep(b, f[k - 1], k)

LEMMA ArgsFold ==
  ASSUME NEW b, NEW n \in Nat, n = b.argc, NEW s \in Trimmed
  PROVE  \E f : AreArgs(f, b, s, n)
<1> DEFINE Y == ArgStates
           base == ArgStart(s)
           W == [i \in 1..b.argc |-> i]
           F == [p \in (1..n) \X Y |-> ArgStep(b, p[2], W[p[1]])]
           Next(it, t) == IF t = {} THEN base ELSE ArgStep(b, it[t \ {Max(t)}], W[Max(t)])
           g == CHOOSE h : h = [t \in SUBSET (1..n) |-> Next(h, t)]
<1>0. Len(W) = n /\ DOMAIN W = 1..n
  OBVIOUS
<1>02. ParseArgs(b, s) = FoldLeft(LAMBDA p, i : ArgStep(b, p, i), base, W)
  BY DEF ParseArgs, ArgStep, ArgumentAt, ArgStart
<1>03. \A k \in 1..n : W[k] = k
  OBVIOUS
<1> HIDE DEF W, base
<1>3. ParseArgs(b, s) = g[1..n]
  BY <1>0, <1>02 DEF FoldLeft, MapThenFoldSet
<1> USE DEF base
<1>4. base \in Y
  BY EmptyScript, EmptySeq DEF ArgStart, ArgStates
<1>1. Steps(F, Y, n)
  <2>1. \A p \in (1..n) \X Y : ArgStep(b, p[2], W[p[1]]) \in Y
    BY ArgStepTyped
  <2> HIDE DEF Y
  <2> QED BY <2>1 DEF Steps
<1> HIDE DEF Y
<1>2. \A k \in 1..n, x \in Y : F[<<k, x>>] = ArgStep(b, x, W[k])
  OBVIOUS
<1> HIDE DEF F, base
<1>5. PICK it : IsFold(it, Y, n, base, F)
  BY <1>1, <1>4, FoldExists
<1>6. it = [t \in SUBSET (1..n) |-> Next(it, t)]
  <2>1. ASSUME NEW t \in SUBSET (1..n), t # {}
        PROVE  it[t] = ArgStep(b, it[t \ {Max(t)}], W[Max(t)])
    <3>1. Max(t) \in 1..n /\ t \ {Max(t)} \in SUBSET (1..n)
      BY <2>1, MaxIn
    <3>2. it[t \ {Max(t)}] \in Y /\ it[t] = F[<<Max(t), it[t \ {Max(t)}]>>]
      BY <1>5, <2>1, <3>1 DEF IsFold
    <3> QED BY <1>2, <3>1, <3>2
  <2>2. \A t \in SUBSET (1..n) : it[t] = Next(it, t)
    BY <1>5, <2>1 DEF IsFold
  <2>3. it = [t \in SUBSET (1..n) |-> it[t]]
    BY <1>5 DEF IsFold
  <2> QED BY <2>2, <2>3
<1>7. g = [t \in SUBSET (1..n) |-> Next(g, t)]
  BY <1>6
<1> HIDE DEF g
<1>8. Recurs(g, Y, n, base, F)
  <2>1. ASSUME NEW t \in SUBSET (1..n), t # {}, g[t \ {Max(t)}] \in Y
        PROVE  g[t] = F[<<Max(t), g[t \ {Max(t)}]>>]
    <3>1. Max(t) \in 1..n
      BY <2>1, MaxIn
    <3>2. g[t] = ArgStep(b, g[t \ {Max(t)}], W[Max(t)])
      BY <1>7, <2>1
    <3> QED BY <1>2, <2>1, <3>1, <3>2
  <2>2. g[{}] = base
    BY <1>7
  <2> QED BY <2>1, <2>2 DEF Recurs
<1>9. PICK f : IsLeftFold(f, g, Y, n, base, F)
  BY <1>1, <1>4, <1>8, FoldValues
<1>10. f \in [0..n -> Y] /\ f[0] = base /\ f[n] = ParseArgs(b, s)
  BY <1>3, <1>9 DEF IsLeftFold
<1>11. ASSUME NEW k \in 1..n PROVE f[k] = ArgStep(b, f[k - 1], k)
  <2>1. k - 1 \in 0..n
    OBVIOUS
  <2>2. f[k - 1] \in Y /\ f[k] = F[<<k, f[k - 1]>>]
    BY <1>9, <1>10, <2>1 DEF IsLeftFold
  <2> QED BY <1>2, <1>03, <2>2
<1> QED BY <1>10, <1>11 DEF AreArgs, Y, base

LEMMA ReadTyped ==
  ASSUME NEW v \in Script, NEW bare, NEW l
  PROVE  ReadAs(v, bare, l) \in Script
<1>1. CASE bare /\ MayStandBare(v, l)
  <2>1. ReadAs(v, bare, l) = Arrives(v, TRUE)
    BY <1>1 DEF ReadAs, Arrives
  <2> QED BY <2>1, ArrivesBare
<1>2. CASE ~(bare /\ MayStandBare(v, l))
  <2>1. ReadAs(v, bare, l) = Arrives(v, FALSE)
    BY <1>2 DEF ReadAs, Arrives
  <2> QED BY <2>1, ArrivesIs
<1> QED BY <1>1, <1>2

(* Whether the argument is the last that the binding has, and then of the  *)
(* line.                                                                   *)
AtPlace(b, i, l, y, r) ==
  (l = TRUE /\ i = b.argc /\ y = <<>> /\ r = <<>>) \/ (l = FALSE /\ i # b.argc)

Stands(s, v, bare, l, y) == s = Written(v, bare, l) \o y
IsRead(b, i, s, v, bare, l, r) == ArgumentAt(b, i, s) = ArgTaken(ReadAs(v, bare, l), r) /\ s # <<>>

LEMMA ArgumentRead ==
  ASSUME NEW v \in Script, NEW bare \in BOOLEAN, NEW l \in BOOLEAN, NEW b, NEW i, NEW y, NEW r,
         AtPlace(b, i, l, y, r), Leaves(y, r), NEW s, Stands(s, v, bare, l, y)
  PROVE  IsRead(b, i, s, v, bare, l, r)
<1>0. s = Written(v, bare, l) \o y
  BY DEF Stands
<1>1. PICK x : x = Written(v, bare, l)
  OBVIOUS
<1>2. Solid(x) /\ x \in Script /\ x # <<>> /\ x[1] # BLANK
  BY <1>1, WrittenWell DEF WellWritten, Solid
<1>3. Leads(s, x, r)
  BY <1>0, <1>1, <1>2, JoinedLeads
<1>4. s # <<>>
  BY <1>2, <1>3, LedTrimmed
<1>5. CASE l = FALSE
  <2>1. Leads(s, Written(v, bare, FALSE), r)
    BY <1>1, <1>3, <1>5
  <2>2. get_quote_arg(s) = ArgTaken(ReadAs(v, bare, FALSE), r)
    BY <2>1, WrittenTaken, ZenonT(40) DEF ReadsTo
  <2>3. ArgumentAt(b, i, s) = get_quote_arg(s)
    BY <1>5 DEF ArgumentAt, AtPlace
  <2> QED BY <1>4, <1>5, <2>2, <2>3 DEF IsRead
<1>6. CASE l = TRUE
  <2>1. s = x
    BY <1>0, <1>1, <1>2, <1>6, ConcatEmptySeq DEF Script, AtPlace
  <2>2. get_last_quote_arg(Written(v, bare, TRUE)) = ArgTaken(ReadAs(v, bare, TRUE), <<>>)
    BY WrittenLast
  <2>3. ArgumentAt(b, i, s) = get_last_quote_arg(s)
    BY <1>6 DEF ArgumentAt, AtPlace
  <2>4. r = <<>>
    BY <1>6 DEF AtPlace
  <2> QED BY <1>1, <1>4, <1>6, <2>1, <2>2, <2>3, <2>4 DEF IsRead
<1> QED BY <1>5, <1>6 DEF AtPlace

AreTexts(args, n) == DOMAIN args = 1..n /\ Len(args) = n /\ \A k \in 1..n : args[k] \in Script

WrittenArgs(args, argc, bare) == [i \in DOMAIN args |-> Written(args[i], bare, i = argc)]
ReadArgs(args, argc, bare) == [i \in DOMAIN args |-> ReadAs(args[i], bare, i = argc)]

LEMMA WrittenParts ==
  ASSUME NEW n \in Nat, NEW args, AreTexts(args, n), NEW argc, NEW bare \in BOOLEAN
  PROVE  /\ AreParts(WrittenArgs(args, argc, bare), n)
         /\ \A k \in 1..n : WellWritten(args[k], bare, k = argc)
<1>1. DOMAIN args = 1..n /\ \A k \in 1..n : args[k] \in Script
  BY DEF AreTexts
<1>2. ASSUME NEW k \in 1..n PROVE WellWritten(args[k], bare, k = argc)
  <2>1. args[k] \in Script /\ (k = argc) \in BOOLEAN
    BY <1>1
  <2> QED BY <2>1, WrittenWell
<1>3. PICK W : W = WrittenArgs(args, argc, bare)
  OBVIOUS
<1>4. W = [i \in 1..n |-> Written(args[i], bare, i = argc)]
  BY <1>1, <1>3 DEF WrittenArgs
<1>5. DOMAIN W = 1..n /\ Len(W) = n
  BY <1>4
<1>6. ASSUME NEW k \in 1..n PROVE Solid(W[k])
  BY <1>2, <1>4 DEF WellWritten
<1> QED BY <1>2, <1>3, <1>5, <1>6 DEF AreParts

LEMMA ArgsRead ==
  ASSUME NEW b, NEW n \in Nat, n = b.argc, NEW na \in 0..n, NEW args, AreTexts(args, na),
         NEW bare \in BOOLEAN, NEW R, NEW Y, Chain(R, Y, WrittenArgs(args, n, bare), na, <<>>, <<>>)
  PROVE  /\ ParseArgs(b, R[0]).args = ReadArgs(args, n, bare)
         /\ na = n => ParseArgs(b, R[0]).ok
<1>0. DOMAIN args = 1..na /\ \A k \in 1..na : args[k] \in Script
  BY DEF AreTexts
<1>1. PICK T : T = ReadArgs(args, n, bare)
  OBVIOUS
<1>2. T \in Seq(Script) /\ Len(T) = na /\ \A k \in 1..na : T[k] = ReadAs(args[k], bare, k = n)
  <2>1. T = [i \in 1..na |-> ReadAs(args[i], bare, i = n)]
    BY <1>0, <1>1 DEF ReadArgs
  <2>2. \A i \in 1..na : ReadAs(args[i], bare, i = n) \in Script
    BY <1>0, ReadTyped
  <2>3. T \in [1..na -> Script] /\ \A k \in 1..na : T[k] = ReadAs(args[k], bare, k = n)
    BY <2>1, <2>2
  <2>4. T \in Seq(Script) /\ Len(T) = na
    BY <2>3
  <2> QED BY <2>3, <2>4
<1>3. /\ Y[na] = <<>> /\ R[na] = <<>> /\ \A k \in 0..na : Leaves(Y[k], R[k])
      /\ \A k \in 1..na : R[k - 1] = Written(args[k], bare, k = n) \o Y[k]
  BY <1>0 DEF Chain, WrittenArgs
<1>4. R[0] \in Trimmed
  <2>1. 0 \in 0..na
    OBVIOUS
  <2> QED BY <1>3, <2>1 DEF Leaves
<1>5. PICK f : AreArgs(f, b, R[0], n)
  BY <1>4, ArgsFold
<1>6. /\ f \in [0..n -> ArgStates] /\ f[0] = ArgStart(R[0]) /\ f[n] = ParseArgs(b, R[0])
      /\ \A k \in 1..n : f[k] = ArgStep(b, f[k - 1], k)
  BY <1>5 DEF AreArgs
<1> DEFINE OnWay(k) == k <= na => f[k].ok /\ f[k].args = SubSeq(T, 1, k) /\ f[k].next = R[k]
           Behindhand(k) == k > na => ~f[k].ok /\ f[k].args = T
           S == {k \in 0..n : OnWay(k) /\ Behindhand(k)}
<1>7. SubSeq(T, 1, na) = T
  BY <1>2, SubSeqFull
<1>8. 0 \in S
  <2>1. SubSeq(T, 1, 0) = <<>>
    BY SubSeqEmpty
  <2>2. f[0].ok /\ f[0].args = <<>> /\ f[0].next = R[0]
    BY <1>6 DEF ArgStart
  <2>3. 0 \in 0..n /\ ~(0 > na)
    OBVIOUS
  <2>4. OnWay(0) /\ Behindhand(0)
    BY <2>1, <2>2, <2>3
  <2> QED BY <2>3, <2>4
<1>9. ASSUME NEW k \in 0..n, k < n, k \in S PROVE k + 1 \in S
  <2>1. PICK j \in 1..n : j = k + 1 /\ j - 1 = k
    BY <1>9
  <2>2. PICK p \in ArgStates : p = f[k] /\ f[j] = ArgStep(b, p, j)
    <3>1. f[j] = ArgStep(b, f[j - 1], j)
      BY <1>6
    <3> QED BY <1>6, <2>1, <3>1
  <2>3. CASE k < na
    <3>1. j \in 1..na /\ k <= na
      BY <2>1, <2>3
    <3>2. p.ok /\ p.args = SubSeq(T, 1, k) /\ p.next = R[k]
      BY <1>9, <2>2, <3>1
    <3>3. PICK l \in BOOLEAN : l = (j = n)
      OBVIOUS
    <3>4. PICK v \in Script : v = args[j]
      BY <1>0, <3>1
    <3>5. R[k] = Written(v, bare, l) \o Y[j] /\ T[j] = ReadAs(v, bare, l)
      BY <1>2, <1>3, <2>1, <3>1, <3>3, <3>4
    <3>6. Leaves(Y[j], R[j])
      <4>1. j \in 0..na
        BY <3>1
      <4> QED BY <1>3, <4>1
    <3>7. AtPlace(b, j, l, Y[j], R[j])
      <4>1. CASE j = n
        <5>1. j = na
          <6>1. j <= na /\ na <= n /\ j \in Int /\ na \in Int /\ n \in Int
            BY <3>1
          <6> QED BY <4>1, <6>1
        <5>2. l = TRUE
          BY <3>3, <4>1
        <5> QED BY <1>3, <4>1, <5>1, <5>2 DEF AtPlace
      <4>2. CASE j # n
        <5>1. l = FALSE
          BY <3>3, <4>2
        <5> QED BY <4>2, <5>1 DEF AtPlace
      <4> QED BY <4>1, <4>2
    <3>8. ArgumentAt(b, j, R[k]) = ArgTaken(T[j], R[j]) /\ R[k] # <<>>
      <4>0. l \in BOOLEAN /\ v \in Script
        BY <3>3, <3>4
      <4>1. Stands(R[k], v, bare, l, Y[j])
        BY <3>5 DEF Stands
      <4>2. IsRead(b, j, R[k], v, bare, l, R[j])
        BY <3>6, <3>7, <4>0, <4>1, ArgumentRead, Zenon
      <4> QED BY <3>5, <4>2 DEF IsRead
    <3>9. f[j] = WithArgument(p, ArgTaken(T[j], R[j]))
      BY <2>2, <3>2, <3>8 DEF ArgStep
    <3>10. f[j] = [ok |-> TRUE, args |-> Append(p.args, T[j]), next |-> R[j]]
      BY <3>9 DEF WithArgument, ArgTaken
    <3>11. SubSeq(T, 1, j) = Append(SubSeq(T, 1, k), T[j])
      <4>1. SubSeq(T, 1, j) = Append(SubSeq(T, 1, j - 1), T[j])
        <5>1. na \in Nat
          OBVIOUS
        <5> QED BY <1>2, <3>1, <5>1, OneMore
      <4> QED BY <2>1, <4>1
    <3>12. f[j].ok /\ f[j].args = SubSeq(T, 1, j) /\ f[j].next = R[j]
      BY <3>2, <3>10, <3>11
    <3>13. j \in S
      BY <3>1, <3>12
    <3> QED BY <2>1, <3>13
  <2>4. CASE k >= na
    <3>1. p.args = T /\ (~p.ok \/ p.next = <<>>)
      <4>1. CASE k = na
        <5>1. p.args = SubSeq(T, 1, na) /\ p.next = <<>>
          BY <1>3, <1>9, <2>2, <4>1
        <5> QED BY <1>7, <5>1
      <4>2. CASE k > na
        BY <1>9, <2>2, <4>2
      <4> QED BY <2>4, <4>1, <4>2
    <3>2. f[j] = [p EXCEPT !.ok = FALSE]
      BY <2>2, <3>1 DEF ArgStep
    <3>3. ~f[j].ok /\ f[j].args = T
      BY <3>1, <3>2 DEF ArgStates
    <3>4. j > na
      BY <2>1, <2>4
    <3>5. j \in S
      BY <3>3, <3>4
    <3> QED BY <2>1, <3>5
  <2> QED BY <2>3, <2>4
<1> HIDE DEF S
<1>10. \A k \in 0..n : k \in S
  BY <1>8, <1>9, BoundedInduction
<1>11. n \in S
  BY <1>10
<1>12. f[n].args = T
  <2>1. CASE n > na
    BY <1>11, <2>1 DEF S
  <2>2. CASE n = na
    BY <1>7, <1>11, <2>2 DEF S
  <2> QED BY <2>1, <2>2
<1>13. na = n => f[n].ok
  BY <1>11 DEF S
<1> QED BY <1>1, <1>6, <1>12, <1>13

-----------------------------------------------------------------------------
(* The bindings.                                                           *)
LEMMA BindingsAre ==
  /\ DOMAIN Bindings = {"connect", "pattern", "ignore", "kick", "reload"}
  /\ Bindings["connect"] = Binding(<<>>, <<Opt(Dashed("pwd"), TRUE), Opt(Dashed("tls"), FALSE),
                                     Opt(Dashed("tls") \o Dashed("noverify"), FALSE)>>, 2, TRUE)
  /\ Bindings["pattern"] = Binding(<<"add", "rm", "list">>, <<>>, 2, TRUE)
  /\ Bindings["ignore"] = Binding(<<>>, <<Opt(Dashed("cur"), FALSE)>>, 1, FALSE)
  /\ Bindings["kick"] = Binding(<<>>, <<>>, 3, TRUE)
  /\ Bindings["reload"] = Binding(<<>>, <<>>, 0, FALSE)
BY Zenon DEF Bindings

LEMMA BindingFields ==
  ASSUME NEW sub, NEW opts, NEW argc, NEW omit
  PROVE  /\ Binding(sub, opts, argc, omit).sub = sub /\ Binding(sub, opts, argc, omit).opts = opts
         /\ Binding(sub, opts, argc, omit).argc = argc /\ Binding(sub, opts, argc, omit).omit = omit
BY DEF Binding

(* The options begin with a hyphen and go on with a mark of their own,     *)
(* except for the two of -tls.                                             *)
OptionMarks == {"-", "pwd", "tls", "noverify", "cur"}
IsKey(o, mark, valued) ==
  /\ o.key \in Seq(OptionMarks) /\ Len(o.key) >= 2 /\ o.key[1] = "-" /\ o.key[2] = mark
  /\ o.valued = valued

LEMMA KeyIs ==
  ASSUME NEW k \in Seq(OptionMarks), Len(k) >= 2, NEW mark, k[1] = "-", k[2] = mark, NEW v
  PROVE  IsKey(Opt(k, v), mark, v)
<1>1. Opt(k, v).key = k /\ Opt(k, v).valued = v
  BY Zenon DEF Opt
<1>2. PICK o : o = Opt(k, v)
  OBVIOUS
<1>3. o.key \in Seq(OptionMarks) /\ Len(o.key) >= 2 /\ o.key[1] = "-" /\ o.key[2] = mark
  BY <1>1, <1>2
<1>4. o.valued = v
  BY <1>1, <1>2, Zenon
<1>5. IsKey(o, mark, v)
  BY <1>3, <1>4, Zenon DEF IsKey
<1> QED BY <1>2, <1>5, Zenon

LEMMA KeysAre ==
  /\ IsKey(Opt(Dashed("pwd"), TRUE), "pwd", TRUE) /\ IsKey(Opt(Dashed("tls"), FALSE), "tls", FALSE)
  /\ IsKey(Opt(Dashed("cur"), FALSE), "cur", FALSE)
  /\ IsKey(Opt(Dashed("tls") \o Dashed("noverify"), FALSE), "tls", FALSE)
<1>1. /\ Dashed("pwd") \in Seq(OptionMarks) /\ Len(Dashed("pwd")) = 2
      /\ Dashed("pwd")[1] = "-" /\ Dashed("pwd")[2] = "pwd"
      /\ Dashed("tls") \in Seq(OptionMarks) /\ Len(Dashed("tls")) = 2
      /\ Dashed("tls")[1] = "-" /\ Dashed("tls")[2] = "tls"
      /\ Dashed("cur") \in Seq(OptionMarks) /\ Len(Dashed("cur")) = 2
      /\ Dashed("cur")[1] = "-" /\ Dashed("cur")[2] = "cur"
      /\ Dashed("noverify") \in Seq(OptionMarks) /\ Len(Dashed("noverify")) = 2
  BY DEF Dashed, OptionMarks
<1>2. PICK a : a = Dashed("tls")
  OBVIOUS
<1>3. PICK b : b = Dashed("noverify")
  OBVIOUS
<1>4. PICK c : c = a \o b
  OBVIOUS
<1>5. c \in Seq(OptionMarks) /\ Len(c) = 4 /\ c[1] = "-" /\ c[2] = "tls"
  <2>1. PICK l \in Nat : l = 2
    OBVIOUS
  <2>2. PICK k \in Nat : k = 4
    OBVIOUS
  <2>3. l = Len(a) /\ l = Len(b) /\ k = l + l
    BY <1>1, <1>2, <1>3, <2>1, <2>2
  <2>4. Joined(a \o b, OptionMarks, a, l, b, k)
    BY <1>1, <1>2, <1>3, <2>3, ConcatIs
  <2>5. Joined(c, OptionMarks, a, l, b, k)
    BY <1>4, <2>4
  <2>6. 1 \in 1..k /\ 2 \in 1..k /\ 1 <= l /\ 2 <= l
    BY <2>1, <2>2
  <2> QED BY <1>1, <1>2, <2>2, <2>5, <2>6 DEF Joined
<1>7. IsKey(Opt(c, FALSE), "tls", FALSE)
  <2>1. Len(c) >= 2
    BY <1>5
  <2> QED BY <1>5, <2>1, KeyIs, Zenon
<1>8. c = Dashed("tls") \o Dashed("noverify")
  BY <1>2, <1>3, <1>4
<1>9. /\ IsKey(Opt(Dashed("pwd"), TRUE), "pwd", TRUE) /\ IsKey(Opt(Dashed("tls"), FALSE), "tls", FALSE)
      /\ IsKey(Opt(Dashed("cur"), FALSE), "cur", FALSE)
  <2>1. Len(Dashed("pwd")) >= 2 /\ Len(Dashed("tls")) >= 2 /\ Len(Dashed("cur")) >= 2
    BY <1>1
  <2> QED BY <1>1, <2>1, KeyIs, Zenon
<1> QED BY <1>7, <1>8, <1>9, Zenon

(* An option of a binding is known by its key, or by one that is the       *)
(* beginning of it and takes a value when it does.                         *)
FirstOption(b, s) == SelectInSeq(b.opts, LAMBDA o : StartsWith(s, o.key))
IsOption(b, o) ==
  /\ IsScriptWord(o.key) /\ o.key[1] = "-" /\ o.valued \in BOOLEAN
  /\ \A s \in Script : StartsWith(s, o.key) =>
       FirstOption(b, s) \in DOMAIN b.opts /\ FirstOption(b, s) > 0 /\ b.opts[FirstOption(b, s)].valued = o.valued

LEMMA StartsAt ==
  ASSUME NEW s \in Script, NEW X, NEW k \in Seq(X), StartsWith(s, k), NEW i \in 1..Len(k)
  PROVE  s[i] = k[i]
<1>1. PICK n \in Nat : n = Len(k) /\ n <= Len(s)
  BY LenProperties, ScriptIs DEF StartsWith
<1>2. \A j \in 1..n : s[j] \in Signs
  BY <1>1, ScriptIs
<1>3. \A j \in 1..n : SubSeq(s, 1, n)[j] = s[j]
  BY <1>1, <1>2, SubSeqProperties
<1> QED BY <1>1, <1>3 DEF StartsWith

LEMMA LedStarts ==
  ASSUME NEW s, NEW x, NEW r, Leads(s, x, r)
  PROVE  StartsWith(s, x)
<1>0. s \in Script /\ x \in Script
  BY DEF Leads
<1>1. PICK n \in Nat : n = Len(x) /\ n <= Len(s) /\ Len(s) \in Nat
  BY <1>0, ScriptIs, LedFacts
<1>2. \A j \in 1..n : s[j] = x[j] /\ s[j] \in Signs
  BY <1>0, <1>1, LedFacts, ScriptIs
<1>3. SubSeq(s, 1, n) \in Seq(Signs) /\ Len(SubSeq(s, 1, n)) = n /\ \A j \in 1..n : SubSeq(s, 1, n)[j] = s[j]
  BY <1>1, <1>2, SubSeqProperties
<1>4. SubSeq(s, 1, n) = x
  BY <1>0, <1>1, <1>2, <1>3, SeqEqual DEF Script
<1> QED BY <1>1, <1>4 DEF StartsWith

LEMMA MarksApart == BLANK \notin OptionMarks
BY Zenon DEF BLANK, OptionMarks

LEMMA KeyIsWord ==
  ASSUME NEW name \in DOMAIN Bindings, NEW i \in DOMAIN Bindings[name].opts,
         Bindings[name].opts[i].key \in Seq(OptionMarks), Len(Bindings[name].opts[i].key) >= 2
  PROVE  IsScriptWord(Bindings[name].opts[i].key)
<1>1. PICK o : o = Bindings[name].opts[i]
  OBVIOUS
<1>2. o \in ToSet(Bindings[name].opts)
  BY <1>1 DEF ToSet
<1>3. PICK k \in Seq(OptionMarks) : k = o.key /\ Len(k) >= 2
  BY <1>1
<1>4. ToSet(k) \subseteq Signs
  BY <1>2, <1>3 DEF Signs
<1>5. \A j \in 1..Len(k) : k[j] \in ToSet(k) /\ k[j] # BLANK
  BY <1>3, MarksApart, LenProperties, ElementOfSeq DEF ToSet
<1>6. k \in [1..Len(k) -> Signs] /\ Len(k) \in Nat
  <2>1. k \in [1..Len(k) -> OptionMarks] /\ Len(k) \in Nat
    BY LenProperties
  <2> QED BY <1>4, <1>5, <2>1
<1>7. k \in Script
  BY <1>6 DEF Script
<1>8. k # <<>>
  BY <1>3, <1>7, ScriptIs
<1> QED BY <1>1, <1>3, <1>5, <1>7, <1>8 DEF IsScriptWord

(* Options that go on with the same mark take values alike. *)
IsDashed(o) == o.key \in Seq(OptionMarks) /\ Len(o.key) >= 2 /\ o.key[1] = "-" /\ o.valued \in BOOLEAN
Alike(o, q) == o.key[2] = q.key[2] => o.valued = q.valued
HasOptions(b, n) ==
  /\ n \in Nat /\ DOMAIN b.opts = 1..n /\ Len(b.opts) = n
  /\ \A i \in 1..n : IsDashed(b.opts[i])
  /\ \A i, j \in 1..n : Alike(b.opts[i], b.opts[j])

LEMMA DashedKey ==
  ASSUME NEW o, NEW mark, NEW v \in BOOLEAN, IsKey(o, mark, v)
  PROVE  IsDashed(o) /\ Alike(o, o)
<1>1. IsDashed(o)
  BY Zenon DEF IsKey, IsDashed
<1>2. Alike(o, o)
  BY Zenon DEF Alike
<1> QED BY <1>1, <1>2

LEMMA OptionsAre ==
  /\ Bindings["connect"].opts = <<Opt(Dashed("pwd"), TRUE), Opt(Dashed("tls"), FALSE),
                                  Opt(Dashed("tls") \o Dashed("noverify"), FALSE)>>
  /\ Bindings["pattern"].opts = <<>>
  /\ Bindings["ignore"].opts = <<Opt(Dashed("cur"), FALSE)>>
  /\ Bindings["kick"].opts = <<>> /\ Bindings["reload"].opts = <<>>
<1>1. Bindings["connect"].opts = <<Opt(Dashed("pwd"), TRUE), Opt(Dashed("tls"), FALSE),
                Opt(Dashed("tls") \o Dashed("noverify"), FALSE)>>
  BY Zenon DEF Bindings, Binding
<1>2. Bindings["pattern"].opts = <<>>
  BY Zenon DEF Bindings, Binding
<1>3. Bindings["ignore"].opts = <<Opt(Dashed("cur"), FALSE)>>
  BY Zenon DEF Bindings, Binding
<1>4. Bindings["kick"].opts = <<>>
  BY Zenon DEF Bindings, Binding
<1>5. Bindings["reload"].opts = <<>>
  BY Zenon DEF Bindings, Binding
<1> QED BY <1>1, <1>2, <1>3, <1>4, <1>5, Zenon

LEMMA OptionsOfBindings ==
  /\ HasOptions(Bindings["connect"], 3) /\ HasOptions(Bindings["pattern"], 0)
  /\ HasOptions(Bindings["ignore"], 1) /\ HasOptions(Bindings["kick"], 0) /\ HasOptions(Bindings["reload"], 0)
<1>1. HasOptions(Bindings["connect"], 3)
  <2>1. PICK a : a = Opt(Dashed("pwd"), TRUE)
    OBVIOUS
  <2>2. PICK b : b = Opt(Dashed("tls"), FALSE)
    OBVIOUS
  <2>3. PICK c : c = Opt(Dashed("tls") \o Dashed("noverify"), FALSE)
    OBVIOUS
  <2>4. PICK q : q = Bindings["connect"].opts
    OBVIOUS
  <2>5. q = <<a, b, c>>
    BY <2>1, <2>2, <2>3, <2>4, OptionsAre
  <2>6. DOMAIN q = 1..3 /\ Len(q) = 3 /\ q[1] = a /\ q[2] = b /\ q[3] = c
    BY <2>5
  <2>7. IsKey(a, "pwd", TRUE) /\ IsKey(b, "tls", FALSE) /\ IsKey(c, "tls", FALSE)
    BY <2>1, <2>2, <2>3, KeysAre, Zenon
  <2>8. \A i \in 1..3 : i = 1 \/ i = 2 \/ i = 3
    OBVIOUS
  <2>9. IsDashed(a) /\ Alike(a, a) /\ IsDashed(b) /\ Alike(b, b) /\ IsDashed(c) /\ Alike(c, c)
    BY <2>7, DashedKey, Zenon
  <2>10. a.key[2] = "pwd" /\ b.key[2] = "tls" /\ c.key[2] = "tls" /\ b.valued = c.valued
    BY <2>7, Zenon DEF IsKey
  <2>11. Alike(a, b) /\ Alike(a, c) /\ Alike(b, c) /\ Alike(b, a) /\ Alike(c, a) /\ Alike(c, b)
    <3>1. "pwd" # "tls"
      OBVIOUS
    <3> QED BY <2>10, <3>1, Zenon DEF Alike
  <2>12. \A i \in 1..3 : IsDashed(q[i])
    BY <2>6, <2>8, <2>9
  <2>13. \A i, j \in 1..3 : Alike(q[i], q[j])
    BY <2>6, <2>8, <2>9, <2>11
  <2>14. 3 \in Nat
    OBVIOUS
  <2> QED BY <2>4, <2>6, <2>12, <2>13, <2>14, Zenon DEF HasOptions
<1>2. HasOptions(Bindings["ignore"], 1)
  <2>1. PICK a : a = Opt(Dashed("cur"), FALSE)
    OBVIOUS
  <2>4. PICK q : q = Bindings["ignore"].opts
    OBVIOUS
  <2>5. q = <<a>>
    BY <2>1, <2>4, OptionsAre
  <2>6. DOMAIN q = 1..1 /\ Len(q) = 1 /\ q[1] = a /\ \A i \in 1..1 : i = 1
    BY <2>5
  <2>7. IsDashed(a) /\ Alike(a, a)
    BY <2>1, KeysAre, DashedKey, Zenon
  <2>8. \A i \in 1..1 : IsDashed(q[i])
    BY <2>6, <2>7
  <2>9. \A i, j \in 1..1 : Alike(q[i], q[j])
    BY <2>6, <2>7
  <2>10. 1 \in Nat
    OBVIOUS
  <2> QED BY <2>4, <2>6, <2>8, <2>9, <2>10, Zenon DEF HasOptions
<1>3. ASSUME NEW b, b.opts = <<>> PROVE HasOptions(b, 0)
  <2>1. DOMAIN b.opts = 1..0 /\ Len(b.opts) = 0 /\ \A i \in 1..0 : FALSE
    BY <1>3
  <2>2. 0 \in Nat
    OBVIOUS
  <2> QED BY <2>1, <2>2, Zenon DEF HasOptions
<1> QED BY <1>1, <1>2, <1>3, OptionsAre

LEMMA FirstOptionIs ==
  ASSUME NEW b, NEW n \in Nat, DOMAIN b.opts = 1..n, Len(b.opts) = n, NEW s,
         NEW i \in 1..n, StartsWith(s, b.opts[i].key)
  PROVE  FirstOption(b, s) \in 1..n /\ StartsWith(s, b.opts[FirstOption(b, s)].key)
<1> DEFINE T == {j \in 1..n : StartsWith(s, b.opts[j].key)}
<1>1. FirstOption(b, s) = IF T # {} THEN Min(T) ELSE 0
  BY DEF FirstOption, SelectInSeq
<1>2. T \in SUBSET (1..n) /\ i \in T
  OBVIOUS
<1> HIDE DEF T
<1>3. FirstOption(b, s) \in T
  BY <1>1, <1>2, MinIn
<1> QED BY <1>3 DEF T

LEMMA OptionsKnown ==
  ASSUME NEW name \in DOMAIN Bindings, NEW i \in DOMAIN Bindings[name].opts
  PROVE  IsOption(Bindings[name], Bindings[name].opts[i])
<1>1. PICK b : b = Bindings[name]
  OBVIOUS
<1>2. PICK n : HasOptions(b, n)
  BY <1>1, OptionsOfBindings, BindingsAre, Zenon
<1>3. /\ n \in Nat /\ DOMAIN b.opts = 1..n /\ Len(b.opts) = n
      /\ \A j \in 1..n : IsDashed(b.opts[j])
      /\ \A k, j \in 1..n : Alike(b.opts[k], b.opts[j])
  BY <1>2 DEF HasOptions
<1>4. i \in 1..n
  BY <1>1, <1>3
<1>5. \A j \in 1..n : b.opts[j].key \in Seq(OptionMarks) /\ Len(b.opts[j].key) >= 2 /\ b.opts[j].key[1] = "-"
  BY <1>3, Zenon DEF IsDashed
<1>6. b.opts[i].valued \in BOOLEAN
  BY <1>3, <1>4, Zenon DEF IsDashed
<1>7. IsScriptWord(b.opts[i].key)
  BY <1>1, <1>4, <1>5, KeyIsWord
<1>8. ASSUME NEW s \in Script, StartsWith(s, b.opts[i].key)
      PROVE  /\ FirstOption(b, s) \in DOMAIN b.opts /\ FirstOption(b, s) > 0
             /\ b.opts[FirstOption(b, s)].valued = b.opts[i].valued
  <2>1. PICK j \in 1..n : j = FirstOption(b, s) /\ StartsWith(s, b.opts[j].key)
    BY <1>3, <1>4, <1>8, FirstOptionIs
  <2>2. PICK k \in Seq(OptionMarks) : k = b.opts[i].key /\ Len(k) >= 2
    BY <1>4, <1>5
  <2>3. PICK l \in Seq(OptionMarks) : l = b.opts[j].key /\ Len(l) >= 2
    BY <1>5, <2>1
  <2>4. 2 \in 1..Len(k) /\ 2 \in 1..Len(l)
    <3>1. Len(k) \in Nat /\ Len(l) \in Nat
      BY <2>2, <2>3, LenProperties
    <3> QED BY <2>2, <2>3, <3>1
  <2>5. StartsWith(s, k) /\ StartsWith(s, l)
    BY <1>8, <2>1, <2>2, <2>3
  <2>6. s[2] = k[2]
    BY <2>2, <2>4, <2>5, StartsAt
  <2>7. s[2] = l[2]
    BY <2>3, <2>4, <2>5, StartsAt
  <2>8. b.opts[j].key[2] = b.opts[i].key[2]
    BY <2>2, <2>3, <2>6, <2>7
  <2>9. b.opts[j].valued = b.opts[i].valued
    BY <1>3, <1>4, <2>1, <2>8, Zenon DEF Alike
  <2>10. j > 0 /\ j \in DOMAIN b.opts
    BY <1>3, <2>1
  <2> QED BY <2>1, <2>9, <2>10, Zenon
<1> QED BY <1>1, <1>4, <1>5, <1>6, <1>7, <1>8, Zenon DEF IsOption

-----------------------------------------------------------------------------
(* The options.                                                            *)
OptStart(s) == [ret |-> "ok", keys |-> <<>>, vals |-> <<>>, next |-> s]
NoOption(r) == r \in Trimmed /\ (r = <<>> \/ r[1] # "-")

LEMMA OptionsFold ==
  ASSUME NEW b, NEW s, NEW after, ParseOption(b, OptStart(s)) = after, ParseOption(b, after) = after
  PROVE  ParseOptions(b, s) = EndOptions(after)
<1>1. PICK n \in Nat : n = MaxOpts + 1 /\ n >= 1
  BY MaxOptsAssumption
<1> DEFINE Y == {OptStart(s), after}
           base == OptStart(s)
           W == [i \in 1..MaxOpts + 1 |-> i]
           F == [p \in (1..n) \X Y |-> ParseOption(b, p[2])]
           Next(it, t) == IF t = {} THEN base ELSE ParseOption(b, it[t \ {Max(t)}])
           g == CHOOSE h : h = [t \in SUBSET (1..n) |-> Next(h, t)]
<1>0. DOMAIN W = 1..n
  BY <1>1
<1>02. ParseOptions(b, s) = EndOptions(FoldLeft(LAMBDA p, i : ParseOption(b, p), base, W))
  BY DEF ParseOptions, OptStart
<1> HIDE DEF W, base
<1>3. FoldLeft(LAMBDA p, i : ParseOption(b, p), base, W) = g[1..n]
  BY <1>0 DEF FoldLeft, MapThenFoldSet
<1> USE DEF base
<1>4. base \in Y
  OBVIOUS
<1>03. \A x \in Y : ParseOption(b, x) \in Y /\ ParseOption(b, x) = after
  OBVIOUS
<1> HIDE DEF Y, base
<1>2. Steps(F, Y, n)
  BY <1>03 DEF Steps
<1>5. \A k \in 1..n, x \in Y : F[<<k, x>>] = ParseOption(b, x)
  OBVIOUS
<1> HIDE DEF F
<1>6. PICK it : IsFold(it, Y, n, base, F)
  BY <1>1, <1>2, <1>4, FoldExists
<1>7. it = [t \in SUBSET (1..n) |-> Next(it, t)]
  <2>1. ASSUME NEW t \in SUBSET (1..n), t # {}
        PROVE  it[t] = ParseOption(b, it[t \ {Max(t)}])
    <3>1. Max(t) \in 1..n /\ t \ {Max(t)} \in SUBSET (1..n)
      BY <1>1, <2>1, MaxIn
    <3>2. it[t \ {Max(t)}] \in Y /\ it[t] = F[<<Max(t), it[t \ {Max(t)}]>>]
      BY <1>6, <2>1, <3>1 DEF IsFold
    <3> QED BY <1>5, <3>1, <3>2
  <2>2. \A t \in SUBSET (1..n) : it[t] = Next(it, t)
    BY <1>6, <2>1 DEF IsFold
  <2>3. it = [t \in SUBSET (1..n) |-> it[t]]
    BY <1>6 DEF IsFold
  <2> QED BY <2>2, <2>3
<1>8. g = [t \in SUBSET (1..n) |-> Next(g, t)]
  BY <1>7
<1> HIDE DEF g
<1>9. Recurs(g, Y, n, base, F)
  <2>1. ASSUME NEW t \in SUBSET (1..n), t # {}, g[t \ {Max(t)}] \in Y
        PROVE  g[t] = F[<<Max(t), g[t \ {Max(t)}]>>]
    <3>1. Max(t) \in 1..n
      BY <1>1, <2>1, MaxIn
    <3>2. g[t] = ParseOption(b, g[t \ {Max(t)}])
      BY <1>8, <2>1
    <3> QED BY <1>5, <2>1, <3>1, <3>2
  <2>2. g[{}] = base
    BY <1>8
  <2> QED BY <2>1, <2>2 DEF Recurs
<1>10. PICK f : IsLeftFold(f, g, Y, n, base, F)
  BY <1>1, <1>2, <1>4, <1>9, FoldValues
<1>11. f[n] = after
  <2>1. n \in 1..n /\ n - 1 \in 0..n
    BY <1>1
  <2>2. f[n - 1] \in Y /\ f[n] = F[<<n, f[n - 1]>>]
    BY <1>10, <2>1 DEF IsLeftFold
  <2>3. f[n] = ParseOption(b, f[n - 1])
    BY <1>5, <2>1, <2>2
  <2> QED BY <1>03, <2>2, <2>3
<1>12. g[1..n] = after
  BY <1>10, <1>11 DEF IsLeftFold
<1> QED BY <1>02, <1>3, <1>12

WrittenOpt(o, bare) ==
  o.key \o (IF o.valued THEN <<BLANK>> \o Written(o.value, bare, FALSE) ELSE <<>>)

(* The state of the loop behind one option. *)
OptAfter(o, bare, r) ==
  [ret |-> "ok", keys |-> <<o.key>>, vals |-> <<ReadAs(o.value, bare, FALSE)>>, next |-> r]

IsGiven(b, o) == IsOption(b, o) /\ o.value \in Script /\ (~o.valued => o.value = <<>>)

LEMMA ReadAsNothing == ASSUME NEW bare PROVE ReadAs(<<>>, bare, FALSE) = <<>>
<1>1. ~MayStandBare(<<>>, FALSE)
  BY DEF MayStandBare
<1>2. ReadAs(<<>>, bare, FALSE) = Arrives(<<>>, FALSE)
  BY <1>1 DEF ReadAs, Arrives
<1>3. Arrives(<<>>, FALSE) \in Script /\ Len(Arrives(<<>>, FALSE)) = 0
  <2>1. Len(<<>>) = 0
    OBVIOUS
  <2> QED BY <2>1, EmptyScript, ArrivesIs
<1>4. Arrives(<<>>, FALSE) = <<>>
  BY <1>3, ScriptIs
<1> QED BY <1>2, <1>4, Zenon

LEMMA EndsLike ==
  ASSUME NEW a \in Script, NEW b \in Script, b # <<>>
  PROVE  /\ a \o b \in Script /\ a \o b # <<>> /\ (a \o b)[Len(a \o b)] = b[Len(b)]
         /\ a # <<>> => (a \o b)[1] = a[1]
<1>1. PICK l \in Nat : l = Len(a) /\ (a # <<>> <=> l > 0)
  BY ScriptIs
<1>2. PICK k \in Nat : k = Len(b) /\ k > 0
  BY ScriptIs
<1>3. PICK n \in Nat : n = l + k
  OBVIOUS
<1>4. PICK z : z = a \o b
  OBVIOUS
<1>5. Joined(z, Signs, a, l, b, n)
  <2>1. Joined(a \o b, Signs, a, l, b, n)
    BY <1>1, <1>2, <1>3, JointScript
  <2> QED BY <1>4, <2>1
<1>6. z \in Script /\ Len(z) = n /\ n > 0
  BY <1>2, <1>3, <1>5 DEF Joined, Script
<1>7. z # <<>>
  BY <1>6, ScriptIs
<1>8. z[n] = b[k]
  <2>1. n \in 1..n /\ ~(n <= l) /\ n - l = k
    BY <1>2, <1>3
  <2> QED BY <1>5, <2>1 DEF Joined
<1>9. l > 0 => z[1] = a[1]
  <2>1. 1 \in 1..n /\ (l > 0 => 1 <= l)
    BY <1>6
  <2> QED BY <1>5, <2>1 DEF Joined
<1> QED BY <1>1, <1>2, <1>4, <1>6, <1>7, <1>8, <1>9

LEMMA OptionWritten ==
  ASSUME NEW b, NEW o, IsGiven(b, o), NEW bare \in BOOLEAN
  PROVE  Solid(WrittenOpt(o, bare)) /\ WrittenOpt(o, bare)[1] = "-"
<1>1. IsScriptWord(o.key) /\ o.key[1] = "-" /\ o.value \in Script /\ o.key \in Script /\ o.key # <<>>
  BY DEF IsGiven, IsOption, IsScriptWord
<1>2. PICK x : x = o.key
  OBVIOUS
<1>3. Solid(x) /\ x[1] = "-"
  <2>1. Len(x) \in 1..Len(x) /\ 1 \in 1..Len(x)
    BY <1>1, <1>2, ScriptIs
  <2> QED BY <1>1, <1>2, <2>1 DEF Solid, IsScriptWord
<1>4. CASE ~o.valued
  <2>1. WrittenOpt(o, bare) = x \o <<>>
    BY <1>2, <1>4 DEF WrittenOpt
  <2>2. WrittenOpt(o, bare) = x
    BY <1>1, <1>2, <2>1, ConcatEmptySeq DEF Script
  <2> QED BY <1>3, <2>2
<1>5. CASE o.valued
  <2>1. PICK w : w = Written(o.value, bare, FALSE)
    OBVIOUS
  <2>2. Solid(w)
    BY <1>1, <2>1, WrittenWell, Zenon DEF WellWritten
  <2>3. w \in Script /\ w # <<>> /\ w[Len(w)] # BLANK
    BY <2>2 DEF Solid
  <2>4. PICK z : z = <<BLANK>> \o w
    OBVIOUS
  <2>5. z \in Script /\ z # <<>> /\ z[Len(z)] = w[Len(w)]
    BY <2>3, <2>4, OneBlank, EndsLike
  <2>6. PICK q : q = x \o z
    OBVIOUS
  <2>7. q \in Script /\ q # <<>> /\ q[Len(q)] = z[Len(z)] /\ q[1] = x[1]
    BY <1>3, <2>5, <2>6, EndsLike DEF Solid
  <2>8. Solid(q) /\ q[1] = "-"
    BY <1>3, <2>3, <2>5, <2>7 DEF Solid
  <2>9. WrittenOpt(o, bare) = q
    BY <1>2, <1>5, <2>1, <2>4, <2>6, Zenon DEF WrittenOpt
  <2> QED BY <2>8, <2>9
<1> QED BY <1>4, <1>5

LEMMA OptionTaken ==
  ASSUME NEW b, NEW o, IsOption(b, o), NEW s, NEW t, Leads(s, o.key, t)
  PROVE  /\ ParseOption(b, OptStart(s)) = OptionAt(b, OptStart(s), FirstOption(b, s), ArgTaken(o.key, t))
         /\ FirstOption(b, s) > 0 /\ b.opts[FirstOption(b, s)].valued = o.valued
<1>1. IsScriptWord(o.key) /\ o.key[1] = "-" /\ o.key # <<>> /\ s \in Script
  BY DEF IsOption, IsScriptWord, Leads
<1>2. get_arg(s) = ArgTaken(o.key, t)
  BY <1>1, WordTaken DEF ArgTaken
<1>3. s # <<>> /\ s[1] = "-"
  BY <1>1, LedTrimmed, SignsApart
<1>4. StartsWith(s, o.key)
  BY LedStarts
<1>5. FirstOption(b, s) > 0 /\ b.opts[FirstOption(b, s)].valued = o.valued
  BY <1>1, <1>4, Zenon DEF IsOption
<1>6. OptStart(s).ret = "ok" /\ OptStart(s).next = s
  BY DEF OptStart
<1>7. ParseOption(b, OptStart(s)) = OptionAt(b, OptStart(s), FirstOption(b, s), get_arg(s))
  <2>1. PICK p : p = OptStart(s)
    OBVIOUS
  <2>2. ParseOption(b, p) = OptionAt(b, p, FirstOption(b, p.next), get_arg(p.next))
    BY <1>3, <1>6, <2>1, Zenon DEF ParseOption, FirstOption
  <2> QED BY <1>6, <2>1, <2>2, Zenon
<1> QED BY <1>2, <1>5, <1>7

LEMMA Kept1 ==
  ASSUME NEW s, NEW k, NEW v, NEW r
  PROVE  Keep(OptStart(s), k, v, r) = [ret |-> "ok", keys |-> <<k>>, vals |-> <<v>>, next |-> r]
<1>1. PICK e : e = <<>>
  OBVIOUS
<1>2. PICK a : a = Append(e, k)
  OBVIOUS
<1>3. PICK c : c = Append(e, v)
  OBVIOUS
<1>4. a = <<k>> /\ c = <<v>>
  BY <1>1, <1>2, <1>3
<1>5. PICK p : p = [ret |-> "ok", keys |-> e, vals |-> e, next |-> s]
  OBVIOUS
<1>6. Keep(p, k, v, r) = [ret |-> "ok", keys |-> a, vals |-> c, next |-> r]
  <2>1. p.keys = e /\ p.vals = e
    BY <1>5
  <2>2. Keep(p, k, v, r) = [p EXCEPT !.keys = a, !.vals = c, !.next = r]
    BY <1>2, <1>3, <2>1, Zenon DEF Keep
  <2>3. [p EXCEPT !.keys = a, !.vals = c, !.next = r] = [ret |-> "ok", keys |-> a, vals |-> c, next |-> r]
    <3> DEFINE q == [p EXCEPT !.keys = a, !.vals = c, !.next = r]
    <3>1. p = [x \in {"ret", "keys", "vals", "next"} |-> p[x]] /\ p.ret = "ok"
      BY <1>5
    <3>2. q.ret = "ok" /\ q.keys = a /\ q.vals = c /\ q.next = r
      BY <3>1
    <3>3. q = [x \in {"ret", "keys", "vals", "next"} |-> q[x]]
      BY <3>1
    <3> HIDE DEF q
    <3>4. q = [ret |-> "ok", keys |-> a, vals |-> c, next |-> r]
      BY <3>2, <3>3
    <3> QED BY <3>4 DEF q
  <2> QED BY <2>2, <2>3, Zenon
<1>7. p = OptStart(s)
  BY <1>1, <1>5, Zenon DEF OptStart
<1> QED BY <1>4, <1>6, <1>7, Zenon

(* The option stands at the beginning of s, and is read from there. *)
OptionStands(s, o, bare, y) == s = WrittenOpt(o, bare) \o y
OptionFits(b, s, o, bare, r) == ParseOption(b, OptStart(s)) = OptAfter(o, bare, r)
OptionAlone(b, s, o, bare, r) == ParseOptions(b, s) = OptAfter(o, bare, r)

LEMMA OptionRead ==
  ASSUME NEW b, NEW o, IsGiven(b, o), NEW bare \in BOOLEAN, NEW y, NEW r, Leaves(y, r),
         NEW s, OptionStands(s, o, bare, y)
  PROVE  OptionFits(b, s, o, bare, r)
<1> SUFFICES ParseOption(b, OptStart(s)) = OptAfter(o, bare, r)
  BY Zenon DEF OptionFits
<1>0. s = WrittenOpt(o, bare) \o y
  BY Zenon DEF OptionStands
<1>1. IsOption(b, o) /\ o.key \in Script /\ o.value \in Script /\ y \in Script /\ r \in Trimmed
  BY LeavesTyped DEF IsGiven, IsOption, IsScriptWord, Leaves
<1>2. PICK x \in Script : x = o.key
  BY <1>1
<1>4. CASE ~o.valued
  <2>1. WrittenOpt(o, bare) = x \o <<>>
    BY <1>2, <1>4 DEF WrittenOpt
  <2>2. WrittenOpt(o, bare) = x
    BY <1>1, <1>2, <2>1, ConcatEmptySeq DEF Script
  <2>3. Leads(s, o.key, r)
    BY <1>0, <1>2, <2>2, JoinedLeads
  <2>4. ParseOption(b, OptStart(s)) = OptionAt(b, OptStart(s), FirstOption(b, s), ArgTaken(x, r))
        /\ FirstOption(b, s) > 0 /\ ~b.opts[FirstOption(b, s)].valued
    BY <1>1, <1>2, <1>4, <2>3, OptionTaken
  <2>5. PICK j : j = FirstOption(b, s)
    OBVIOUS
  <2>6. j > 0 /\ j # 0
    <3>1. j > 0
      BY <2>4, <2>5
    <3>2. j # 0
      BY <3>1
    <3> QED BY <3>1, <3>2
  <2>7. ArgTaken(x, r).arg = x /\ ArgTaken(x, r).next = r
    BY DEF ArgTaken
  <2>8. OptionAt(b, OptStart(s), j, ArgTaken(x, r)) = Keep(OptStart(s), x, <<>>, r)
    BY <2>4, <2>5, <2>6, <2>7, Zenon DEF OptionAt
  <2>9. ReadAs(o.value, bare, FALSE) = <<>>
    BY <1>4, ReadAsNothing DEF IsGiven
  <2>10. OptAfter(o, bare, r) = [ret |-> "ok", keys |-> <<x>>, vals |-> << <<>> >>, next |-> r]
    BY <1>2, <2>9, Zenon DEF OptAfter
  <2>11. Keep(OptStart(s), x, <<>>, r) = [ret |-> "ok", keys |-> <<x>>, vals |-> << <<>> >>, next |-> r]
    BY Kept1, Zenon
  <2> QED BY <2>4, <2>5, <2>8, <2>10, <2>11, Zenon
<1>5. CASE o.valued
  <2>1. PICK w : w = Written(o.value, bare, FALSE)
    OBVIOUS
  <2>2. Solid(w) /\ w[1] # "-" /\ w \in Script /\ w # <<>> /\ w[1] # BLANK
    <3>1. WellWritten(o.value, bare, FALSE)
      BY <1>1, WrittenWell, Zenon
    <3> QED BY <2>1, <3>1 DEF WellWritten, Solid
  <2>3. PICK t : t = w \o y
    OBVIOUS
  <2>4. Leads(t, w, r)
    BY <2>2, <2>3, JoinedLeads
  <2>5. t \in Trimmed /\ t # <<>> /\ t[1] = w[1]
    BY <2>2, <2>4, LedTrimmed
  <2>6. Leaves(<<BLANK>> \o t, t)
    BY <2>2, <2>3, PartBefore
  <2>7. s = x \o (<<BLANK>> \o t)
    <3>1. PICK z : z = <<BLANK>> \o w
      OBVIOUS
    <3>2. z \in Script
      BY <2>2, <3>1, OneBlank, GluedScript
    <3>3. WrittenOpt(o, bare) = x \o z
      BY <1>2, <1>5, <2>1, <3>1, Zenon DEF WrittenOpt
    <3>4. Regroups(x, z, y)
      BY <1>1, <1>2, <3>2, GluedTwice
    <3>5. Regroups(<<BLANK>>, w, y)
      BY <1>1, <2>2, OneBlank, GluedTwice
    <3> QED BY <1>0, <2>3, <3>1, <3>3, <3>4, <3>5, Zenon DEF Regroups
  <2>8. Leads(s, o.key, t)
    BY <1>2, <2>6, <2>7, JoinedLeads
  <2>9. ParseOption(b, OptStart(s)) = OptionAt(b, OptStart(s), FirstOption(b, s), ArgTaken(x, t))
        /\ FirstOption(b, s) > 0 /\ b.opts[FirstOption(b, s)].valued
    BY <1>1, <1>2, <1>5, <2>8, OptionTaken
  <2>10. PICK j : j = FirstOption(b, s)
    OBVIOUS
  <2>11. j > 0 /\ j # 0
    <3>1. j > 0
      BY <2>9, <2>10
    <3>2. j # 0
      BY <3>1
    <3> QED BY <3>1, <3>2
  <2>12. ArgTaken(x, t).arg = x /\ ArgTaken(x, t).next = t
    BY DEF ArgTaken
  <2>13. OptionAt(b, OptStart(s), j, ArgTaken(x, t)) = WithValue(OptStart(s), x, get_quote_arg(t))
    BY <2>2, <2>5, <2>9, <2>10, <2>11, <2>12, Zenon DEF OptionAt
  <2>14. PICK v : v = ReadAs(o.value, bare, FALSE)
    OBVIOUS
  <2>15. get_quote_arg(t) = ArgTaken(v, r)
    <3>1. Leads(t, Written(o.value, bare, FALSE), r)
      BY <2>1, <2>4
    <3>2. ReadsTo(t, o.value, bare, r)
      BY <1>1, <3>1, WrittenTaken, Zenon
    <3> QED BY <2>14, <3>2, Zenon DEF ReadsTo
  <2>16. ArgTaken(v, r).ok /\ ArgTaken(v, r).arg = v /\ ArgTaken(v, r).next = r
    BY DEF ArgTaken
  <2>17. WithValue(OptStart(s), x, ArgTaken(v, r)) = Keep(OptStart(s), x, v, r)
    BY <2>16, Zenon DEF WithValue
  <2>18. OptAfter(o, bare, r) = [ret |-> "ok", keys |-> <<x>>, vals |-> <<v>>, next |-> r]
    BY <1>2, <2>14, Zenon DEF OptAfter
  <2>19. Keep(OptStart(s), x, v, r) = [ret |-> "ok", keys |-> <<x>>, vals |-> <<v>>, next |-> r]
    BY Kept1, Zenon
  <2> QED BY <2>9, <2>10, <2>13, <2>15, <2>17, <2>18, <2>19, Zenon
<1> QED BY <1>4, <1>5

LEMMA NoMoreOptions ==
  ASSUME NEW b, NEW r, NoOption(r), NEW p, p.next = r
  PROVE  ParseOption(b, p) = p
BY DEF ParseOption, NoOption

LEMMA OptionsEnd ==
  ASSUME NEW p, NEW n \in Nat, n = Len(p.keys), n < MaxOpts
  PROVE  EndOptions(p) = p
<1>1. ~(Len(p.keys) > MaxOpts) /\ Len(p.keys) # MaxOpts
  BY MaxOptsAssumption
<1> QED BY <1>1, Zenon DEF EndOptions

LEMMA OptionsRead ==
  ASSUME NEW b, NEW r, NoOption(r)
  PROVE  /\ MaxOpts > 0 => ParseOptions(b, r) = OptStart(r)
         /\ \A o, bare, s : OptionFits(b, s, o, bare, r) /\ MaxOpts > 1 => OptionAlone(b, s, o, bare, r)
<1>1. ASSUME MaxOpts > 0 PROVE ParseOptions(b, r) = OptStart(r)
  <2>1. OptStart(r).next = r /\ Len(OptStart(r).keys) = 0
    BY DEF OptStart
  <2>2. ParseOption(b, OptStart(r)) = OptStart(r)
    BY <2>1, NoMoreOptions
  <2>3. EndOptions(OptStart(r)) = OptStart(r)
    <3>1. PICK n \in Nat : n = 0
      OBVIOUS
    <3>2. n = Len(OptStart(r).keys) /\ n < MaxOpts
      BY <1>1, <2>1, <3>1
    <3> QED BY <3>2, OptionsEnd
  <2> QED BY <2>2, <2>3, OptionsFold
<1>2. ASSUME NEW o, NEW bare, NEW s, OptionFits(b, s, o, bare, r), MaxOpts > 1
      PROVE  OptionAlone(b, s, o, bare, r)
  <2>1. OptAfter(o, bare, r).next = r /\ Len(OptAfter(o, bare, r).keys) = 1
    BY DEF OptAfter
  <2>2. ParseOption(b, OptAfter(o, bare, r)) = OptAfter(o, bare, r)
    BY <2>1, NoMoreOptions
  <2>3. EndOptions(OptAfter(o, bare, r)) = OptAfter(o, bare, r)
    <3>1. PICK n \in Nat : n = 1
      OBVIOUS
    <3>2. n = Len(OptAfter(o, bare, r).keys) /\ n < MaxOpts
      BY <1>2, <2>1, <3>1
    <3> QED BY <3>2, OptionsEnd
  <2>4. ParseOption(b, OptStart(s)) = OptAfter(o, bare, r)
    BY <1>2, Zenon DEF OptionFits
  <2>5. ParseOptions(b, s) = OptAfter(o, bare, r)
    BY <2>2, <2>3, <2>4, OptionsFold
  <2> QED BY <2>5, Zenon DEF OptionAlone
<1> QED BY <1>1, <1>2

-----------------------------------------------------------------------------
(* The subcommand.                                                         *)
SubStart(s) == [sub |-> NoSub, next |-> s]
SubStep(p, word) ==
  IF p.next # <<>> /\ StartsWith(p.next, <<word>>) THEN SubFound(get_arg(p.next)) ELSE p
SubAfter(sub, r) == [sub |-> sub, next |-> r]

AreSubs(f, b, s, n, after) ==
  /\ f \in [0..n -> {SubStart(s), after}] /\ f[0] = SubStart(s) /\ f[n] = ParseSub(b, s)
  /\ \A k \in 1..n : f[k] = SubStep(f[k - 1], b.sub[k])

StaysWithin(b, s, n, after) ==
  \A k \in 1..n : /\ SubStep(SubStart(s), b.sub[k]) \in {SubStart(s), after}
                  /\ SubStep(after, b.sub[k]) = after

LEMMA SubsFold ==
  ASSUME NEW b, NEW n \in Nat, DOMAIN b.sub = 1..n, NEW s, NEW after, StaysWithin(b, s, n, after)
  PROVE  \E f : AreSubs(f, b, s, n, after)
<1> DEFINE Y == {SubStart(s), after}
           base == SubStart(s)
           F == [p \in (1..n) \X Y |-> SubStep(p[2], b.sub[p[1]])]
           Next(it, t) == IF t = {} THEN base ELSE SubStep(it[t \ {Max(t)}], b.sub[Max(t)])
           g == CHOOSE h : h = [t \in SUBSET (1..n) |-> Next(h, t)]
<1>02. ParseSub(b, s) = FoldLeft(LAMBDA p, w : SubStep(p, w), base, b.sub)
  BY DEF ParseSub, SubStep, SubStart
<1> HIDE DEF base
<1>3. ParseSub(b, s) = g[1..n]
  BY <1>02 DEF FoldLeft, MapThenFoldSet
<1> USE DEF base
<1>4. base \in Y
  OBVIOUS
<1>03. \A k \in 1..n, x \in Y : SubStep(x, b.sub[k]) \in Y
  BY DEF StaysWithin
<1> HIDE DEF Y, base
<1>1. Steps(F, Y, n)
  BY <1>03 DEF Steps
<1>2. \A k \in 1..n, x \in Y : F[<<k, x>>] = SubStep(x, b.sub[k])
  OBVIOUS
<1> HIDE DEF F
<1>5. PICK it : IsFold(it, Y, n, base, F)
  BY <1>1, <1>4, FoldExists
<1>6. it = [t \in SUBSET (1..n) |-> Next(it, t)]
  <2>1. ASSUME NEW t \in SUBSET (1..n), t # {}
        PROVE  it[t] = SubStep(it[t \ {Max(t)}], b.sub[Max(t)])
    <3>1. Max(t) \in 1..n /\ t \ {Max(t)} \in SUBSET (1..n)
      BY <2>1, MaxIn
    <3>2. it[t \ {Max(t)}] \in Y /\ it[t] = F[<<Max(t), it[t \ {Max(t)}]>>]
      BY <1>5, <2>1, <3>1 DEF IsFold
    <3> QED BY <1>2, <3>1, <3>2
  <2>2. \A t \in SUBSET (1..n) : it[t] = Next(it, t)
    BY <1>5, <2>1 DEF IsFold
  <2>3. it = [t \in SUBSET (1..n) |-> it[t]]
    BY <1>5 DEF IsFold
  <2> QED BY <2>2, <2>3
<1>7. g = [t \in SUBSET (1..n) |-> Next(g, t)]
  BY <1>6
<1> HIDE DEF g
<1>8. Recurs(g, Y, n, base, F)
  <2>1. ASSUME NEW t \in SUBSET (1..n), t # {}, g[t \ {Max(t)}] \in Y
        PROVE  g[t] = F[<<Max(t), g[t \ {Max(t)}]>>]
    <3>1. Max(t) \in 1..n
      BY <2>1, MaxIn
    <3>2. g[t] = SubStep(g[t \ {Max(t)}], b.sub[Max(t)])
      BY <1>7, <2>1
    <3> QED BY <1>2, <2>1, <3>1, <3>2
  <2>2. g[{}] = base
    BY <1>7
  <2> QED BY <2>1, <2>2 DEF Recurs
<1>9. PICK f : IsLeftFold(f, g, Y, n, base, F)
  BY <1>1, <1>4, <1>8, FoldValues
<1>10. f \in [0..n -> Y] /\ f[0] = base /\ f[n] = ParseSub(b, s)
  BY <1>3, <1>9 DEF IsLeftFold
<1>11. ASSUME NEW k \in 1..n PROVE f[k] = SubStep(f[k - 1], b.sub[k])
  <2>1. k - 1 \in 0..n
    OBVIOUS
  <2>2. f[k - 1] \in Y /\ f[k] = F[<<k, f[k - 1]>>]
    BY <1>9, <1>10, <2>1 DEF IsLeftFold
  <2> QED BY <1>2, <2>2
<1> QED BY <1>10, <1>11 DEF AreSubs, Y, base

LEMMA NoSubs == ASSUME NEW b, b.sub = <<>>, NEW s PROVE ParseSub(b, s) = SubStart(s)
<1>1. DOMAIN b.sub = 1..0 /\ 0 \in Nat /\ \A k \in 1..0 : FALSE
  OBVIOUS
<1>2. StaysWithin(b, s, 0, SubStart(s))
  BY <1>1, Zenon DEF StaysWithin
<1>3. PICK f : AreSubs(f, b, s, 0, SubStart(s))
  BY <1>1, <1>2, SubsFold
<1> QED BY <1>3 DEF AreSubs

LEMMA StartsOne ==
  ASSUME NEW s \in Script, s # <<>>, NEW w
  PROVE  StartsWith(s, <<w>>) <=> s[1] = w
<1>1. PICK n \in Nat : n = Len(s) /\ n > 0 /\ s[1] \in Signs
  BY ScriptIs
<1>2. PICK a : a = SubSeq(s, 1, 1)
  OBVIOUS
<1>3. a \in Seq(Signs) /\ Len(a) = 1 /\ a[1] = s[1]
  <2>1. \A i \in 1..1 : s[i] \in Signs
    BY <1>1
  <2>2. 1 \in Nat /\ 1 - 1 + 1 = 1 /\ 1 \in 1..1
    OBVIOUS
  <2> QED BY <1>1, <1>2, <2>1, <2>2, SubSeqProperties
<1>4. a = <<s[1]>>
  BY <1>3
<1>5. Len(<<w>>) = 1
  OBVIOUS
<1>6. StartsWith(s, <<w>>) <=> a = <<w>>
  BY <1>1, <1>2, <1>5 DEF StartsWith
<1> QED BY <1>4, <1>6

(* The rest of the line does not begin with a subcommand. *)
Beyond(r, b) == r \in Trimmed /\ (r = <<>> \/ r[1] \notin ToSet(b.sub))

LEMMA SubRead ==
  ASSUME NEW b, NEW n \in Nat, DOMAIN b.sub = 1..n, NEW j \in 1..n, NEW s, NEW r, Beyond(r, b),
         IsScriptWord(<<b.sub[j]>>), Leads(s, <<b.sub[j]>>, r)
  PROVE  ParseSub(b, s) = SubAfter(b.sub[j], r)
<1>1. PICK w : w = b.sub[j]
  OBVIOUS
<1>2. PICK x : x = <<w>>
  OBVIOUS
<1>3. /\ x \in Script /\ x # <<>> /\ x[1] = w /\ x[1] # BLANK
      /\ IsScriptWord(x) /\ Leads(s, x, r) /\ s \in Script
  <2>1. Len(x) = 1 /\ x[1] = w /\ x # <<>>
    BY <1>2
  <2>2. IsScriptWord(x) /\ Leads(s, x, r)
    BY <1>1, <1>2
  <2>3. 1 \in 1..Len(x)
    BY <2>1
  <2> QED BY <2>1, <2>2, <2>3 DEF IsScriptWord, Leads
<1>4. s # <<>> /\ s[1] = w
  BY <1>3, LedTrimmed
<1>5. get_arg(s) = ArgTaken(x, r)
  BY <1>3, WordTaken DEF ArgTaken
<1>6. SubFound(get_arg(s)) = SubAfter(w, r)
  <2>1. ArgTaken(x, r).arg = x /\ ArgTaken(x, r).next = r
    BY DEF ArgTaken
  <2> QED BY <1>3, <1>5, <2>1, Zenon DEF SubFound, SubAfter
<1>7. SubStart(s).next = s /\ SubAfter(w, r).next = r
  BY DEF SubStart, SubAfter
<1>8. ASSUME NEW v
      PROVE  SubStep(SubStart(s), v) = IF v = w THEN SubAfter(w, r) ELSE SubStart(s)
  <2>1. StartsWith(s, <<v>>) <=> v = w
    BY <1>3, <1>4, StartsOne
  <2> QED BY <1>4, <1>6, <1>7, <2>1, Zenon DEF SubStep
<1>9. ASSUME NEW k \in 1..n PROVE SubStep(SubAfter(w, r), b.sub[k]) = SubAfter(w, r)
  <2>1. CASE r = <<>>
    BY <1>7, <2>1, Zenon DEF SubStep
  <2>2. CASE r # <<>>
    <3>1. b.sub[k] \in ToSet(b.sub)
      BY DEF ToSet
    <3>2. r \in Script /\ r[1] # b.sub[k]
      BY <2>2, <3>1 DEF Beyond, Trimmed
    <3>3. ~StartsWith(r, <<b.sub[k]>>)
      BY <2>2, <3>2, StartsOne
    <3> QED BY <1>7, <3>3, Zenon DEF SubStep
  <2> QED BY <2>1, <2>2
<1>10. StaysWithin(b, s, n, SubAfter(w, r))
  BY <1>8, <1>9 DEF StaysWithin
<1>11. PICK f : AreSubs(f, b, s, n, SubAfter(w, r))
  BY <1>10, SubsFold
<1>12. /\ f \in [0..n -> {SubStart(s), SubAfter(w, r)}] /\ f[n] = ParseSub(b, s)
       /\ \A k \in 1..n : f[k] = SubStep(f[k - 1], b.sub[k])
  BY <1>11 DEF AreSubs
<1> DEFINE S == {k \in 0..n : k >= j => f[k] = SubAfter(w, r)}
<1>13. 0 \in S
  OBVIOUS
<1>14. ASSUME NEW k \in 0..n, k < n, k \in S PROVE k + 1 \in S
  <2>1. PICK i \in 1..n : i = k + 1 /\ i - 1 = k
    BY <1>14
  <2>2. f[i] = SubStep(f[k], b.sub[i]) /\ f[k] \in {SubStart(s), SubAfter(w, r)}
    BY <1>12, <2>1
  <2>3. CASE i < j
    BY <2>1, <2>3
  <2>4. CASE i = j
    <3>1. b.sub[i] = w
      BY <1>1, <2>4
    <3>2. f[i] = SubAfter(w, r)
      BY <1>8, <1>9, <2>2, <3>1
    <3> QED BY <2>1, <3>2
  <2>5. CASE i > j
    <3>1. k >= j
      BY <2>1, <2>5
    <3>2. f[k] = SubAfter(w, r)
      BY <1>14, <3>1
    <3>3. f[i] = SubAfter(w, r)
      BY <1>9, <2>2, <3>2
    <3> QED BY <2>1, <3>3
  <2> QED BY <2>3, <2>4, <2>5
<1> HIDE DEF S
<1>15. \A k \in 0..n : k \in S
  BY <1>13, <1>14, BoundedInduction
<1>16. n \in 0..n /\ n >= j
  OBVIOUS
<1>17. f[n] = SubAfter(w, r)
  BY <1>15, <1>16 DEF S
<1> QED BY <1>1, <1>12, <1>17

-----------------------------------------------------------------------------
(* The line as a whole does not end with a blank. *)
Ended(y) == y \in Script /\ (y # <<>> => y[Len(y)] # BLANK)

LEMMA EndedBefore ==
  ASSUME NEW x, Solid(x), NEW y, Ended(y)
  PROVE  Ended(x \o y) /\ Ended(<<BLANK>> \o (x \o y))
<1>1. x \in Script /\ x # <<>> /\ x[Len(x)] # BLANK /\ y \in Script
  BY DEF Solid, Ended
<1>2. PICK z : z = x \o y
  OBVIOUS
<1>3. z \in Script /\ z # <<>> /\ z[Len(z)] # BLANK
  <2>1. CASE y = <<>>
    <3>1. z = x
      BY <1>1, <1>2, <2>1, ConcatEmptySeq DEF Script
    <3> QED BY <1>1, <3>1
  <2>2. CASE y # <<>>
    <3>1. x \o y \in Script /\ x \o y # <<>> /\ (x \o y)[Len(x \o y)] = y[Len(y)]
      BY <1>1, <2>2, EndsLike
    <3> QED BY <1>2, <2>2, <3>1 DEF Ended
  <2> QED BY <2>1, <2>2
<1>4. PICK q : q = <<BLANK>> \o z
  OBVIOUS
<1>5. q \in Script /\ q[Len(q)] = z[Len(z)]
  BY <1>3, <1>4, OneBlank, EndsLike
<1>6. Ended(z) /\ Ended(q)
  BY <1>3, <1>5 DEF Ended
<1> QED BY <1>2, <1>4, <1>6

LEMMA ChainEnded ==
  ASSUME NEW n \in Nat, NEW W, AreParts(W, n), NEW y, NEW r, NEW R, NEW Y, Chain(R, Y, W, n, y, r), Ended(y)
  PROVE  Ended(Y[0]) /\ Leaves(Y[0], R[0])
<1>1. /\ Y[n] = y /\ \A k \in 0..n : Leaves(Y[k], R[k])
      /\ \A k \in 1..n : R[k - 1] = W[k] \o Y[k]
  BY DEF Chain
<1> DEFINE S == {j \in 0..n : Ended(Y[n - j])}
<1>2. 0 \in S
  <2>1. n - 0 = n
    OBVIOUS
  <2> QED BY <1>1, <2>1
<1>3. ASSUME NEW j \in 0..n, j < n, j \in S PROVE j + 1 \in S
  <2>1. PICK k \in 1..n : k = n - j /\ k - 1 = n - (j + 1) /\ k - 1 \in 0..n /\ k \in 0..n
    BY <1>3
  <2>2. Ended(Y[k]) /\ Leaves(Y[k], R[k]) /\ Leaves(Y[k - 1], R[k - 1]) /\ R[k - 1] = W[k] \o Y[k]
    BY <1>1, <1>3, <2>1
  <2>3. Solid(W[k])
    BY DEF AreParts
  <2>4. R[k - 1] # <<>>
    <3>1. PICK z : z = W[k] \o Y[k]
      OBVIOUS
    <3>2. W[k] \in Script /\ W[k] # <<>> /\ W[k][1] # BLANK
      BY <2>3 DEF Solid
    <3>3. Leads(z, W[k], R[k])
      BY <2>2, <3>1, <3>2, JoinedLeads
    <3>4. z # <<>>
      BY <3>2, <3>3, LedTrimmed
    <3> QED BY <2>2, <3>1, <3>4
  <2>5. Y[k - 1] = <<BLANK>> \o (W[k] \o Y[k])
    BY <2>2, <2>4, Zenon DEF Leaves
  <2>6. Ended(Y[k - 1])
    BY <2>2, <2>3, <2>5, EndedBefore
  <2>7. j + 1 \in 0..n
    BY <1>3
  <2> QED BY <2>1, <2>6, <2>7
<1> HIDE DEF S
<1>4. \A j \in 0..n : j \in S
  BY <1>2, <1>3, BoundedInduction
<1>5. n \in S /\ n - n = 0 /\ 0 \in 0..n
  BY <1>4
<1>6. Ended(Y[0])
  BY <1>5 DEF S
<1> QED BY <1>1, <1>5, <1>6

-----------------------------------------------------------------------------
(* A whole line.                                                           *)

(* A name is one word, and so is a subcommand, which is neither quoted nor *)
(* an option.                                                              *)
IsName(w) == IsScriptWord(<<w>>) /\ w # NoSub /\ w # QUOTE /\ w # "-"
IsBound(name, b, n) ==
  /\ IsScriptWord(<<name>>) /\ b.argc \in Nat
  /\ n \in Nat /\ DOMAIN b.sub = 1..n /\ (n = 0 => b.sub = <<>>) /\ (n > 0 => b.sub # <<>>)
  /\ \A i \in 1..n : IsName(b.sub[i])

LEMMA OneWord == ASSUME NEW w \in Signs, w # BLANK PROVE IsScriptWord(<<w>>)
<1>1. PICK x : x = <<w>>
  OBVIOUS
<1>2. x \in Script /\ Len(x) = 1 /\ x[1] = w
  BY <1>1 DEF Script
<1>3. x # <<>> /\ \A i \in 1..Len(x) : x[i] # BLANK
  BY <1>2
<1>4. IsScriptWord(x)
  BY <1>2, <1>3 DEF IsScriptWord
<1> QED BY <1>1, <1>4

LEMMA SubsAre ==
  /\ Bindings["pattern"].sub = <<"add", "rm", "list">>
  /\ Bindings["connect"].sub = <<>> /\ Bindings["ignore"].sub = <<>>
  /\ Bindings["kick"].sub = <<>> /\ Bindings["reload"].sub = <<>>
<1>1. Bindings["pattern"].sub = <<"add", "rm", "list">>
  BY Zenon DEF Bindings, Binding
<1>2. Bindings["connect"].sub = <<>>
  BY Zenon DEF Bindings, Binding
<1>3. Bindings["ignore"].sub = <<>>
  BY Zenon DEF Bindings, Binding
<1>4. Bindings["kick"].sub = <<>>
  BY Zenon DEF Bindings, Binding
<1>5. Bindings["reload"].sub = <<>>
  BY Zenon DEF Bindings, Binding
<1> QED BY <1>1, <1>2, <1>3, <1>4, <1>5, Zenon

LEMMA CountsAre ==
  /\ Bindings["connect"].argc = 2 /\ Bindings["pattern"].argc = 2 /\ Bindings["ignore"].argc = 1
  /\ Bindings["kick"].argc = 3 /\ Bindings["reload"].argc = 0
<1>1. Bindings["connect"].argc = 2
  BY Zenon DEF Bindings, Binding
<1>2. Bindings["pattern"].argc = 2
  BY Zenon DEF Bindings, Binding
<1>3. Bindings["ignore"].argc = 1
  BY Zenon DEF Bindings, Binding
<1>4. Bindings["kick"].argc = 3
  BY Zenon DEF Bindings, Binding
<1>5. Bindings["reload"].argc = 0
  BY Zenon DEF Bindings, Binding
<1> QED BY <1>1, <1>2, <1>3, <1>4, <1>5

LEMMA NamesApart ==
  /\ \A name \in DOMAIN Bindings : name # BLANK
  /\ \A w \in {"add", "rm", "list"} : w # BLANK /\ w # NoSub /\ w # QUOTE /\ w # "-"
<1>1. DOMAIN Bindings = {"connect", "pattern", "ignore", "kick", "reload"}
  BY BindingsAre
<1>2. \A name \in {"connect", "pattern", "ignore", "kick", "reload"} : name # BLANK
  BY Zenon DEF BLANK
<1>3. \A w \in {"add", "rm", "list"} : w # BLANK /\ w # NoSub /\ w # QUOTE /\ w # "-"
  BY Zenon DEF BLANK, NoSub, QUOTE
<1> QED BY <1>1, <1>2, <1>3, Zenon

LEMMA NamesBound ==
  ASSUME NEW name \in DOMAIN Bindings
  PROVE  \E n : IsBound(name, Bindings[name], n)
<1>1. PICK b : b = Bindings[name]
  OBVIOUS
<1>2. IsScriptWord(<<name>>)
  <2>1. name \in Signs
    BY DEF Signs
  <2>2. name # BLANK
    BY NamesApart
  <2> QED BY <2>1, <2>2, OneWord
<1>3. b.argc \in Nat
  <2>1. 0 \in Nat /\ 1 \in Nat /\ 2 \in Nat /\ 3 \in Nat
    OBVIOUS
  <2> QED BY <1>1, <2>1, CountsAre, BindingsAre, Zenon
<1>4. CASE name # "pattern"
  <2>1. b.sub = <<>>
    BY <1>1, <1>4, SubsAre, BindingsAre, Zenon
  <2>2. 0 \in Nat /\ DOMAIN b.sub = 1..0 /\ ~(0 > 0) /\ \A i \in 1..0 : FALSE
    BY <2>1
  <2>3. IsBound(name, b, 0)
    BY <1>2, <1>3, <2>1, <2>2, Zenon DEF IsBound
  <2> QED BY <1>1, <2>3
<1>5. CASE name = "pattern"
  <2>1. PICK q : q = b.sub
    OBVIOUS
  <2>2. q = <<"add", "rm", "list">>
    BY <1>1, <1>5, <2>1, SubsAre, Zenon
  <2>3. DOMAIN q = 1..3 /\ q # <<>> /\ \A i \in 1..3 : q[i] \in {"add", "rm", "list"}
    BY <2>2
  <2>4. 3 \in Nat /\ 3 # 0
    OBVIOUS
  <2>5. ASSUME NEW i \in 1..3 PROVE IsName(q[i])
    <3>1. PICK w : w = q[i]
      OBVIOUS
    <3>2. w # BLANK /\ w # NoSub /\ w # QUOTE /\ w # "-"
      BY <2>3, <3>1, NamesApart
    <3>3. w \in ToSet(q)
      BY <2>3, <3>1 DEF ToSet
    <3>4. w \in Signs
      BY <1>1, <2>1, <3>3 DEF Signs
    <3>5. IsScriptWord(<<w>>)
      BY <3>2, <3>4, OneWord
    <3> QED BY <3>1, <3>2, <3>5 DEF IsName
  <2>6. IsBound(name, b, 3)
    BY <1>2, <1>3, <2>1, <2>3, <2>4, <2>5, Zenon DEF IsBound
  <2> QED BY <1>1, <2>6
<1> QED BY <1>4, <1>5

(* What the user may want of a command with binding b. *)
IsCommand(b, m, na) ==
  /\ na \in 0..b.argc /\ (na = b.argc \/ b.omit) /\ AreTexts(m.args, na)
  /\ (b.sub = <<>> /\ m.sub = NoSub) \/ (b.sub # <<>> /\ m.sub \in ToSet(b.sub))
  /\ m.opts = <<>> \/ \E o : IsGiven(b, o) /\ m.opts = <<o>>

LEMMA GivenIs ==
  ASSUME NEW b, NEW o, IsOption(b, o), NEW v \in Values
  PROVE  IsGiven(b, Given(o, v))
<1>1. PICK q : q = Given(o, v)
  OBVIOUS
<1>2. q.key = o.key /\ q.valued = o.valued /\ q.value = IF o.valued THEN v ELSE <<>>
  BY <1>1 DEF Given
<1>3. IsOption(b, q)
  BY <1>2, Zenon DEF IsOption
<1>4. q.value \in Script
  BY <1>2, ValuesAreScript, EmptyScript
<1>5. ~q.valued => q.value = <<>>
  BY <1>2
<1> QED BY <1>1, <1>3, <1>4, <1>5, Zenon DEF IsGiven

LEMMA TextsAre ==
  ASSUME NEW b, NEW opts, b.argc \in Nat, NEW args \in ArgumentLists(b, opts)
  PROVE  \E na \in 0..b.argc : (na = b.argc \/ b.omit) /\ AreTexts(args, na)
<1>1. PICK na \in (IF b.omit THEN 0..b.argc ELSE {b.argc}) :
        args \in [1..na -> Values] \/ args \in [1..na -> {v \in Values : Len(v) < 2}]
  BY DEF ArgumentLists
<1>2. na \in 0..b.argc /\ (na = b.argc \/ b.omit)
  BY <1>1
<1>3. args \in [1..na -> Values]
  BY <1>1
<1>4. DOMAIN args = 1..na /\ Len(args) = na /\ \A k \in 1..na : args[k] \in Script
  <2>1. args \in [1..na -> Script] /\ na \in Nat
    BY <1>2, <1>3, ValuesAreScript
  <2> QED BY <2>1
<1> QED BY <1>2, <1>4 DEF AreTexts

LEMMA Commanded ==
  ASSUME NEW name \in DOMAIN Bindings, NEW m \in CommandsOf(name), Len(m.opts) < MaxOpts
  PROVE  m.name = name /\ \E na : IsCommand(Bindings[name], m, na)
<1>1. PICK b : b = Bindings[name]
  OBVIOUS
<1>2. b.argc \in Nat
  BY <1>1, NamesBound DEF IsBound
<1>3. PICK os \in OptionLists(b), s \in (IF b.sub = <<>> THEN {NoSub} ELSE ToSet(b.sub)) :
        \E as \in ArgumentLists(b, os) : m = [name |-> name, sub |-> s, opts |-> os, args |-> as]
  BY <1>1 DEF CommandsOf
<1>9. PICK as \in ArgumentLists(b, os) : m = [name |-> name, sub |-> s, opts |-> os, args |-> as]
  BY <1>3
<1>4. m.name = name /\ m.sub = s /\ m.opts = os /\ m.args = as
  BY <1>9
<1>5. PICK na \in 0..b.argc : (na = b.argc \/ b.omit) /\ AreTexts(as, na)
  BY <1>2, TextsAre
<1>6. (b.sub = <<>> /\ s = NoSub) \/ (b.sub # <<>> /\ s \in ToSet(b.sub))
  OBVIOUS
<1>7. os = <<>> \/ \E o : IsGiven(b, o) /\ os = <<o>>
  <2>1. ASSUME NEW o, os = [i \in 1..MaxOpts |-> o] PROVE FALSE
    <3>1. Len(os) = MaxOpts
      BY <2>1, MaxOptsAssumption
    <3> QED BY <1>4, <3>1, MaxOptsAssumption
  <2>2. \/ os = <<>>
        \/ \E i \in DOMAIN b.opts, v \in Values : os = <<Given(b.opts[i], v)>>
        \/ \E o : os = [i \in 1..MaxOpts |-> o]
    BY DEF OptionLists
  <2>3. ASSUME NEW i \in DOMAIN b.opts, NEW v \in Values PROVE IsGiven(b, Given(b.opts[i], v))
    <3>1. IsOption(b, b.opts[i])
      BY <1>1, OptionsKnown
    <3> QED BY <3>1, GivenIs
  <2> QED BY <2>1, <2>2, <2>3, Zenon
<1>8. IsCommand(b, m, na)
  BY <1>4, <1>5, <1>6, <1>7, Zenon DEF IsCommand
<1> QED BY <1>1, <1>4, <1>8

WrittenOpts(opts, bare) == [i \in DOMAIN opts |-> WrittenOpt(opts[i], bare)]
SubPart(sub) == IF sub = NoSub THEN <<>> ELSE <<BLANK, sub>>

LEMMA LineIs ==
  ASSUME NEW m, NEW bare
  PROVE  LineFor(m, bare) =
           ((<<m.name>> \o SubPart(m.sub)) \o Spaced(WrittenOpts(m.opts, bare)))
             \o Spaced(WrittenArgs(m.args, Bindings[m.name].argc, bare))
BY Zenon DEF LineFor, SubPart, WrittenOpts, WrittenOpt, WrittenArgs

LEMMA WordSolid == ASSUME NEW x, IsScriptWord(x) PROVE Solid(x)
<1>1. x \in Script /\ x # <<>> /\ Len(x) \in 1..Len(x) /\ 1 \in 1..Len(x)
  <2>1. x \in Script /\ x # <<>>
    BY DEF IsScriptWord
  <2>2. Len(x) \in Nat /\ Len(x) # 0
    BY <2>1, ScriptIs
  <2> QED BY <2>1, <2>2
<1> QED BY <1>1 DEF IsScriptWord, Solid

LEMMA SpacedTyped == ASSUME NEW n \in Nat, NEW W, AreParts(W, n) PROVE Spaced(W) \in Script
<1>1. PICK f : IsSpaced(f, W, n)
  BY SpacedFold
<1>2. n \in 0..n
  OBVIOUS
<1> QED BY <1>1, <1>2 DEF IsSpaced

LEMMA OptionParts ==
  ASSUME NEW b, NEW m, NEW na, IsCommand(b, m, na), NEW bare \in BOOLEAN
  PROVE  \/ m.opts = <<>> /\ AreParts(WrittenOpts(m.opts, bare), 0)
         \/ \E o : /\ IsGiven(b, o) /\ m.opts = <<o>> /\ AreParts(WrittenOpts(m.opts, bare), 1)
                   /\ WrittenOpts(m.opts, bare)[1] = WrittenOpt(o, bare)
<1>1. PICK W : W = WrittenOpts(m.opts, bare)
  OBVIOUS
<1>2. CASE m.opts = <<>>
  <2>1. W = <<>>
    BY <1>1, <1>2 DEF WrittenOpts
  <2>2. DOMAIN W = 1..0 /\ Len(W) = 0 /\ \A k \in 1..0 : FALSE
    BY <2>1
  <2> QED BY <1>1, <1>2, <2>2 DEF AreParts
<1>3. ASSUME NEW o, IsGiven(b, o), m.opts = <<o>>
      PROVE  AreParts(W, 1) /\ W[1] = WrittenOpt(o, bare)
  <2>1. W = [i \in 1..1 |-> WrittenOpt(m.opts[i], bare)] /\ m.opts[1] = o
    BY <1>1, <1>3 DEF WrittenOpts
  <2>2. DOMAIN W = 1..1 /\ Len(W) = 1 /\ W[1] = WrittenOpt(o, bare)
    BY <2>1
  <2>3. Solid(WrittenOpt(o, bare))
    BY <1>3, OptionWritten
  <2>4. \A k \in 1..1 : k = 1
    OBVIOUS
  <2>5. \A k \in 1..1 : Solid(W[k])
    BY <2>2, <2>3, <2>4
  <2> QED BY <2>2, <2>5 DEF AreParts
<1> QED BY <1>1, <1>2, <1>3 DEF IsCommand

RegroupsAll(a, b, c, d) == ((a \o b) \o c) \o d = a \o (b \o (c \o d))

LEMMA GluedThrice ==
  ASSUME NEW a \in Script, NEW b \in Script, NEW c \in Script, NEW d \in Script
  PROVE  RegroupsAll(a, b, c, d)
<1>1. a \o b \in Script /\ c \o d \in Script
  BY GluedScript
<1>2. Regroups(a \o b, c, d) /\ Regroups(a, b, c \o d)
  BY <1>1, GluedTwice
<1> QED BY <1>2, Zenon DEF Regroups, RegroupsAll

(* A line, and what is left of it before each option and each argument. *)
IsLined(m, bare, no, na, argc, RO, YO, RA, YA) ==
  /\ Chain(RA, YA, WrittenArgs(m.args, argc, bare), na, <<>>, <<>>)
  /\ Chain(RO, YO, WrittenOpts(m.opts, bare), no, YA[0], RA[0])
  /\ Leaves(YO[0], RO[0]) /\ Ended(YO[0]) /\ Leaves(YA[0], RA[0])
  /\ LineFor(m, bare) = <<m.name>> \o (SubPart(m.sub) \o YO[0])

LEMMA Lined ==
  ASSUME NEW m, NEW bare \in BOOLEAN, NEW no \in Nat, AreParts(WrittenOpts(m.opts, bare), no), NEW na \in Nat,
         NEW argc, argc = Bindings[m.name].argc, AreParts(WrittenArgs(m.args, argc, bare), na),
         <<m.name>> \in Script, SubPart(m.sub) \in Script
  PROVE  \E RO, YO, RA, YA : IsLined(m, bare, no, na, argc, RO, YO, RA, YA)
<1>1. PICK WO : WO = WrittenOpts(m.opts, bare)
  OBVIOUS
<1>2. PICK WA : WA = WrittenArgs(m.args, argc, bare)
  OBVIOUS
<1>3. AreParts(WO, no) /\ AreParts(WA, na)
  BY <1>1, <1>2
<1>4. Leaves(<<>>, <<>>) /\ Ended(<<>>)
  BY EmptyScript DEF Leaves, Ended
<1>5. PICK RA, YA : Chain(RA, YA, WA, na, <<>>, <<>>)
  BY <1>3, <1>4, SpacedChain
<1>6. Ended(YA[0]) /\ Leaves(YA[0], RA[0])
  BY <1>3, <1>4, <1>5, ChainEnded
<1>7. PICK RO, YO : Chain(RO, YO, WO, no, YA[0], RA[0])
  BY <1>3, <1>6, SpacedChain
<1>8. Ended(YO[0]) /\ Leaves(YO[0], RO[0])
  BY <1>3, <1>6, <1>7, ChainEnded
<1>9. PICK N \in Script, B \in Script : N = <<m.name>> /\ B = SubPart(m.sub)
  OBVIOUS
<1>10. PICK SO \in Script, SA \in Script : SO = Spaced(WO) /\ SA = Spaced(WA)
  BY <1>3, SpacedTyped
<1>11. YA[0] = SA
  <2>1. YA[0] = SA \o <<>>
    BY <1>5, <1>10 DEF Chain
  <2> QED BY <2>1, ConcatEmptySeq DEF Script
<1>12. YO[0] = SO \o SA
  BY <1>7, <1>10, <1>11, Zenon DEF Chain
<1>13. LineFor(m, bare) = ((N \o B) \o SO) \o SA
  BY <1>1, <1>2, <1>9, <1>10, LineIs, Zenon
<1>14. ((N \o B) \o SO) \o SA = N \o (B \o (SO \o SA))
  <2>1. RegroupsAll(N, B, SO, SA)
    BY <1>9, <1>10, GluedThrice
  <2> QED BY <2>1, Zenon DEF RegroupsAll
<1>15. LineFor(m, bare) = <<m.name>> \o (SubPart(m.sub) \o YO[0])
  BY <1>9, <1>12, <1>13, <1>14, Zenon
<1>16. IsLined(m, bare, no, na, argc, RO, YO, RA, YA)
  BY <1>1, <1>2, <1>5, <1>6, <1>7, <1>8, <1>15, Zenon DEF IsLined
<1> QED BY <1>16

HasSub(b, sub) == (b.sub = <<>> /\ sub = NoSub) \/ (b.sub # <<>> /\ sub \in ToSet(b.sub))
IsSubRead(b, sub, y, r, rest) ==
  /\ Leaves(SubPart(sub) \o y, rest) /\ Ended(SubPart(sub) \o y)
  /\ ParseSub(b, rest) = SubAfter(sub, r)

LEMMA SubPartIs ==
  ASSUME NEW sub, IsName(sub)
  PROVE  SubPart(sub) = <<BLANK>> \o <<sub>> /\ SubPart(sub) \in Script
<1>1. <<sub>> \in Script /\ sub # NoSub
  BY DEF IsName, IsScriptWord
<1>2. SubPart(sub) = <<BLANK, sub>>
  BY <1>1, Zenon DEF SubPart
<1>3. <<BLANK, sub>> = <<BLANK>> \o <<sub>>
  OBVIOUS
<1>4. <<BLANK>> \o <<sub>> \in Script
  BY <1>1, OneBlank, GluedScript
<1> QED BY <1>2, <1>3, <1>4

LEMMA SubNamed ==
  ASSUME NEW name, NEW b, NEW n, IsBound(name, b, n), NEW sub, HasSub(b, sub), b.sub # <<>>
  PROVE  \E i \in 1..n : sub = b.sub[i] /\ IsName(sub)
<1>1. sub \in ToSet(b.sub) /\ DOMAIN b.sub = 1..n /\ \A i \in 1..n : IsName(b.sub[i])
  BY DEF HasSub, IsBound
<1>2. PICK i \in 1..n : sub = b.sub[i]
  BY <1>1 DEF ToSet
<1> QED BY <1>1, <1>2

LEMMA SubPartTyped ==
  ASSUME NEW name, NEW b, NEW n, IsBound(name, b, n), NEW sub, HasSub(b, sub)
  PROVE  SubPart(sub) \in Script
<1>1. CASE b.sub = <<>>
  BY <1>1, EmptyScript DEF HasSub, SubPart
<1>2. CASE b.sub # <<>>
  BY <1>2, SubNamed, SubPartIs
<1> QED BY <1>1, <1>2

LEMMA SubPartRead ==
  ASSUME NEW name, NEW b, NEW n, IsBound(name, b, n), NEW sub, HasSub(b, sub),
         NEW y, NEW r, Leaves(y, r), Ended(y), b.sub # <<>> => Beyond(r, b)
  PROVE  \E rest : IsSubRead(b, sub, y, r, rest)
<1>1. y \in Script
  BY LeavesTyped
<1>2. CASE b.sub = <<>>
  <2>1. sub = NoSub
    BY <1>2 DEF HasSub
  <2>2. SubPart(sub) \o y = <<>> \o y
    BY <2>1 DEF SubPart
  <2>3. SubPart(sub) \o y = y
    BY <1>1, <2>2, ConcatEmptySeq DEF Script
  <2>4. ParseSub(b, r) = SubStart(r)
    BY <1>2, NoSubs
  <2>5. SubStart(r) = SubAfter(NoSub, r)
    BY Zenon DEF SubStart, SubAfter
  <2>6. IsSubRead(b, sub, y, r, r)
    BY <2>1, <2>3, <2>4, <2>5, Zenon DEF IsSubRead
  <2> QED BY <2>6
<1>3. CASE b.sub # <<>>
  <2>1. PICK i \in 1..n : sub = b.sub[i] /\ IsName(sub)
    BY <1>3, SubNamed
  <2>2. PICK x : x = <<sub>>
    OBVIOUS
  <2>3. IsScriptWord(x) /\ Solid(x) /\ x \in Script
    BY <2>1, <2>2, WordSolid DEF IsName, IsScriptWord
  <2>4. PICK rest : rest = x \o y
    OBVIOUS
  <2>5. Leads(rest, x, r)
    BY <2>3, <2>4, JoinedLeads
  <2>6. ParseSub(b, rest) = SubAfter(sub, r)
    <3>1. DOMAIN b.sub = 1..n /\ n \in Nat
      BY DEF IsBound
    <3>2. IsScriptWord(<<b.sub[i]>>) /\ Leads(rest, <<b.sub[i]>>, r)
      BY <2>1, <2>2, <2>3, <2>5
    <3>3. ParseSub(b, rest) = SubAfter(b.sub[i], r)
      BY <1>3, <3>1, <3>2, SubRead
    <3> QED BY <2>1, <3>3
  <2>7. Leaves(<<BLANK>> \o (x \o y), x \o y) /\ Ended(<<BLANK>> \o (x \o y))
    BY <2>3, PartBefore, EndedBefore
  <2>8. SubPart(sub) \o y = <<BLANK>> \o (x \o y)
    <3>1. SubPart(sub) = <<BLANK>> \o x
      BY <2>1, <2>2, SubPartIs
    <3>2. (<<BLANK>> \o x) \o y = <<BLANK>> \o (x \o y)
      BY <1>1, <2>3, OneBlank, GluedAgain
    <3> QED BY <3>1, <3>2, Zenon
  <2>9. IsSubRead(b, sub, y, r, rest)
    BY <2>4, <2>6, <2>7, <2>8, Zenon DEF IsSubRead
  <2> QED BY <2>9
<1> QED BY <1>2, <1>3

(* The name of the command is taken off the line. *)
LEMMA NameTaken ==
  ASSUME NEW name, IsScriptWord(<<name>>), NEW z, NEW rest, Leaves(z, rest), Ended(z)
  PROVE  srn_command_parse(<<name>> \o z) = ParsedLine(Bindings[name], rest)
<1>1. PICK x : x = <<name>>
  OBVIOUS
<1>2. PICK l : l = x \o z
  OBVIOUS
<1>3. IsScriptWord(x) /\ Solid(x) /\ x \in Script /\ x[1] = name
  BY <1>1, WordSolid DEF IsScriptWord
<1>4. Leads(l, x, rest)
  BY <1>2, <1>3, JoinedLeads
<1>5. Ended(l)
  BY <1>2, <1>3, EndedBefore
<1>6. Chomp(l) = l
  BY <1>5, ChompNothing DEF Ended
<1>7. get_arg(l) = ArgTaken(x, rest)
  BY <1>3, <1>4, WordTaken DEF ArgTaken
<1>8. ArgTaken(x, rest).arg = x /\ ArgTaken(x, rest).next = rest
  BY DEF ArgTaken
<1>9. srn_command_parse(l) = ParsedLine(Bindings[name], rest)
  BY <1>3, <1>6, <1>7, <1>8, Zenon DEF srn_command_parse
<1> QED BY <1>1, <1>2, <1>9

LEMMA SubOf ==
  ASSUME NEW name, NEW b, NEW n, IsBound(name, b, n), NEW sub, HasSub(b, sub), NEW r, NEW any
  PROVE  SubParsed(b, SubAfter(sub, r), any) = OptionsParsed(b, sub, ParseOptions(b, r))
<1>1. b.sub = <<>> \/ sub # NoSub
  BY SubNamed DEF IsName
<1>2. SubAfter(sub, r).sub = sub /\ SubAfter(sub, r).next = r
  BY DEF SubAfter
<1> QED BY <1>1, <1>2, Zenon DEF SubParsed

LEMMA ArgsPlain ==
  ASSUME NEW na \in Nat, NEW args, AreTexts(args, na), NEW argc, NEW bare \in BOOLEAN,
         NEW R, NEW Y, Chain(R, Y, WrittenArgs(args, argc, bare), na, <<>>, <<>>)
  PROVE  /\ NoOption(R[0])
         /\ \/ R[0] = <<>> \/ R[0][1] = QUOTE
            \/ args # <<>> /\ args[1] # <<>> /\ R[0][1] = args[1][1]
<1>1. PICK W : W = WrittenArgs(args, argc, bare)
  OBVIOUS
<1>2. /\ R[na] = <<>> /\ \A k \in 0..na : Leaves(Y[k], R[k])
      /\ \A k \in 1..na : R[k - 1] = W[k] \o Y[k]
  BY <1>1 DEF Chain
<1>3. CASE na = 0
  BY <1>2, <1>3, EmptyScript DEF NoOption
<1>4. CASE na # 0
  <2>1. 1 \in 1..na /\ 1 \in 0..na /\ 0 \in 0..na
    BY <1>4
  <2>2. R[0] = W[1] \o Y[1] /\ Leaves(Y[1], R[1]) /\ Leaves(Y[0], R[0])
    <3>1. 1 - 1 = 0
      OBVIOUS
    <3> QED BY <1>2, <2>1, <3>1
  <2>3. DOMAIN args = 1..na /\ WellWritten(args[1], bare, 1 = argc)
    BY <2>1, WrittenParts DEF AreTexts
  <2>4. W[1] = Written(args[1], bare, 1 = argc)
    BY <1>1, <2>1, <2>3 DEF WrittenArgs
  <2>5. PICK x : x = W[1]
    OBVIOUS
  <2>6. Solid(x) /\ x[1] # "-" /\ (x[1] = QUOTE \/ (args[1] # <<>> /\ x[1] = args[1][1]))
    BY <2>3, <2>4, <2>5, Zenon DEF WellWritten
  <2>7. x \in Script /\ x # <<>> /\ x[1] # BLANK
    BY <2>6 DEF Solid
  <2>8. PICK s : s = x \o Y[1]
    OBVIOUS
  <2>9. Leads(s, x, R[1])
    BY <2>2, <2>7, <2>8, JoinedLeads
  <2>10. s \in Trimmed /\ s # <<>> /\ s[1] = x[1]
    BY <2>7, <2>9, LedTrimmed
  <2>11. R[0] = s
    BY <2>2, <2>5, <2>8
  <2>12. args # <<>>
    BY <2>1, <2>3
  <2> QED BY <2>6, <2>10, <2>11, <2>12 DEF NoOption
<1> QED BY <1>3, <1>4

LEMMA ArgsBeyond ==
  ASSUME NEW name, NEW b, NEW n, IsBound(name, b, n), NEW args, NEW r, NoOption(r),
         r = <<>> \/ r[1] = QUOTE \/ (args # <<>> /\ args[1] # <<>> /\ r[1] = args[1][1]),
         ~(args # <<>> /\ args[1] # <<>> /\ args[1][1] \in ToSet(b.sub))
  PROVE  Beyond(r, b) /\ QUOTE \notin ToSet(b.sub) /\ "-" \notin ToSet(b.sub)
<1>1. ASSUME NEW w \in ToSet(b.sub) PROVE w # QUOTE /\ w # "-"
  <2>1. DOMAIN b.sub = 1..n /\ \A i \in 1..n : IsName(b.sub[i])
    BY DEF IsBound
  <2>2. PICK i \in 1..n : w = b.sub[i]
    BY <2>1 DEF ToSet
  <2> QED BY <2>1, <2>2 DEF IsName
<1> QED BY <1>1 DEF NoOption, Beyond

(* What is made of the options of a line. *)
OptDone(opts, bare, r) == IF opts = <<>> THEN OptStart(r) ELSE OptAfter(opts[1], bare, r)

OptionsFit(b, opts, bare, no, y, r) ==
  /\ no \in Nat /\ AreParts(WrittenOpts(opts, bare), no)
  /\ \A R, Y : Chain(R, Y, WrittenOpts(opts, bare), no, y, r) =>
       /\ ParseOptions(b, R[0]) = OptDone(opts, bare, r)
       /\ R[0] = r \/ R[0][1] = "-"

LEMMA LineOptions ==
  ASSUME NEW b, NEW m, NEW na, IsCommand(b, m, na), Len(m.opts) < MaxOpts, NEW bare \in BOOLEAN,
         NEW y, NEW r, Leaves(y, r), NoOption(r)
  PROVE  \E no : OptionsFit(b, m.opts, bare, no, y, r)
<1>1. PICK W : W = WrittenOpts(m.opts, bare)
  OBVIOUS
<1>2. CASE m.opts = <<>>
  <2>1. AreParts(W, 0)
    <3>1. ~ \E o : m.opts = <<o>>
      BY <1>2
    <3> QED BY <1>1, <3>1, OptionParts
  <2>2. ASSUME NEW R, NEW Y, Chain(R, Y, W, 0, y, r)
        PROVE  ParseOptions(b, R[0]) = OptDone(m.opts, bare, r) /\ R[0] = r
    <3>1. R[0] = r
      BY <2>2 DEF Chain
    <3>2. MaxOpts > 0
      BY <1>2, MaxOptsAssumption
    <3>3. ParseOptions(b, r) = OptStart(r)
      BY <3>2, OptionsRead
    <3> QED BY <1>2, <3>1, <3>3, Zenon DEF OptDone
  <2>3. 0 \in Nat
    OBVIOUS
  <2>4. OptionsFit(b, m.opts, bare, 0, y, r)
    BY <1>1, <2>1, <2>2, <2>3, Zenon DEF OptionsFit
  <2> QED BY <2>4
<1>3. CASE m.opts # <<>>
  <2>1. PICK o : IsGiven(b, o) /\ m.opts = <<o>> /\ AreParts(W, 1) /\ W[1] = WrittenOpt(o, bare)
    BY <1>1, <1>3, OptionParts
  <2>2. m.opts[1] = o /\ MaxOpts > 1
    BY <2>1, MaxOptsAssumption
  <2>3. ASSUME NEW R, NEW Y, Chain(R, Y, W, 1, y, r)
        PROVE  ParseOptions(b, R[0]) = OptDone(m.opts, bare, r) /\ R[0][1] = "-"
    <3>1. R[0] = W[1] \o Y[1] /\ Y[1] = y
      <4>1. Y[1] = y /\ \A k \in 1..1 : R[k - 1] = W[k] \o Y[k]
        BY <2>3 DEF Chain
      <4>2. 1 \in 1..1 /\ 1 - 1 = 0
        OBVIOUS
      <4> QED BY <4>1, <4>2
    <3>2. PICK x : x = WrittenOpt(o, bare)
      OBVIOUS
    <3>3. Solid(x) /\ x[1] = "-"
      BY <2>1, <3>2, OptionWritten
    <3>4. PICK s : s = x \o y
      OBVIOUS
    <3>5. Leads(s, x, r) /\ x # <<>> /\ x[1] # BLANK
      BY <3>3, <3>4, JoinedLeads DEF Solid
    <3>6. s[1] = "-"
      BY <3>3, <3>5, LedTrimmed
    <3>7. OptionFits(b, s, o, bare, r)
      <4>1. OptionStands(s, o, bare, y)
        BY <3>2, <3>4 DEF OptionStands
      <4> QED BY <2>1, <4>1, OptionRead
    <3>8. ParseOptions(b, s) = OptAfter(o, bare, r)
      <4>1. OptionAlone(b, s, o, bare, r)
        BY <2>2, <3>7, OptionsRead
      <4> QED BY <4>1, Zenon DEF OptionAlone
    <3>9. R[0] = s
      BY <2>1, <3>1, <3>2, <3>4
    <3> QED BY <1>3, <2>2, <3>6, <3>8, <3>9, Zenon DEF OptDone
  <2>4. 1 \in Nat
    OBVIOUS
  <2>5. OptionsFit(b, m.opts, bare, 1, y, r)
    BY <1>1, <2>1, <2>3, <2>4, Zenon DEF OptionsFit
  <2> QED BY <2>5
<1> QED BY <1>2, <1>3

(* What is meant by a command. *)
ParseMeant(b, m, bare) ==
  [ret |-> "ok", sub |-> m.sub, keys |-> OptDone(m.opts, bare, <<>>).keys,
   vals |-> OptDone(m.opts, bare, <<>>).vals, args |-> ReadArgs(m.args, b.argc, bare)]

IsDone(opts, bare, r) ==
  /\ OptDone(opts, bare, r).ret = "ok" /\ OptDone(opts, bare, r).next = r
  /\ OptDone(opts, bare, r).keys = OptDone(opts, bare, <<>>).keys
  /\ OptDone(opts, bare, r).vals = OptDone(opts, bare, <<>>).vals

LEMMA OptDoneIs == ASSUME NEW opts, NEW bare, NEW r PROVE IsDone(opts, bare, r)
<1>1. \A s : OptStart(s).ret = "ok" /\ OptStart(s).next = s /\ OptStart(s).keys = <<>> /\ OptStart(s).vals = <<>>
  BY DEF OptStart
<1>2. \A o, s : /\ OptAfter(o, bare, s).ret = "ok" /\ OptAfter(o, bare, s).next = s
                /\ OptAfter(o, bare, s).keys = <<o.key>>
                /\ OptAfter(o, bare, s).vals = <<ReadAs(o.value, bare, FALSE)>>
  BY Zenon DEF OptAfter
<1>3. CASE opts = <<>>
  <2>1. \A s : OptDone(opts, bare, s) = OptStart(s)
    BY <1>3, Zenon DEF OptDone
  <2> QED BY <1>1, <2>1, Zenon DEF IsDone
<1>4. CASE opts # <<>>
  <2>1. PICK o : o = opts[1]
    OBVIOUS
  <2>2. OptDone(opts, bare, r) = OptAfter(o, bare, r) /\ OptDone(opts, bare, <<>>) = OptAfter(o, bare, <<>>)
    BY <1>4, <2>1, Zenon DEF OptDone
  <2>3. /\ OptAfter(o, bare, r).ret = "ok" /\ OptAfter(o, bare, r).next = r
        /\ OptAfter(o, bare, r).keys = OptAfter(o, bare, <<>>).keys
        /\ OptAfter(o, bare, r).vals = OptAfter(o, bare, <<>>).vals
    BY <1>2, ZenonT(40)
  <2> QED BY <2>2, <2>3, Zenon DEF IsDone
<1> QED BY <1>3, <1>4

LEMMA ArgumentsEnd ==
  ASSUME NEW b, NEW m, NEW bare, NEW r, NEW s, s = ParseArgs(b, r),
         s.args = ReadArgs(m.args, b.argc, bare), s.ok \/ b.omit
  PROVE  OptionsParsed(b, m.sub, OptDone(m.opts, bare, r)) = ParseMeant(b, m, bare)
<1>1. PICK d : d = OptDone(m.opts, bare, r)
  OBVIOUS
<1>2. /\ d.ret = "ok" /\ d.next = r
      /\ d.keys = OptDone(m.opts, bare, <<>>).keys /\ d.vals = OptDone(m.opts, bare, <<>>).vals
  <2>1. IsDone(m.opts, bare, r)
    BY OptDoneIs
  <2> QED BY <1>1, <2>1, Zenon DEF IsDone
<1>3. OptionsParsed(b, m.sub, d) = ArgumentsParsed(b, m.sub, d, s)
  BY <1>2, Zenon DEF OptionsParsed
<1>4. ArgumentsParsed(b, m.sub, d, s) = ParseMeant(b, m, bare)
  BY <1>2, Zenon DEF ArgumentsParsed, ParseMeant
<1> QED BY <1>1, <1>3, <1>4, Zenon

IsParsedAs(m, bare, b) == srn_command_parse(LineFor(m, bare)) = ParseMeant(b, m, bare)

LEMMA LineRead ==
  ASSUME NEW name \in DOMAIN Bindings, NEW m \in CommandsOf(name), Len(m.opts) < MaxOpts, ~NamedLikeSub(m),
         NEW bare \in BOOLEAN
  PROVE  IsParsedAs(m, bare, Bindings[name])
<1>1. PICK b : b = Bindings[name]
  OBVIOUS
<1>2. PICK n : IsBound(name, b, n)
  BY <1>1, NamesBound
<1>3. m.name = name
  BY Commanded
<1>4. PICK na : IsCommand(b, m, na)
  BY <1>1, Commanded
<1>5. PICK argc \in Nat : argc = b.argc
  BY <1>2 DEF IsBound
<1>6. na \in 0..argc /\ (na = argc \/ b.omit) /\ AreTexts(m.args, na) /\ HasSub(b, m.sub) /\ na \in Nat
  <2>1. na \in 0..argc /\ (na = argc \/ b.omit) /\ AreTexts(m.args, na) /\ HasSub(b, m.sub)
    BY <1>4, <1>5, Zenon DEF IsCommand, HasSub
  <2> QED BY <1>5, <2>1
<1>7. AreParts(WrittenArgs(m.args, argc, bare), na)
  BY <1>6, WrittenParts
<1>8. Leaves(<<>>, <<>>) /\ Ended(<<>>)
  BY EmptyScript DEF Leaves, Ended
<1>9. IsScriptWord(<<name>>) /\ <<name>> \in Script /\ SubPart(m.sub) \in Script
  BY <1>2, <1>6, SubPartTyped DEF IsBound, IsScriptWord
<1>10. PICK no \in Nat : AreParts(WrittenOpts(m.opts, bare), no)
  <2>1. 0 \in Nat /\ 1 \in Nat
    OBVIOUS
  <2> QED BY <1>4, <2>1, OptionParts, Zenon
<1>11. PICK RO, YO, RA, YA : IsLined(m, bare, no, na, argc, RO, YO, RA, YA)
  <2>1. argc = Bindings[m.name].argc /\ <<m.name>> \in Script
    BY <1>1, <1>3, <1>5, <1>9
  <2> QED BY <1>6, <1>7, <1>9, <1>10, <2>1, Lined
<1>12. /\ Chain(RA, YA, WrittenArgs(m.args, argc, bare), na, <<>>, <<>>)
       /\ Chain(RO, YO, WrittenOpts(m.opts, bare), no, YA[0], RA[0])
       /\ Leaves(YO[0], RO[0]) /\ Ended(YO[0]) /\ Leaves(YA[0], RA[0])
       /\ LineFor(m, bare) = <<m.name>> \o (SubPart(m.sub) \o YO[0])
  BY <1>11, Zenon DEF IsLined
<1>13. /\ NoOption(RA[0])
       /\ \/ RA[0] = <<>> \/ RA[0][1] = QUOTE
          \/ m.args # <<>> /\ m.args[1] # <<>> /\ RA[0][1] = m.args[1][1]
  BY <1>6, <1>12, ArgsPlain
<1>14. Beyond(RA[0], b) /\ "-" \notin ToSet(b.sub)
  <2>1. ~(m.args # <<>> /\ m.args[1] # <<>> /\ m.args[1][1] \in ToSet(b.sub))
    BY <1>1, <1>3, Zenon DEF NamedLikeSub
  <2> QED BY <1>2, <1>13, <2>1, ArgsBeyond
<1>15. PICK r : r = RA[0]
  OBVIOUS
<1>16. /\ ParseOptions(b, RO[0]) = OptDone(m.opts, bare, r) /\ (RO[0] = r \/ RO[0][1] = "-")
  <2>1. PICK k : OptionsFit(b, m.opts, bare, k, YA[0], r)
    BY <1>4, <1>12, <1>13, <1>15, LineOptions
  <2>2. k = no
    BY <1>10, <2>1 DEF OptionsFit, AreParts
  <2> QED BY <1>12, <1>15, <2>1, <2>2, Zenon DEF OptionsFit
<1>17. Beyond(RO[0], b)
  <2>1. RO[0] \in Trimmed
    BY <1>12 DEF Leaves
  <2> QED BY <1>14, <1>15, <1>16, <2>1 DEF Beyond
<1>18. PICK rest : IsSubRead(b, m.sub, YO[0], RO[0], rest)
  BY <1>2, <1>6, <1>12, <1>17, SubPartRead
<1>19. PICK z : z = SubPart(m.sub) \o YO[0]
  OBVIOUS
<1>20. Leaves(z, rest) /\ Ended(z) /\ ParseSub(b, rest) = SubAfter(m.sub, RO[0])
  BY <1>18, <1>19, Zenon DEF IsSubRead
<1>21. srn_command_parse(<<name>> \o z) = ParsedLine(b, rest)
  BY <1>1, <1>9, <1>20, NameTaken, Zenon
<1>22. ParsedLine(b, rest) = SubParsed(b, SubAfter(m.sub, RO[0]), rest # <<>>)
  BY <1>20, Zenon DEF ParsedLine
<1>23. SubParsed(b, SubAfter(m.sub, RO[0]), rest # <<>>) = OptionsParsed(b, m.sub, ParseOptions(b, RO[0]))
  BY <1>2, <1>6, SubOf, Zenon
<1>24. PICK s : s = ParseArgs(b, r)
  OBVIOUS
<1>25. s.args = ReadArgs(m.args, b.argc, bare) /\ (s.ok \/ b.omit)
  <2>1. /\ ParseArgs(b, RA[0]).args = ReadArgs(m.args, argc, bare)
        /\ na = argc => ParseArgs(b, RA[0]).ok
    BY <1>5, <1>6, <1>12, ArgsRead
  <2> QED BY <1>5, <1>6, <1>15, <1>24, <2>1, Zenon
<1>26. OptionsParsed(b, m.sub, OptDone(m.opts, bare, r)) = ParseMeant(b, m, bare)
  BY <1>24, <1>25, ArgumentsEnd
<1>27. LineFor(m, bare) = <<name>> \o z
  BY <1>3, <1>12, <1>19
<1> QED BY <1>1, <1>16, <1>21, <1>22, <1>23, <1>26, <1>27, Zenon DEF IsParsedAs

(* The options as srn_command_get_opt gives them. *)
FirstKey(keys, key) == SelectInSeq(keys, LAMBDA k : k = key)

LEMMA OneKey ==
  ASSUME NEW k, NEW key
  PROVE  FirstKey(<<k>>, key) = IF k = key THEN 1 ELSE 0
<1> DEFINE T == {i \in 1..1 : <<k>>[i] = key}
<1>1. Len(<<k>>) = 1 /\ <<k>>[1] = k
  OBVIOUS
<1>2. FirstKey(<<k>>, key) = IF T # {} THEN Min(T) ELSE 0
  BY <1>1 DEF FirstKey, SelectInSeq
<1>3. T \in SUBSET (1..1) /\ (1 \in T <=> k = key)
  BY <1>1
<1> HIDE DEF T
<1>4. CASE k = key
  <2>1. T # {} /\ 1 \in Nat
    BY <1>3, <1>4
  <2>2. Min(T) \in 1..1
    BY <1>3, <2>1, MinIn
  <2> QED BY <1>2, <1>4, <2>1, <2>2
<1>5. CASE k # key
  <2>1. T = {}
    <3>1. \A i \in 1..1 : i = 1
      OBVIOUS
    <3> QED BY <1>3, <1>5, <3>1
  <2> QED BY <1>2, <1>5, <2>1
<1> QED BY <1>4, <1>5

LEMMA NoKey == ASSUME NEW key PROVE FirstKey(<<>>, key) = 0
<1>1. {i \in 1..Len(<<>>) : <<>>[i] = key} = {}
  OBVIOUS
<1> QED BY <1>1 DEF FirstKey, SelectInSeq

LEMMA FoundIs ==
  ASSUME NEW p, NEW key
  PROVE  /\ srn_command_get_opt(p, key) = OptionFound(p, FirstKey(p.keys, key))
         /\ ~OptionFound(p, 0).given
         /\ OptionFound(p, 1) = [given |-> TRUE, value |-> p.vals[1]]
<1>1. srn_command_get_opt(p, key) = OptionFound(p, FirstKey(p.keys, key))
  BY DEF srn_command_get_opt, FirstKey
<1>2. (0 > 0) = FALSE /\ (1 > 0) = TRUE
  OBVIOUS
<1>3. OptionFound(p, 0).given = (0 > 0)
  BY Zenon DEF OptionFound
<1>4. OptionFound(p, 1) = [given |-> 1 > 0, value |-> IF 1 > 0 THEN p.vals[1] ELSE <<>>]
  BY Zenon DEF OptionFound
<1>5. OptionFound(p, 1) = [given |-> TRUE, value |-> p.vals[1]]
  BY <1>2, <1>4, Zenon
<1> QED BY <1>1, <1>2, <1>3, <1>5, Zenon

PlacesOf(opts, key) == {i \in DOMAIN opts : opts[i].key = key}
OptionKept(p, opts, bare, key) ==
  IF PlacesOf(opts, key) = {} THEN ~srn_command_get_opt(p, key).given
  ELSE \E i \in PlacesOf(opts, key) :
         srn_command_get_opt(p, key) = [given |-> TRUE, value |-> ReadAs(opts[i].value, bare, FALSE)]

LEMMA OptionsKept ==
  ASSUME NEW b, NEW m, NEW bare, m.opts = <<>> \/ \E o : m.opts = <<o>>, NEW key
  PROVE  OptionKept(ParseMeant(b, m, bare), m.opts, bare, key)
<1>1. PICK p : p = ParseMeant(b, m, bare)
  OBVIOUS
<1>2. p.keys = OptDone(m.opts, bare, <<>>).keys /\ p.vals = OptDone(m.opts, bare, <<>>).vals
  BY <1>1, Zenon DEF ParseMeant
<1>3. CASE m.opts = <<>>
  <2>1. p.keys = <<>>
    BY <1>2, <1>3, Zenon DEF OptDone, OptStart
  <2>4. srn_command_get_opt(p, key) = OptionFound(p, 0)
    BY <2>1, NoKey, FoundIs, Zenon
  <2>5. ~OptionFound(p, 0).given
    BY FoundIs
  <2>6. PlacesOf(m.opts, key) = {}
    BY <1>3 DEF PlacesOf
  <2> QED BY <1>1, <2>4, <2>5, <2>6, Zenon DEF OptionKept
<1>4. ASSUME NEW o, m.opts = <<o>> PROVE OptionKept(p, m.opts, bare, key)
  <2>1. PICK v : v = ReadAs(o.value, bare, FALSE)
    OBVIOUS
  <2>2. p.keys = <<o.key>> /\ p.vals = <<v>>
    <3>1. m.opts # <<>> /\ m.opts[1] = o
      BY <1>4
    <3>2. OptDone(m.opts, bare, <<>>) = OptAfter(o, bare, <<>>)
      BY <3>1, Zenon DEF OptDone
    <3>3. OptAfter(o, bare, <<>>).keys = <<o.key>> /\ OptAfter(o, bare, <<>>).vals = <<v>>
      BY <2>1, Zenon DEF OptAfter
    <3> QED BY <1>2, <3>2, <3>3, Zenon
  <2>4. FirstKey(p.keys, key) = IF o.key = key THEN 1 ELSE 0
    <3>1. PICK k : k = o.key
      OBVIOUS
    <3>2. FirstKey(<<k>>, key) = IF k = key THEN 1 ELSE 0
      BY OneKey
    <3> QED BY <2>2, <3>1, <3>2, Zenon
  <2>5. srn_command_get_opt(p, key) = OptionFound(p, IF o.key = key THEN 1 ELSE 0)
    BY <2>4, FoundIs, Zenon
  <2>6. OptionFound(p, 1) = [given |-> TRUE, value |-> v] /\ ~OptionFound(p, 0).given
    <3>1. p.vals[1] = v
      BY <2>2
    <3> QED BY <3>1, FoundIs, Zenon
  <2>7. DOMAIN m.opts = 1..1 /\ m.opts[1] = o /\ 1 \in 1..1 /\ \A i \in 1..1 : i = 1
    BY <1>4
  <2>8. CASE o.key = key
    <3>1. 1 \in PlacesOf(m.opts, key)
      BY <2>7, <2>8, Zenon DEF PlacesOf
    <3>2. srn_command_get_opt(p, key) = [given |-> TRUE, value |-> ReadAs(m.opts[1].value, bare, FALSE)]
      BY <2>1, <2>5, <2>6, <2>7, <2>8, Zenon
    <3>3. PlacesOf(m.opts, key) # {}
      BY <3>1
    <3> QED BY <3>1, <3>2, <3>3, Zenon DEF OptionKept
  <2>9. CASE o.key # key
    <3>1. PlacesOf(m.opts, key) = {}
      BY <2>7, <2>9 DEF PlacesOf
    <3>2. srn_command_get_opt(p, key) = OptionFound(p, 0)
      BY <2>5, <2>9, Zenon
    <3> QED BY <2>6, <3>1, <3>2, Zenon DEF OptionKept
  <2> QED BY <2>8, <2>9
<1> QED BY <1>1, <1>3, <1>4, Zenon

(* A command is parsed when it is typed. *)
CommandInv ==
  typedCommand = <<>> \/
    \E name \in DOMAIN Bindings, bare \in BOOLEAN : \E m \in CommandsOf(name) :
      typedCommand = [cmd |-> m, bare |-> bare] /\ parsed = srn_command_parse(LineFor(m, bare))

(* p is what was meant by m. *)
WellRead(p, m, bare) ==
  LET Text(v, isLast) == Arrives(v, bare /\ MayStandBare(v, isLast))
      OptionsOf(key) == {i \in DOMAIN m.opts : m.opts[i].key = key}
  IN  /\ p.ret = "ok" /\ p.sub = m.sub
      /\ p.args = [i \in DOMAIN m.args |-> Text(m.args[i], i = Bindings[m.name].argc)]
      /\ \A o \in ToSet(Bindings[m.name].opts) :
           IF OptionsOf(o.key) = {} THEN ~srn_command_get_opt(p, o.key).given
           ELSE \E i \in OptionsOf(o.key) :
                  srn_command_get_opt(p, o.key) = [given |-> TRUE, value |-> Text(m.opts[i].value, FALSE)]

LEMMA MeantWell ==
  ASSUME NEW m, NEW bare, m.opts = <<>> \/ \E o : m.opts = <<o>>
  PROVE  WellRead(ParseMeant(Bindings[m.name], m, bare), m, bare)
<1>1. PICK p : p = ParseMeant(Bindings[m.name], m, bare)
  OBVIOUS
<1>2. p.ret = "ok" /\ p.sub = m.sub /\ p.args = ReadArgs(m.args, Bindings[m.name].argc, bare)
  BY <1>1, Zenon DEF ParseMeant
<1>3. p.args = [i \in DOMAIN m.args |-> Arrives(m.args[i], bare /\ MayStandBare(m.args[i], i = Bindings[m.name].argc))]
  BY <1>2, Zenon DEF ReadArgs, ReadAs
<1>4. \A key : OptionKept(p, m.opts, bare, key)
  BY <1>1, OptionsKept, Zenon
<1>5. ASSUME NEW o
      PROVE  IF {i \in DOMAIN m.opts : m.opts[i].key = o.key} = {} THEN ~srn_command_get_opt(p, o.key).given
             ELSE \E i \in {j \in DOMAIN m.opts : m.opts[j].key = o.key} :
                    srn_command_get_opt(p, o.key)
                      = [given |-> TRUE, value |-> Arrives(m.opts[i].value, bare /\ MayStandBare(m.opts[i].value, FALSE))]
  <2>1. OptionKept(p, m.opts, bare, o.key)
    BY <1>4
  <2> QED BY <2>1, Zenon DEF OptionKept, PlacesOf, ReadAs
<1>6. WellRead(p, m, bare)
  BY <1>2, <1>3, <1>5, Zenon DEF WellRead
<1> QED BY <1>1, <1>6

(* A text without an escaped mark arrives as it is. *)
LEMMA ArrivesWhole ==
  ASSUME NEW v \in Script, NEW bare, NEW l, ~MarkEscaped(v, bare, l)
  PROVE  Arrives(v, bare /\ MayStandBare(v, l)) = v
<1>1. DOMAIN v = 1..Len(v) /\ v \in [1..Len(v) -> Signs]
  BY LenProperties DEF Script
<1>2. (bare /\ MayStandBare(v, l)) \/ \A i \in DOMAIN v : v[i] # QUOTE
  BY DEF MarkEscaped, ToSet
<1>3. Arrives(v, bare /\ MayStandBare(v, l)) = [i \in DOMAIN v |-> v[i]]
  BY <1>2 DEF Arrives
<1> QED BY <1>1, <1>3

LEMMA ArgumentsAre ==
  ASSUME NEW name, NEW m \in CommandsOf(name)
  PROVE  m.args = [i \in DOMAIN m.args |-> m.args[i]]
<1>1. PICK os, as : as \in ArgumentLists(Bindings[name], os) /\ m.args = as
  BY DEF CommandsOf
<1>2. \E n : as \in [1..n -> Values] \/ as \in [1..n -> {v \in Values : Len(v) < 2}]
  BY <1>1 DEF ArgumentLists
<1> QED BY <1>1, <1>2

LEMMA MeantWhole ==
  ASSUME NEW p, NEW m, NEW bare, NEW na, IsCommand(Bindings[m.name], m, na),
         WellRead(p, m, bare), ~MarksEscaped(m, bare), m.args = [i \in DOMAIN m.args |-> m.args[i]]
  PROVE  ReadAsMeant(p, m)
<1>1. AreTexts(m.args, na) /\ \A i \in DOMAIN m.opts : m.opts[i].value \in Script
  <2>1. m.opts = <<>> \/ \E o : IsGiven(Bindings[m.name], o) /\ m.opts = <<o>>
    BY Zenon DEF IsCommand
  <2>2. ASSUME NEW i \in DOMAIN m.opts PROVE m.opts[i].value \in Script
    <3>1. PICK o : IsGiven(Bindings[m.name], o) /\ m.opts = <<o>>
      BY <2>1, <2>2
    <3>2. m.opts[i] = o
      BY <2>2, <3>1
    <3> QED BY <3>1, <3>2, Zenon DEF IsGiven
  <2> QED BY <2>2, Zenon DEF IsCommand
<1>2. \A i \in DOMAIN m.opts :
        Arrives(m.opts[i].value, bare /\ MayStandBare(m.opts[i].value, FALSE)) = m.opts[i].value
  <2> SUFFICES ASSUME NEW i \in DOMAIN m.opts
               PROVE  Arrives(m.opts[i].value, bare /\ MayStandBare(m.opts[i].value, FALSE)) = m.opts[i].value
    OBVIOUS
  <2>1. m.opts[i].value \in Script /\ ~MarkEscaped(m.opts[i].value, bare, FALSE)
    BY <1>1, Zenon DEF MarksEscaped
  <2> QED BY <2>1, ArrivesWhole, Zenon
<1>3. \A i \in DOMAIN m.args :
        Arrives(m.args[i], bare /\ MayStandBare(m.args[i], i = Bindings[m.name].argc)) = m.args[i]
  <2> SUFFICES ASSUME NEW i \in DOMAIN m.args
               PROVE  Arrives(m.args[i], bare /\ MayStandBare(m.args[i], i = Bindings[m.name].argc)) = m.args[i]
    OBVIOUS
  <2>1. m.args[i] \in Script
    BY <1>1 DEF AreTexts
  <2>2. ~MarkEscaped(m.args[i], bare, i = Bindings[m.name].argc)
    BY Zenon DEF MarksEscaped
  <2> QED BY <2>1, <2>2, ArrivesWhole, Zenon
<1>4. p.args = [i \in DOMAIN m.args |-> m.args[i]]
  BY <1>3, Zenon DEF WellRead
<1>6. p.args = m.args
  BY <1>4, Zenon
<1>7. p.ret = "ok" /\ p.sub = m.sub
  BY Zenon DEF WellRead
<1>8. ASSUME NEW o \in ToSet(Bindings[m.name].opts)
      PROVE  IF {i \in DOMAIN m.opts : m.opts[i].key = o.key} = {} THEN ~srn_command_get_opt(p, o.key).given
             ELSE \E i \in {j \in DOMAIN m.opts : m.opts[j].key = o.key} :
                    srn_command_get_opt(p, o.key) = [given |-> TRUE, value |-> m.opts[i].value]
  <2>1. IF {i \in DOMAIN m.opts : m.opts[i].key = o.key} = {} THEN ~srn_command_get_opt(p, o.key).given
        ELSE \E i \in {j \in DOMAIN m.opts : m.opts[j].key = o.key} :
               srn_command_get_opt(p, o.key)
                 = [given |-> TRUE, value |-> Arrives(m.opts[i].value, bare /\ MayStandBare(m.opts[i].value, FALSE))]
    BY <1>8, Zenon DEF WellRead
  <2> QED BY <1>2, <2>1, Zenon
<1> QED BY <1>6, <1>7, <1>8, Zenon DEF ReadAsMeant

LEMMA ReadWell == CommandInv => ReadAsWritten
<1> SUFFICES ASSUME CommandInv, typedCommand # <<>>, Readable(typedCommand.cmd),
                    ~MarksEscaped(typedCommand.cmd, typedCommand.bare)
             PROVE  ReadAsMeant(parsed, typedCommand.cmd)
  BY Zenon DEF ReadAsWritten
<1>8. Len(typedCommand.cmd.opts) < MaxOpts /\ ~NamedLikeSub(typedCommand.cmd)
  BY DEF Readable
<1>1. PICK name \in DOMAIN Bindings, bare \in BOOLEAN : \E m \in CommandsOf(name) :
        typedCommand = [cmd |-> m, bare |-> bare] /\ parsed = srn_command_parse(LineFor(m, bare))
  BY Zenon DEF CommandInv
<1>2. PICK m \in CommandsOf(name) :
        typedCommand = [cmd |-> m, bare |-> bare] /\ parsed = srn_command_parse(LineFor(m, bare))
  BY <1>1
<1>3. typedCommand.cmd = m /\ typedCommand.bare = bare
  BY <1>2
<1>4. IsParsedAs(m, bare, Bindings[name])
  BY <1>1, <1>2, <1>3, <1>8, LineRead
<1>9. m.name = name /\ \E na : IsCommand(Bindings[name], m, na)
  BY <1>1, <1>2, <1>3, <1>8, Commanded
<1>5. m.name = name /\ (m.opts = <<>> \/ \E o : m.opts = <<o>>)
  BY <1>9, Zenon DEF IsCommand
<1>6. parsed = ParseMeant(Bindings[m.name], m, bare)
  BY <1>2, <1>4, <1>5, Zenon DEF IsParsedAs
<1>7. WellRead(parsed, m, bare)
  BY <1>5, <1>6, MeantWell
<1>10. ReadAsMeant(parsed, m)
  <2>1. m.args = [i \in DOMAIN m.args |-> m.args[i]]
    BY ArgumentsAre
  <2> QED BY <1>3, <1>7, <1>9, <2>1, MeantWhole
<1> QED BY <1>3, <1>10

(* What is parsed is the line that was typed. *)
THEOREM CommandInvariance == CommandSpec => []CommandInv
<1>1. CommandInit => CommandInv
  BY DEF CommandInit, CommandInv
<1>2. CommandInv /\ [CommandNext]_commandVars => CommandInv'
  <2> SUFFICES ASSUME CommandInv, [CommandNext]_commandVars PROVE CommandInv'
    OBVIOUS
  <2>1. CASE TypeCommand
    BY <2>1, Zenon DEF TypeCommand, CommandInv
  <2>2. CASE CommandDone
    BY <2>2 DEF CommandDone, CommandInv
  <2>3. CASE UNCHANGED commandVars
    BY <2>3 DEF commandVars, CommandInv
  <2> QED BY <2>1, <2>2, <2>3 DEF CommandNext
<1> QED BY <1>1, <1>2, PTL DEF CommandSpec

(* A command written as the documentation has it is read as it was meant:  *)
(* its subcommand, its options and its arguments, for every value they may *)
(* have (srn_command_parse of lib/command.c).                              *)
THEOREM CommandsReadAsWritten == CommandSpec => []ReadAsWritten
<1>1. CommandInv => ReadAsWritten
  BY ReadWell
<1> QED BY <1>1, CommandInvariance, PTL
=============================================================================
