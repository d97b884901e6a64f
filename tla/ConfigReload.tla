---------------------------- MODULE ConfigReload ----------------------------
(***************************************************************************)
(* Configurations: how they are read from the system and the user file     *)
(* (config/manager.c, config/reader.c, core/*_config.c), who points to     *)
(* them and what a reload changes (core/app.c, core/server.c).             *)
(*                                                                         *)
(* A file is a record of its general `server' section, its `server-list'   *)
(* and whether its `chat-list-order' is a valid one; a section is a record *)
(* of the fields it has.  libconfig and the secret service are external.   *)
(* A configuration is named after its owner and the step that made it; the *)
(* autorun commands of servers and chats do not reload.                    *)
(***************************************************************************)
EXTENDS Naturals, Sequences, SequencesExt

CONSTANTS
  Names,      \* names of servers
  SystemFile, \* the built-in file, parsed
  UserFiles,  \* what the user file may hold
  Malformed,  \* a user file that cannot be parsed
  Secrets,    \* servers with a password in the secret service
  OwnConfig,  \* what the connect panel or an URL asks for
  MaxMade     \* steps that make configurations

Chan == "#chan"

ASSUME ConfigBound == MaxMade \in Nat

VARIABLES
  file,    \* the user file on disk
  userCfg, \* SrnConfigManager.user_cfg
  srvList, \* srv_list
  chan,    \* the servers that have a chat for Chan
  uses,    \* who uses which configuration of its owner
  is,      \* what the configurations of servers and chats say
  freed,
  strays,  \* what servers off the list that were not freed go by
  made,    \* steps that made configurations
  told     \* what the last reload said: "ok", "error", "nothing"; "nothing"
           \* once the file is edited or a server comes from elsewhere

configVars == <<file, userCfg, srvList, chan, uses, is, freed, strays, made, told>>

EmptyFile == [order |-> FALSE, server |-> <<>>, list |-> <<>>]
Parsed(f) == IF f = Malformed THEN EmptyFile ELSE f

-----------------------------------------------------------------------------
(* Reading.                                                                *)

Field(sec, name, else) == IF name \in DOMAIN sec THEN sec[name] ELSE else

(* Sections that apply to a server: the general one and those of its name. *)
Sections(f, s) ==
  <<f.server>> \o SelectSeq(f.list, LAMBDA sec : Field(sec, "name", "") = s)

NewServerConfig == [addrs |-> <<>>, tls |-> FALSE, noverify |-> FALSE,
                    nick |-> "", login |-> "none", cert |-> "", join |-> FALSE]

PasswordLogins == {"nickserv", "msg-nickserv", "sasl-plain"}
Challenge == "sasl-ecdsa-nist256p-challenge"

(* srn_login_method_from_string *)
LoginMethod(str) ==
  CASE str = "sasl-ecdsa" -> Challenge
    [] str \in PasswordLogins \cup {Challenge, "none", "sasl-external"} -> str
    [] OTHER -> "unknown"

(* read_user_config_from_user: a login section without a method means none. *)
ReadUser(cfg, sec) ==
  LET login == Field(sec, "login", <<>>)
  IN  [cfg EXCEPT !.nick = Field(sec, "nickname", @),
                  !.login = IF "login" \in DOMAIN sec THEN LoginMethod(Field(login, "method", "none"))
                                                       ELSE @,
                  !.cert = Field(login, "certificate", @)]

(* read_server_config_from_server: addresses and chats to join add up, the *)
(* rest is replaced.                                                       *)
ReadSection(cfg, sec) ==
  LET noverify == Field(sec, "tls_noverify", cfg.noverify)
  IN  [ReadUser(cfg, sec) EXCEPT !.addrs = @ \o Field(sec, "addresses", <<>>),
                                 !.noverify = noverify,
                                 !.tls = noverify \/ Field(sec, "tls", @),
                                 !.join = @ \/ Field(sec, "auto_join", FALSE)]

ReadServer(user, s) ==
  FoldLeft(ReadSection, NewServerConfig, Sections(SystemFile, s) \o Sections(user, s))

(* srn_login_config_check: the method has what it needs. *)
LoginChecked(cfg, s) ==
  CASE cfg.login \in PasswordLogins -> s \in Secrets
    [] cfg.login = Challenge -> cfg.cert # ""
    [] cfg.login = "unknown" -> FALSE
    [] OTHER -> TRUE

(* srn_user_config_check; user and real name fall back on the nick. *)
UserChecked(cfg, s) == cfg.nick # "" /\ LoginChecked(cfg, s)

(* srn_server_config_check *)
ServerChecked(cfg, s) == cfg.addrs # <<>> /\ UserChecked(cfg, s)

NewChatConfig == [log |-> FALSE, notify |-> FALSE]

ReadChatSection(cfg, sec) == [log    |-> Field(sec, "log", cfg.log),
                              notify |-> Field(sec, "notify", cfg.notify)]

(* A chat-list is looked for in the general section only: that of a server *)
(* in server-list is looked up under a path that no section has.           *)
ChatSections(f, s) ==
  LET general == Field(f.server, "chat_list", <<>>)
      named   == SelectSeq(f.list, LAMBDA sec : Field(sec, "name", "") = s)
  IN  <<Field(f.server, "chat", <<>>), Field(general, Chan, <<>>)>>
        \o [i \in DOMAIN named |-> Field(named[i], "chat", <<>>)]

ReadChat(user, s) ==
  FoldLeft(ReadChatSection, NewChatConfig, ChatSections(SystemFile, s) \o ChatSections(user, s))

OrderValid(user) == SystemFile.order \/ user.order

-----------------------------------------------------------------------------
(* Who uses them.  Each user is a pair of its kind and a server, or "".    *)

OwnerOf(u) == CASE u[1] \in {"app", "ui", "window"}         -> <<"app", "">>
                [] u[1] \in {"logger", "quit"}              -> <<"logger", "">>
                [] u[1] \in {"server", "session", "addr"}   -> <<"server", u[2]>>
                [] u[1] \in {"own", "ownbuffer"}            -> <<"own", u[2]>>
                [] u[1] \in {"chat", "buffer"}              -> <<"chat", u[2]>>

Global == {"app", "ui", "window", "logger", "quit"} \X {""}
OfServer(s) == {"server", "session", "addr", "own", "ownbuffer"} \X {s}
OfChat(s) == {"chat", "buffer"} \X {s}
Users == Global \cup UNION {OfServer(s) \cup OfChat(s) : s \in Names}

Point(us, n) == [u \in DOMAIN uses \cup us |-> IF u \in us THEN n ELSE uses[u]]
Drop(us) == [u \in DOMAIN uses \ us |-> uses[u]]
ConfigsOf(us) == {<<OwnerOf(u), uses[u]>> : u \in us \cap DOMAIN uses}

(* Configurations that were read over those that stay. *)
Saying(read) == [o \in DOMAIN read \cup DOMAIN is |-> IF o \in DOMAIN read THEN read[o] ELSE is[o]]

Listed(s) == s \in ToSet(srvList)

ConfigTypeOK ==
  /\ file \in UserFiles \cup {Malformed} /\ userCfg \in UserFiles \cup {EmptyFile}
  /\ ToSet(srvList) \subseteq Names /\ IsInjective(srvList)
  /\ chan \subseteq ToSet(srvList)
  /\ DOMAIN uses = Global \cup (UNION {OfServer(s) : s \in ToSet(srvList)})
                          \cup (UNION {OfChat(s) : s \in chan})
  /\ \A u \in DOMAIN uses : uses[u] \in 0..made
  /\ strays \subseteq ({"server", "own", "chat"} \X Names) \X (0..made)
  /\ made \in 0..MaxMade /\ told \in {"ok", "error", "nothing"}

(* srn_application_new: nothing is checked at the start. *)
ConfigInit ==
  /\ file \in UserFiles \cup {Malformed}
  /\ userCfg = Parsed(file)
  /\ srvList = <<>> /\ chan = {}
  /\ uses = [u \in Global |-> 0]
  /\ is = <<>> /\ freed = {} /\ strays = {} /\ made = 0 /\ told = "nothing"

EditFile(f) ==
  /\ f # file /\ file' = f /\ told' = "nothing"
  /\ UNCHANGED <<userCfg, srvList, chan, uses, is, freed, strays, made>>

(* srn_application_add_server_with_config; srn_server_add_chat for its own *)
(* chat and the one to join.                                               *)
Add(s, cfg) ==
  LET us == OfServer(s) \cup (IF cfg.join THEN OfChat(s) ELSE {})
  IN  /\ made < MaxMade /\ made' = made + 1
      /\ IF ServerChecked(cfg, s)
           THEN /\ srvList' = Append(srvList, s)
                /\ chan' = IF cfg.join THEN chan \cup {s} ELSE chan
                /\ uses' = Point(us, made + 1)
                /\ is' = Saying([o \in {<<"server", s>>, <<"chat", s>>} |->
                                 IF o[1] = "server" THEN cfg ELSE ReadChat(userCfg, s)])
                /\ UNCHANGED freed
           ELSE /\ freed' = freed \cup {<<<<"server", s>>, made + 1>>}
                /\ UNCHANGED <<srvList, chan, uses, is>>
      /\ UNCHANGED <<file, userCfg, strays>>

(* srn_application_add_server *)
AddServer(s) == ~Listed(s) /\ Add(s, ReadServer(userCfg, s)) /\ UNCHANGED told

(* The connect panel and URLs bring their own configuration. *)
AddServerWith(s) == ~Listed(s) /\ Add(s, OwnConfig) /\ told' = "nothing"

(* srn_application_rm_server frees the configuration of the server also    *)
(* when srn_server_free has returned early, the server not being           *)
(* DISCONNECTED.                                                           *)
RemoveServer(s, disconnected) ==
  LET us   == OfServer(s) \cup OfChat(s)
      ends == IF disconnected THEN us ELSE {<<"server", s>>}
  IN  /\ Listed(s)
      /\ \E i \in DOMAIN srvList : srvList[i] = s /\ srvList' = RemoveAt(srvList, i)
      /\ chan' = chan \ {s}
      /\ uses' = Drop(us) /\ freed' = freed \cup ConfigsOf(ends)
      /\ strays' = strays \cup (IF disconnected THEN {} ELSE ConfigsOf(us))
      /\ UNCHANGED <<file, userCfg, is, made, told>>

(* srn_server_add_chat, srn_server_rm_chat *)
OpenChat(s) ==
  /\ Listed(s) /\ s \notin chan /\ made < MaxMade
  /\ chan' = chan \cup {s} /\ made' = made + 1
  /\ uses' = Point(OfChat(s), made + 1)
  /\ is' = Saying([o \in {<<"chat", s>>} |-> ReadChat(userCfg, s)])
  /\ UNCHANGED <<file, userCfg, srvList, freed, strays, told>>

CloseChat(s) ==
  /\ s \in chan /\ chan' = chan \ {s}
  /\ uses' = Drop(OfChat(s)) /\ freed' = freed \cup ConfigsOf(OfChat(s))
  /\ UNCHANGED <<file, userCfg, srvList, is, strays, made, told>>

-----------------------------------------------------------------------------
(* Mutant: the window goes on with the configuration it was made with. *)
Moved_NoWindow(us) == us \ {<<"window", "">>}

(* Mutant: the chats of a server are left out. *)
Moved_NoChats(us) == {u \in us : u[1] \notin {"chat", "buffer"}}

(* Users that are given the new configuration: sui_application_set_config *)
(* reaches the windows, srn_server_set_config the session and the address, *)
(* srn_chat_set_config the buffer.                                         *)
Moved(us) == us

(* What the loop over srv_list does with servers that pass their checks:   *)
(* the server's own chat keeps what it has.                                *)
ReloadUsers(ss) == ({"server", "session", "addr"} \X ss) \cup ({"chat", "buffer"} \X (ss \cap chan))

(* The old configuration of an owner is freed once the new one is set. *)
Replaced(us) ==
  /\ uses' = Point(Moved(us), made + 1)
  /\ freed' = freed \cup ConfigsOf({u \in Moved(us) : u[1] \in {"app", "logger", "server", "chat"}})

ReloadFails(us) == Replaced(us) /\ told' = "error"

(* srn_application_reload_config. *)
ReloadConfig ==
  LET new    == Parsed(file)
      Good(s) == ServerChecked(ReadServer(new, s), s)
      first  == {i \in DOMAIN srvList : \A j \in 1..i : Good(srvList[j])}
      ss     == {srvList[i] : i \in first}
      app    == {"app", "ui", "window"} \X {""}
      logger == {<<"logger", "">>}
  IN  /\ made < MaxMade /\ made' = made + 1
      /\ userCfg' = new
      /\ IF file = Malformed
           THEN ReloadFails({}) /\ UNCHANGED is
         ELSE IF ~OrderValid(new)
           THEN ReloadFails(logger) /\ UNCHANGED is
         ELSE /\ Replaced(logger \cup app \cup ReloadUsers(ss))
              /\ is' = Saying([o \in {OwnerOf(u) : u \in Moved(ReloadUsers(ss))} |->
                                 IF o[1] = "server" THEN ReadServer(new, o[2]) ELSE ReadChat(new, o[2])])
              /\ told' = IF \A s \in ToSet(srvList) : Good(s) THEN "ok" ELSE "error"
      /\ UNCHANGED <<file, srvList, chan, strays>>

ConfigNext ==
  \/ \E f \in UserFiles \cup {Malformed} : EditFile(f)
  \/ \E s \in Names : AddServer(s) \/ AddServerWith(s) \/ OpenChat(s) \/ CloseChat(s)
  \/ \E s \in Names, disconnected \in BOOLEAN : RemoveServer(s, disconnected)
  \/ ReloadConfig

ConfigSpec == ConfigInit /\ [][ConfigNext]_configVars

-----------------------------------------------------------------------------
(* Nothing that is used while the program runs points to a configuration   *)
(* that is freed, however reloads fail half-way, servers and chats come    *)
(* and go between them.  (The pointer that srn_application_quit frees does *)
(* so after the first reload.)  A server taken off the list before it is   *)
(* DISCONNECTED is the exception, it and its session go on with what is    *)
(* freed; but its chats do not.                                            *)
ConfigsLive ==
  /\ \A u \in DOMAIN uses \ {<<"quit", "">>} : <<OwnerOf(u), uses[u]>> \notin freed
  /\ \A c \in strays : c \in freed <=> c[1][1] = "server"

(* When a reload said that all was reloaded, every server and every chat   *)
(* of its list goes by what the file said then, those of later steps too.  *)
AllReloaded ==
  told = "ok" => /\ userCfg = file
                 /\ \A s \in ToSet(srvList) : is[<<"server", s>>] = ReadServer(file, s)
                 /\ \A s \in chan : is[<<"chat", s>>] = ReadChat(file, s)
=============================================================================
