---------------------------- MODULE ConnectPanel ----------------------------
(***************************************************************************)
(* The connect panel (sui/sui_connect_panel.c): a server is picked or      *)
(* named, its configuration fills the form, the user edits it, and the     *)
(* button makes a server of it.  Passwords come from the secret service    *)
(* (config/password.c): with the configuration at once, after a change of  *)
(* the nick later.                                                         *)
(*                                                                         *)
(* A server that was just made accepts to connect; when it is DISCONNECTED *)
(* again it may be removed.  The certificates of the form are left out,    *)
(* they go the way of the host, and so is the login method, which is       *)
(* checked with the configuration (ConfigReload).                          *)
(***************************************************************************)
EXTENDS Naturals, FiniteSets

CONSTANTS
  SrvNames,   \* what the user names
  Configured, \* of those with a section: [host, nick]
  PanelNicks,
  MaxAsking,  \* lookups under way
  MaxListed     \* servers of the list

None == ""
Secret == "secret"

(* The nick of a section is one of those the user may enter. *)
ASSUME ConfiguredAssumption ==
  /\ DOMAIN Configured \subseteq SrvNames
  /\ \A n \in DOMAIN Configured : Configured[n].nick \in PanelNicks \cup {None}

VARIABLES
  form,    \* the entries: name, host, pass, nick, login
  asking,  \* lookups of login passwords that are to come: name and nick
  stored,  \* what the secret service holds: <<name>> and <<name, nick>>
  servers  \* those of the list

panelVars == <<form, asking, stored, servers>>

Cleared == [name |-> None, host |-> None, pass |-> None, nick |-> None, login |-> None]
Forms == [name : SrvNames \cup {None}, host : {None, "typed"} \cup {Configured[n].host : n \in DOMAIN Configured},
          pass : {None, Secret}, nick : PanelNicks \cup {None}, login : {None, Secret}]

PanelTypeOK ==
  /\ form \in Forms
  /\ asking \subseteq (SrvNames \cup {None}) \X PanelNicks
  /\ servers \subseteq SrvNames \cup {None}
  /\ \A k \in stored : k[1] \in SrvNames \cup {None}

PanelInit ==
  /\ form = Cleared
  /\ asking = {} /\ servers = {}
  /\ stored \in SUBSET {<<n>> : n \in DOMAIN Configured}

-----------------------------------------------------------------------------
(* srn_config_manager_lookup_server_password *)
Held(k) == IF k \in stored THEN Secret ELSE None

(* srn_config_manager_lookup_user_password *)
HeldLogin(n, nick) == IF <<n, nick>> \in stored THEN Secret ELSE None

(* srn_config_manager_read_server_config for a name *)
Read(n) ==
  LET c == IF n \in DOMAIN Configured THEN Configured[n]
           ELSE [host |-> None, nick |-> None]
  IN  [name |-> n, host |-> c.host, pass |-> Held(<<n>>), nick |-> c.nick,
       login |-> HeldLogin(n, c.nick)]

Or(value, else) == IF value # None THEN value ELSE else

(* nick_entry_on_changed asks for the login password of the new nick. *)
Asked(n, nick) == IF nick = form.nick \/ nick = None THEN asking ELSE asking \cup {<<n, nick>>}

(* server_combo_box_on_changed, update: a server that has no host or no    *)
(* password leaves those of the one before.                                *)
PickServer(n) ==
  /\ n # form.name /\ Cardinality(asking) < MaxAsking
  /\ form' = IF n = None THEN Cleared
             ELSE LET c == Read(n)
                  IN  [c EXCEPT !.host = Or(@, form.host), !.pass = Or(@, form.pass)]
  /\ asking' = IF n = None THEN asking ELSE Asked(n, Read(n).nick)
  /\ UNCHANGED <<stored, servers>>

EditHost(host) == form' = [form EXCEPT !.host = host] /\ UNCHANGED <<asking, stored, servers>>

EditPassword(field, p) ==
  /\ form' = [form EXCEPT ![field] = p] /\ UNCHANGED <<asking, stored, servers>>

EditNick(nick) ==
  /\ nick # form.nick /\ Cardinality(asking) < MaxAsking
  /\ form' = [form EXCEPT !.nick = nick, !.login = IF nick = None THEN None ELSE @]
  /\ asking' = Asked(form.name, nick)
  /\ UNCHANGED <<stored, servers>>

(* on_password_lookup, whatever the form says by now. *)
LookupAnswer(k) ==
  /\ k \in asking /\ asking' = asking \ {k}
  /\ form' = [form EXCEPT !.login = Or(HeldLogin(k[1], k[2]), @)]
  /\ UNCHANGED <<stored, servers>>

CancelForm == form' = Cleared /\ UNCHANGED <<asking, stored, servers>>

(* srn_config_manager_store_server_password, or _clear_ when it is empty *)
Remembered(keys, n, p) == IF p # None THEN keys \cup {<<n>>} ELSE keys \ {<<n>>}

(* srn_config_manager_store_user_password and _clear_ *)
RememberedLogin(keys, n, nick, p) ==
  IF p # None THEN keys \cup {<<n, nick>>} ELSE keys \ {<<n, nick>>}

(* connect_button_on_click, from the advanced page: what is remembered is  *)
(* so even when no server comes of it.  An empty login password is one.    *)
ClickConnect(passToo, loginToo) ==
  LET c == Read(form.name)
      s == [form EXCEPT !.host = Or(@, c.host), !.nick = Or(@, c.nick)]
      ok == s.host # None /\ s.nick # None /\ form.name \notin servers
  IN  /\ Cardinality(servers \cup {form.name}) <= MaxListed
      /\ stored' = LET withPass == IF passToo THEN Remembered(stored, form.name, form.pass)
                                              ELSE stored
                   IN  IF loginToo THEN RememberedLogin(withPass, form.name, form.nick, form.login)
                                   ELSE withPass
      /\ IF ok THEN servers' = servers \cup {form.name} /\ form' = Cleared
               ELSE UNCHANGED <<servers, form>>
      /\ UNCHANGED asking

(* From the quick page: the configured server with another nick. *)
QuickConnect(n, nick) ==
  LET c == Read(n)
      s == [c EXCEPT !.nick = Or(nick, @)]
      ok == s.host # None /\ s.nick # None /\ n \notin servers
  IN  /\ n \in DOMAIN Configured /\ Cardinality(servers \cup {n}) <= MaxListed
      /\ IF ok THEN servers' = servers \cup {n} /\ form' = Cleared
               ELSE UNCHANGED <<servers, form>>
      /\ UNCHANGED <<asking, stored>>

RemoveMade(n) == n \in servers /\ servers' = servers \ {n} /\ UNCHANGED <<form, asking, stored>>

PanelNext ==
  \/ \E n \in SrvNames \cup {None} : PickServer(n)
  \/ \E host \in {None, "typed"} : EditHost(host)
  \/ \E field \in {"pass", "login"}, p \in {None, Secret} : EditPassword(field, p)
  \/ \E nick \in PanelNicks \cup {None} : EditNick(nick)
  \/ \E k \in asking : LookupAnswer(k)
  \/ CancelForm
  \/ \E passToo, loginToo \in BOOLEAN : ClickConnect(passToo, loginToo)
  \/ \E n \in DOMAIN Configured, nick \in PanelNicks \cup {None} : QuickConnect(n, nick)
  \/ \E n \in servers : RemoveMade(n)

PanelSpec == PanelInit /\ [][PanelNext]_panelVars
=============================================================================
