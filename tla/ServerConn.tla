----------------------------- MODULE ServerConn -----------------------------
(***************************************************************************)
(* One SrnServer object of Srain, from its creation to the release of its  *)
(* memory: the connection state machine (core/server_state.c), the         *)
(* asynchronous IRC session it drives (sirc/sirc.c), the GLib timeouts and *)
(* idle callbacks that hold a raw pointer to it, the IRC events that feed  *)
(* back into the state machine (core/app_irc_event.c) and the commands and *)
(* UI events that call it (core/chat_command.c, core/app_ui_event.c).      *)
(*                                                                         *)
(* The program is single threaded: every source dispatched by the GLib     *)
(* main loop is one atomic step.  The exception is                         *)
(* srn_server_wait_until_registered, which runs a nested main loop: the    *)
(* suspended command is a frame of "waits", and any other source may run   *)
(* before it resumes.                                                      *)
(*                                                                         *)
(* A combination of state and action that the state machine refuses        *)
(* changes nothing, so it is not an action here unless its caller changes  *)
(* something else.  Durations (reconn_interval, last_pong) are abstracted: *)
(* an armed timeout fires at some later time.  Message texts are left out. *)
(*                                                                         *)
(* A callback that runs on a freed server is undefined behaviour; since    *)
(* srn_server_is_valid then compares a dangling pointer with the server    *)
(* list, what the code can still do is return early, and that is the       *)
(* outcome the actions below give it ("freed" is never left).              *)
(***************************************************************************)
EXTENDS Naturals, Sequences

CONSTANTS
  Timers,     \* GLib source ids, one pool per kind of timeout
  NoTimer,    \* the id 0 of an unset timer field
  MaxIdles,   \* bound: pending idle_to_rm_server callbacks
  MaxRejoins, \* bound: pending rejoin_all_channels_cb timeouts
  MaxWaits    \* bound: nested srn_server_wait_until_registered calls

ASSUME TimersAssumption == NoTimer \notin Timers
ASSUME BoundsAssumption == MaxIdles \in Nat /\ MaxRejoins \in Nat /\ MaxWaits \in Nat

VARIABLES
  life,         \* where the object is: not created, in srv_list, out of it, freed
  state,        \* srv->state
  registered,   \* srv->registered
  connectOps,   \* outstanding g_socket_client_connect_to_host_async
  handshakeOps, \* outstanding g_tls_connection_handshake_async
  readOps,      \* outstanding g_input_stream_read_async
  cancelled,    \* sirc->cancel is in the cancelled state
  stream,       \* sirc->stream
  reconnLive,   \* armed srn_server_reconnect_timeout sources
  reconn_timer, \* srv->reconn_timer
  pingLive,     \* armed do_period_ping sources
  ping_timer,   \* srv->ping_timer
  rejoins,      \* armed rejoin_all_channels_cb sources
  idles,        \* pending idle_to_rm_server sources
  waits         \* stack of commands suspended in the nested main loop

session == <<connectOps, handshakeOps, readOps, cancelled, stream>>
reconn  == <<reconnLive, reconn_timer>>
ping    == <<registered, pingLive, ping_timer, rejoins>>
vars    == <<life, state, session, reconn, ping, idles, waits>>

States == {"DISCONNECTED", "CONNECTING", "CONNECTED",
           "DISCONNECTING", "QUITING", "RECONNECTING"}
Lives   == {"absent", "listed", "dropped", "freed"}
Streams == {"null", "open", "closing", "closed"}

(* A suspended wait: the loop it is in, and whether its command removes    *)
(* the server when the registration failed (/connect does).                *)
Waits == [phase : {"connecting", "registering"}, drop : BOOLEAN]

Listed == life = "listed"   \* srn_server_is_valid

srn_server_is_registered == Listed /\ state = "CONNECTED" /\ registered

TypeOK ==
  /\ life \in Lives
  /\ state \in States
  /\ registered \in BOOLEAN
  /\ connectOps \in Nat /\ handshakeOps \in Nat /\ readOps \in Nat
  /\ cancelled \in BOOLEAN
  /\ stream \in Streams
  /\ reconnLive \in SUBSET Timers /\ reconn_timer \in Timers \cup {NoTimer}
  /\ pingLive \in SUBSET Timers /\ ping_timer \in Timers \cup {NoTimer}
  /\ rejoins \in Nat
  /\ idles \in Nat
  /\ waits \in Seq(Waits)

Init ==
  /\ life = "absent"
  /\ state = "DISCONNECTED"
  /\ registered = FALSE
  /\ connectOps = 0 /\ handshakeOps = 0 /\ readOps = 0
  /\ cancelled = FALSE
  /\ stream = "null"
  /\ reconnLive = {} /\ reconn_timer = NoTimer
  /\ pingLive = {} /\ ping_timer = NoTimer
  /\ rejoins = 0
  /\ idles = 0
  /\ waits = <<>>

-----------------------------------------------------------------------------
(* The calls of the session (sirc/sirc.c).                                 *)

(* Mutant: the cancellable of the previous attempt is not reset. *)
sirc_connect_NoReset ==
  /\ connectOps' = connectOps + 1
  /\ UNCHANGED <<cancelled, handshakeOps, readOps, stream>>

sirc_connect ==
  /\ connectOps' = connectOps + 1
  /\ cancelled' = FALSE
  /\ UNCHANGED <<handshakeOps, readOps, stream>>

(* Mutant: the cancellable is not triggered. *)
sirc_cancel_connect_Lost == UNCHANGED session

sirc_cancel_connect ==
  /\ cancelled' = TRUE
  /\ UNCHANGED <<connectOps, handshakeOps, readOps, stream>>

(* A second close of a stream that is closing or closed only fails in      *)
(* on_disconnect_ready, which ignores the error.                           *)
sirc_disconnect ==
  /\ stream' = IF stream = "open" THEN "closing" ELSE stream
  /\ UNCHANGED <<connectOps, handshakeOps, readOps, cancelled>>

(* Mutant: nothing is read from a new connection. *)
sirc_recv_Forgotten == UNCHANGED readOps

sirc_recv == readOps' = readOps + 1

(* The timer and idle sources of the state machine.                        *)

(* Mutants: the id of the new timeout is not stored; the timeout is not    *)
(* armed.                                                                  *)
ArmReconnect_IdLost ==
  /\ \E t \in Timers \ (reconnLive \cup {reconn_timer}) :
       reconnLive' = reconnLive \cup {t}
  /\ UNCHANGED reconn_timer
ArmReconnect_NotArmed == UNCHANGED reconn

ArmReconnect ==
  \E t \in Timers \ (reconnLive \cup {reconn_timer}) :
    /\ reconnLive' = reconnLive \cup {t}
    /\ reconn_timer' = t

StopReconnect ==
  /\ reconnLive' = reconnLive \ {reconn_timer}
  /\ reconn_timer' = NoTimer

(* Mutant: the "free" flag of the transition is ignored. *)
ScheduleRemoval_Forgotten == UNCHANGED idles

ScheduleRemoval ==
  /\ idles < MaxIdles
  /\ idles' = idles + 1

(* irc_event_disconnect stops the periodic ping.                           *)
(* Mutant: only the field is cleared, the source stays armed.              *)
StopPing_FieldOnly == UNCHANGED pingLive /\ ping_timer' = NoTimer

StopPing ==
  /\ pingLive' = pingLive \ {ping_timer}
  /\ ping_timer' = NoTimer

(* Mutant: the memory is released in any state. *)
srn_application_rm_server_AnyState == life' = "freed"

(* srn_application_rm_server and srn_server_free: the object always leaves *)
(* the server list, but its memory is only released when DISCONNECTED.     *)
srn_application_rm_server ==
  life' = IF state = "DISCONNECTED" THEN "freed" ELSE "dropped"

-----------------------------------------------------------------------------
(* srn_server_state_transfrom, one operator per SrnServerAction.  The      *)
(* operators for the three events raised by the session leave the session  *)
(* variables to the event handler.                                         *)

(* Mutant: the refusal "already connecting" is missing. *)
ActionConnect_Twice ==
  /\ state \in {"DISCONNECTED", "CONNECTING", "RECONNECTING"}
  /\ state' = "CONNECTING"
  /\ sirc_connect
  /\ UNCHANGED idles

ActionConnect ==
  /\ state \in {"DISCONNECTED", "RECONNECTING"}
  /\ state' = "CONNECTING"
  /\ sirc_connect
  /\ UNCHANGED idles

(* Mutant: a failed attempt leaves the state at CONNECTING. *)
ActionConnectFail_Ignored ==
  \/ state = "CONNECTING" /\ UNCHANGED <<state, reconn, idles>>
  \/ /\ state = "QUITING"
     /\ state' = "DISCONNECTED"
     /\ ScheduleRemoval
     /\ UNCHANGED reconn

ActionConnectFail ==
  \/ /\ state = "CONNECTING"
     /\ state' = "RECONNECTING"
     /\ ArmReconnect
     /\ UNCHANGED idles
  \/ /\ state = "QUITING"
     /\ state' = "DISCONNECTED"
     /\ ScheduleRemoval
     /\ UNCHANGED reconn

ActionConnectFinish ==
  /\ state = "CONNECTING"
  /\ state' = "CONNECTED"
  /\ UNCHANGED <<reconn, idles>>

ActionDisconnect ==
  /\ UNCHANGED idles
  /\ \/ /\ state = "CONNECTING"
        /\ state' = "DISCONNECTING"
        /\ sirc_cancel_connect
        /\ UNCHANGED reconn
     \/ /\ state = "CONNECTED"
        /\ state' = "DISCONNECTING"
        /\ sirc_disconnect
        /\ UNCHANGED reconn
     \/ /\ state = "RECONNECTING"
        /\ state' = "DISCONNECTED"
        /\ StopReconnect
        /\ UNCHANGED session

(* Mutant: the state leaves CONNECTED before the connection is closed. *)
ActionReconnect_TooEarly ==
  /\ UNCHANGED <<reconn, idles>>
  /\ \/ /\ state = "DISCONNECTED"
        /\ state' = "CONNECTING"
        /\ sirc_connect
     \/ /\ state = "CONNECTED"
        /\ state' = "CONNECTING"
        /\ sirc_disconnect

ActionReconnect ==
  /\ UNCHANGED <<reconn, idles>>
  /\ \/ /\ state = "DISCONNECTED"
        /\ state' = "CONNECTING"
        /\ sirc_connect
     \/ /\ state = "CONNECTED"
        /\ state' = state
        /\ sirc_disconnect

ActionQuit ==
  \/ /\ state = "DISCONNECTED"
     /\ ScheduleRemoval
     /\ UNCHANGED <<state, session, reconn>>
  \/ /\ state \in {"CONNECTING", "QUITING"}     \* force quit
     /\ state' = "QUITING"
     /\ sirc_cancel_connect
     /\ UNCHANGED <<reconn, idles>>
  \/ /\ state = "CONNECTED"                     \* QUIT is sent to the peer
     /\ state' = "QUITING"
     /\ UNCHANGED <<session, reconn, idles>>
  \/ /\ state = "RECONNECTING"
     /\ state' = "DISCONNECTED"
     /\ StopReconnect
     /\ ScheduleRemoval
     /\ UNCHANGED session

ActionDisconnectFinish ==
  \/ /\ state = "CONNECTED"
     /\ state' = "RECONNECTING"
     /\ ArmReconnect
     /\ UNCHANGED idles
  \/ /\ state = "DISCONNECTING"
     /\ state' = "DISCONNECTED"
     /\ UNCHANGED <<reconn, idles>>
  \/ /\ state = "QUITING"
     /\ state' = "DISCONNECTED"
     /\ ScheduleRemoval
     /\ UNCHANGED reconn

-----------------------------------------------------------------------------
(* Commands and UI events.                                                 *)

(* srn_application_auto_connect_server: created and connected, no wait.    *)
AutoConnect ==
  /\ life = "absent"
  /\ life' = "listed"
  /\ ActionConnect
  /\ UNCHANGED <<registered, reconn, pingLive, ping_timer, rejoins, waits>>

PushWait(drop) ==
  /\ Len(waits) < MaxWaits
  /\ waits' = <<[phase |-> "connecting", drop |-> drop]>> \o waits

(* /connect <addr> (drop) or /server connect <name> and irc:// URLs (no     *)
(* drop) on a server that does not exist yet: create it, connect, wait.     *)
CommandConnect(drop) ==
  /\ life = "absent"
  /\ life' = "listed"
  /\ ActionConnect
  /\ PushWait(drop)
  /\ UNCHANGED <<registered, reconn, pingLive, ping_timer, rejoins>>

(* /server connect <name> on an existing server.                           *)
CommandServerConnect ==
  /\ Listed
  /\ ActionConnect
  /\ PushWait(FALSE)
  /\ UNCHANGED <<life, reconn, ping>>

(* ui_event_disconnect and /server disconnect.                             *)
UserDisconnect ==
  /\ Listed
  /\ ActionDisconnect
  /\ UNCHANGED <<life, ping, waits>>

(* ui_event_reconnect; a RECONNECTING server ignores it.                   *)
UserReconnect ==
  /\ Listed
  /\ ActionReconnect
  /\ UNCHANGED <<life, ping, waits>>

(* ui_event_quit and /quit.                                                *)
UserQuit ==
  /\ Listed
  /\ ActionQuit
  /\ UNCHANGED <<life, ping, waits>>

(* The nested loop of the topmost wait has seen the state leave CONNECTING *)
(* and goes on waiting for the registration.                               *)
WaitAdvance ==
  /\ waits # <<>>
  /\ life # "freed"
  /\ Head(waits).phase = "connecting"
  /\ state = "CONNECTED" /\ ~registered
  /\ waits' = [waits EXCEPT ![1].phase = "registering"]
  /\ UNCHANGED <<life, state, session, reconn, ping, idles>>

WaitOver(w) ==
  /\ ~(state = "CONNECTED" /\ ~registered)
  /\ w.phase = "connecting" => state # "CONNECTING"

(* The topmost wait ends and its command resumes: /connect removes the     *)
(* server unless it got registered.  On a freed server the loop reads      *)
(* released memory and may or may not end.                                 *)
WaitReturn ==
  /\ waits # <<>>
  /\ life # "freed" => WaitOver(Head(waits))
  /\ waits' = Tail(waits)
  /\ IF Head(waits).drop /\ Listed /\ ~srn_server_is_registered
       THEN srn_application_rm_server
       ELSE UNCHANGED life
  /\ UNCHANGED <<state, session, reconn, ping, idles>>

-----------------------------------------------------------------------------
(* Completions of the asynchronous calls.  A cancelled operation always    *)
(* completes with an error (GTask checks the cancellable on return).       *)

(* on_connect_fail and irc_event_connect_fail.                             *)
ConnectFail ==
  /\ IF Listed /\ state \in {"CONNECTING", "QUITING"}
       THEN ActionConnectFail
       ELSE UNCHANGED <<state, reconn, idles>>
  /\ UNCHANGED <<readOps, cancelled, stream>>
  /\ UNCHANGED <<life, ping, waits>>

(* on_connect_finish and irc_event_connect.                                *)
ConnectFinish ==
  /\ ~cancelled
  /\ stream' = "open"
  /\ sirc_recv
  /\ IF Listed /\ state = "CONNECTING"
       THEN ActionConnectFinish /\ registered' = FALSE
       ELSE UNCHANGED <<state, reconn, idles, registered>>
  /\ UNCHANGED <<cancelled, life, pingLive, ping_timer, rejoins, waits>>

(* on_connect_ready: failure, a plain connection, or on to the handshake.  *)
ConnectReady ==
  /\ connectOps > 0
  /\ connectOps' = connectOps - 1
  /\ \/ ConnectFail /\ UNCHANGED handshakeOps
     \/ ConnectFinish /\ UNCHANGED handshakeOps
     \/ /\ ~cancelled
        /\ handshakeOps' = handshakeOps + 1
        /\ UNCHANGED <<life, state, readOps, cancelled, stream>>
        /\ UNCHANGED <<reconn, ping, idles, waits>>

(* Mutant: a completion without a handshake. *)
HandshakeReady_Unasked ==
  /\ handshakeOps' = handshakeOps - 1
  /\ ConnectFail \/ ConnectFinish
  /\ UNCHANGED connectOps

(* on_handshake_ready *)
HandshakeReady ==
  /\ handshakeOps > 0
  /\ handshakeOps' = handshakeOps - 1
  /\ ConnectFail \/ ConnectFinish
  /\ UNCHANGED connectOps

(* The asynchronous close has closed the stream.                           *)
CloseDone ==
  /\ stream = "closing"
  /\ stream' = "closed"
  /\ UNCHANGED <<connectOps, handshakeOps, readOps, cancelled>>
  /\ UNCHANGED <<life, state, reconn, ping, idles, waits>>

(* The read completes with the end of the stream or an error:              *)
(* on_disconnect and irc_event_disconnect.  The ping timer is stopped      *)
(* before the state machine is asked.                                      *)
LinkDown ==
  /\ readOps > 0
  /\ readOps' = readOps - 1
  /\ stream' = "null"
  /\ IF Listed
       THEN /\ StopPing
            /\ IF state \in {"CONNECTED", "DISCONNECTING", "QUITING"}
                 THEN ActionDisconnectFinish /\ registered' = FALSE
                 ELSE UNCHANGED <<state, reconn, idles, registered>>
       ELSE UNCHANGED <<state, reconn, idles, registered, pingLive, ping_timer>>
  /\ UNCHANGED <<connectOps, handshakeOps, cancelled, life, rejoins, waits>>

(* A line with RPL_WELCOME is read: irc_event_welcome.  The peer sends it  *)
(* once per connection.  With a NickServ login the channels are rejoined   *)
(* eight seconds later, otherwise at once.                                 *)
Welcome ==
  /\ readOps > 0
  /\ stream \in {"open", "closing"}
  /\ ~cancelled
  /\ Listed
  /\ ~registered
  /\ registered' = TRUE
  /\ \E t \in Timers \ (pingLive \cup {ping_timer}) :
       /\ pingLive' = pingLive \cup {t}
       /\ ping_timer' = t
  /\ \/ UNCHANGED rejoins
     \/ rejoins < MaxRejoins /\ rejoins' = rejoins + 1
  /\ UNCHANGED <<life, state, session, reconn, idles, waits>>

-----------------------------------------------------------------------------
(* Timeouts and idle callbacks.                                            *)

(* srn_server_reconnect_timeout; reconn_timer keeps the id of the source.  *)
ReconnectTimeout(t) ==
  /\ t \in reconnLive
  /\ reconnLive' = reconnLive \ {t}
  /\ IF Listed /\ state \in {"DISCONNECTED", "RECONNECTING"}
       THEN ActionConnect
       ELSE UNCHANGED <<state, session, idles>>
  /\ UNCHANGED <<life, reconn_timer, ping, waits>>

(* do_period_ping when no PONG came in time; otherwise it only sends PING. *)
PingTimeout(t) ==
  /\ t \in pingLive
  /\ pingLive' = pingLive \ {t}
  /\ ping_timer' = NoTimer
  /\ IF Listed /\ state \in {"DISCONNECTED", "CONNECTED"}
       THEN ActionReconnect
       ELSE UNCHANGED <<state, session, reconn, idles>>
  /\ UNCHANGED <<life, registered, rejoins, waits>>

(* rejoin_all_channels_cb: sends JOINs, whatever became of the connection. *)
RejoinTimeout ==
  /\ rejoins > 0
  /\ rejoins' = rejoins - 1
  /\ UNCHANGED <<life, state, session, reconn, registered, pingLive, ping_timer>>
  /\ UNCHANGED <<idles, waits>>

(* idle_to_rm_server *)
IdleRemove ==
  /\ idles > 0
  /\ idles' = idles - 1
  /\ IF Listed THEN srn_application_rm_server ELSE UNCHANGED life
  /\ UNCHANGED <<state, session, reconn, ping, waits>>

-----------------------------------------------------------------------------
User ==
  \/ AutoConnect
  \/ \E drop \in BOOLEAN : CommandConnect(drop)
  \/ CommandServerConnect
  \/ UserDisconnect
  \/ UserReconnect
  \/ UserQuit

System ==
  \/ WaitAdvance
  \/ WaitReturn
  \/ ConnectReady
  \/ HandshakeReady
  \/ CloseDone
  \/ LinkDown
  \/ Welcome
  \/ \E t \in Timers : ReconnectTimeout(t) \/ PingTimeout(t)
  \/ RejoinTimeout
  \/ IdleRemove

Next == User \/ System

Spec == Init /\ [][Next]_vars

(* The reads that must end: the stream was closed here, the read was       *)
(* cancelled, or the peer was sent QUIT and closes its side (or the        *)
(* operating system gives the connection up).                              *)
LinkMustEnd == stream = "closed" \/ cancelled \/ state = "QUITING"

(* The main loop dispatches every ready source, and the operating system   *)
(* bounds the opening of a socket.  Nothing bounds the TLS handshake (the  *)
(* client's timeout is commented out): it must end only when cancelled,    *)
(* else when the peer likes.  A nested loop resumes its command once its   *)
(* condition holds; on a freed server it tests released memory.            *)
Fairness ==
  /\ WF_vars(ConnectReady)
  /\ WF_vars(cancelled /\ HandshakeReady)
  /\ WF_vars(CloseDone)
  /\ WF_vars(LinkMustEnd /\ LinkDown)
  /\ \A t \in Timers : WF_vars(ReconnectTimeout(t))
  /\ WF_vars(IdleRemove)
  /\ WF_vars(WaitAdvance)
  /\ WF_vars(life # "freed" /\ WaitReturn)

FairSpec == Spec /\ Fairness

-----------------------------------------------------------------------------
(* Safety.                                                                 *)

(* At most one asynchronous operation of the session is outstanding, and   *)
(* it is a read exactly when there is a stream: two operations would share *)
(* the receive buffer and the cancellable of the SircSession, whatever the *)
(* order of user requests, retries and completions.                        *)
OneOperation ==
  /\ connectOps + handshakeOps + readOps \in {0, 1}
  /\ readOps > 0 <=> stream # "null"

Idle       == connectOps + handshakeOps + readOps = 0
Attempting == connectOps + handshakeOps > 0

(* The state of a listed server tells what its session is doing: an        *)
(* attempt that can still succeed, a readable stream, or nothing at all,   *)
(* so that DISCONNECTED and RECONNECTING may always connect again.  Only   *)
(* DISCONNECTING promises nothing.                                         *)
StateMatchesSession ==
  Listed =>
    /\ state = "CONNECTING" => Attempting /\ ~cancelled
    /\ state = "CONNECTED" => readOps > 0 /\ ~cancelled
    /\ state = "QUITING" => ~Idle /\ (Attempting => cancelled)
    /\ state = "DISCONNECTING" => (Attempting => cancelled)
    /\ state \in {"DISCONNECTED", "RECONNECTING"} => Idle

(* sirc_free_session's NOTE: the session of a freed server has no          *)
(* operation outstanding that would call back into it.                     *)
FreedAfterIO == life = "freed" => Idle /\ stream = "null"

(* The ping timeout of a listed server is the one its field names, so that *)
(* irc_event_disconnect can stop it, and it exists only on a registered    *)
(* connection; none survives the release of the server.                    *)
PingTimerOwned ==
  /\ Listed => pingLive = {ping_timer} \ {NoTimer}
  /\ Listed /\ ping_timer # NoTimer => registered
  /\ Listed /\ registered => stream # "null"
  /\ life = "freed" => pingLive = {}

(* A RECONNECTING server has the timeout that will reconnect it, and its   *)
(* field names it, so that DISCONNECT and QUIT can call it off - although  *)
(* earlier timeouts may still be armed.                                    *)
RetryArmed == Listed /\ state = "RECONNECTING" => reconn_timer \in reconnLive

(* A connection of a listed server only comes up while it is CONNECTING:   *)
(* never after the attempt was cancelled by a disconnect or a quit.        *)
ConnectedOnlyOnRequest ==
  [][Listed /\ stream = "null" /\ stream' # "null"
       => state = "CONNECTING" /\ state' = "CONNECTED"]_vars

(* The implemented promise (ServerLifecycle).                              *)
Phase ==
  CASE life = "absent" -> "absent"
    [] life \in {"dropped", "freed"} -> "gone"
    [] OTHER ->
         CASE state = "DISCONNECTED" -> "down"
           [] state \in {"CONNECTING", "RECONNECTING"} -> "trying"
           [] state = "CONNECTED" -> "up"
           [] OTHER -> "ending"
Link == Listed /\ stream # "null"

Lifecycle == INSTANCE ServerLifecycle WITH phase <- Phase, link <- Link

ImplementsLifecycle == Lifecycle!LSpec

(* Liveness.                                                               *)

(* A server that was told to quit leaves the server list, whether it was   *)
(* connecting, connected or waiting for the peer.                          *)
QuitRemoves == Listed /\ state = "QUITING" ~> ~Listed

(* The peer of an encrypted connection never leaves a handshake unanswered *)
(* for ever.                                                               *)
PeerAnswers == []<>(handshakeOps = 0)

(* If the peer answers, no listed server stays CONNECTING for ever: every  *)
(* attempt gets connected, is retried or is given up.  (A peer that keeps  *)
(* silent in the handshake does hold the server in CONNECTING.)            *)
AttemptEnds ==
  PeerAnswers =>
    (Listed /\ state = "CONNECTING" ~> ~(Listed /\ state = "CONNECTING"))

(* A server waiting to reconnect gets its attempt or is stopped.           *)
RetryHappens == Listed /\ state = "RECONNECTING" ~> ~(Listed /\ state = "RECONNECTING")

(* A connection closed here - on request or after a ping timeout - is      *)
(* released, also when its server has left the list meanwhile.             *)
ClosedLinkReleased == stream = "closing" ~> stream = "null"

-----------------------------------------------------------------------------
(* What the repository says and the code does not do.                      *)

(* docs/changelog.rst:678: "you can smoothly disconnect/quit from server   *)
(* even it is unresponsive".  A server told to disconnect gets             *)
(* disconnected, or is removed.                                            *)
DisconnectCompletes ==
  Listed /\ state = "DISCONNECTING" ~> ~(Listed /\ state = "DISCONNECTING")

(* "Reconnection stopped", says ui_event_disconnect when it disconnects a  *)
(* RECONNECTING server: no reconnect timeout is armed after that step.     *)
ReconnectionStopped ==
  [][Listed /\ state = "RECONNECTING" /\ state' = "DISCONNECTED" /\ idles' = idles
       => reconnLive' = {}]_vars

(* "frees a disconnected server", and the assertion in srn_server_free:    *)
(* the server that is removed from the list is DISCONNECTED.               *)
OnlyDisconnectedRemoved == life # "dropped"

(* "Remove the given server when main loop idle, because server may be     *)
(* referenceed after returning": after the idle callback no timeout and no *)
(* suspended command refers to it any more.                                *)
FreedUnreferenced ==
  life = "freed" =>
    reconnLive = {} /\ pingLive = {} /\ rejoins = 0 /\ waits = <<>>

=============================================================================
