-------------------------- MODULE ServerConnProofs --------------------------
(***************************************************************************)
(* The safety of ServerConn for every set of timer ids and every value of  *)
(* the bounds, and that it implements ServerLifecycle.                     *)
(*                                                                         *)
(* The invariants the runs check are inductive together, once two facts    *)
(* are added: a server that does not exist yet is in its initial state,    *)
(* and the memory of a server is only released by a step that finds the    *)
(* server listed and DISCONNECTED.                                         *)
(***************************************************************************)
EXTENDS ServerConn, TLAPS

(* Before its creation the object has no state yet.                        *)
AbsentIsFresh ==
  life = "absent" =>
    /\ Idle /\ stream = "null" /\ ~cancelled
    /\ state = "DISCONNECTED" /\ ~registered
    /\ pingLive = {} /\ ping_timer = NoTimer

IInv ==
  /\ TypeOK
  /\ OneOperation
  /\ StateMatchesSession
  /\ FreedAfterIO
  /\ PingTimerOwned
  /\ RetryArmed
  /\ AbsentIsFresh

(* The predicates of the invariant, for the steps that expand all of them. *)
USE DEF Listed, Idle, Attempting

-----------------------------------------------------------------------------
(* The Boolean variables of the type invariant, and the other variables    *)
(* except the stack of waits.                                              *)
FlagsOK == registered \in BOOLEAN /\ cancelled \in BOOLEAN

FieldsOK ==
  /\ life \in Lives
  /\ state \in States
  /\ connectOps \in Nat /\ handshakeOps \in Nat /\ readOps \in Nat
  /\ stream \in Streams
  /\ reconnLive \in SUBSET Timers /\ reconn_timer \in Timers \cup {NoTimer}
  /\ pingLive \in SUBSET Timers /\ ping_timer \in Timers \cup {NoTimer}
  /\ rejoins \in Nat
  /\ idles \in Nat

(* The invariant without the stack of waits, which no other part mentions. *)
Core ==
  /\ FlagsOK
  /\ FieldsOK
  /\ OneOperation
  /\ StateMatchesSession
  /\ FreedAfterIO
  /\ PingTimerOwned
  /\ RetryArmed
  /\ AbsentIsFresh

(* Every step keeps the stack of waits a sequence of waits. *)
LEMMA WaitsTyped ==
  ASSUME waits \in Seq(Waits), [Next]_vars
  PROVE  waits' \in Seq(Waits)
<1>1. CASE UNCHANGED waits
  BY <1>1
<1>2. ASSUME NEW drop \in BOOLEAN, PushWait(drop)
      PROVE  waits' \in Seq(Waits)
  <2>1. [phase |-> "connecting", drop |-> drop] \in Waits
    BY DEF Waits
  <2>2. <<[phase |-> "connecting", drop |-> drop]>> \in Seq(Waits)
    BY <2>1
  <2> QED
    BY <1>2, <2>2 DEF PushWait
<1>3. CASE WaitAdvance
  <2>1. waits[1] \in Waits /\ Len(waits) > 0
    BY <1>3 DEF WaitAdvance
  <2>2. [waits[1] EXCEPT !.phase = "registering"] \in Waits
    BY <2>1 DEF Waits
  <2>3. waits' = [waits EXCEPT ![1] = [waits[1] EXCEPT !.phase = "registering"]]
    BY <1>3 DEF WaitAdvance
  <2> QED
    BY <2>1, <2>2, <2>3
<1>4. CASE WaitReturn
  BY <1>4 DEF WaitReturn
<1> QED
  BY <1>1, <1>2, <1>3, <1>4
     DEF Next, User, System, vars, AutoConnect, CommandConnect,
         CommandServerConnect, UserDisconnect, UserReconnect, UserQuit,
         ConnectReady, HandshakeReady, ConnectFail, ConnectFinish, CloseDone,
         LinkDown, Welcome, ReconnectTimeout, PingTimeout, RejoinTimeout,
         IdleRemove

-----------------------------------------------------------------------------
(* One lemma per action of the specification: it preserves Core.           *)

LEMMA CreateCore ==
  ASSUME Core, AutoConnect \/ \E drop \in BOOLEAN : CommandConnect(drop)
  PROVE  Core'
<1>1. FieldsOK'
  BY DEF Core, FieldsOK, AutoConnect, CommandConnect, ActionConnect,
     sirc_connect, reconn, Lives, States, Streams
<1>2. FlagsOK'
  BY DEF Core, FlagsOK, AutoConnect, CommandConnect, ActionConnect,
     sirc_connect, reconn
<1>3. OneOperation' /\ StateMatchesSession'
  BY DEF Core, FieldsOK, OneOperation, StateMatchesSession, AbsentIsFresh,
     AutoConnect, CommandConnect, ActionConnect, sirc_connect, reconn
<1>4. FreedAfterIO' /\ AbsentIsFresh'
  BY DEF Core, FieldsOK, OneOperation, StateMatchesSession, FreedAfterIO,
     AbsentIsFresh, AutoConnect, CommandConnect, ActionConnect,
     sirc_connect, reconn
<1>5. PingTimerOwned'
  BY DEF Core, FieldsOK, OneOperation, StateMatchesSession,
     PingTimerOwned, AbsentIsFresh, AutoConnect, CommandConnect,
     ActionConnect, sirc_connect, reconn
<1>6. RetryArmed'
  BY DEF Core, FieldsOK, RetryArmed, AutoConnect, CommandConnect,
     ActionConnect, sirc_connect, reconn
<1> QED
  BY <1>1, <1>2, <1>3, <1>4, <1>5, <1>6 DEF Core

(* /server connect on an existing server.                                  *)
LEMMA CommandServerConnectCore ==
  ASSUME Core, CommandServerConnect
  PROVE  Core'
<1>1. FieldsOK'
  BY DEF Core, FieldsOK, CommandServerConnect, ActionConnect,
     sirc_connect, reconn, ping, Lives, States, Streams
<1>2. FlagsOK'
  BY DEF Core, FlagsOK, CommandServerConnect, ActionConnect,
     sirc_connect, reconn, ping
<1>3. OneOperation' /\ StateMatchesSession'
  BY DEF Core, FieldsOK, OneOperation, StateMatchesSession, AbsentIsFresh,
     CommandServerConnect, ActionConnect, sirc_connect, reconn, ping
<1>4. FreedAfterIO' /\ AbsentIsFresh'
  BY DEF Core, FieldsOK, OneOperation, StateMatchesSession, FreedAfterIO,
     AbsentIsFresh, CommandServerConnect, ActionConnect, sirc_connect,
     reconn, ping
<1>5. PingTimerOwned'
  BY DEF Core, FieldsOK, OneOperation, StateMatchesSession,
     PingTimerOwned, AbsentIsFresh, CommandServerConnect, ActionConnect,
     sirc_connect, reconn, ping
<1>6. RetryArmed'
  BY DEF Core, FieldsOK, RetryArmed, CommandServerConnect, ActionConnect,
     sirc_connect, reconn, ping
<1> QED
  BY <1>1, <1>2, <1>3, <1>4, <1>5, <1>6 DEF Core

(* A disconnect, from each state that accepts it.                          *)
LEMMA UserDisconnectCore ==
  ASSUME Core, UserDisconnect
  PROVE  Core'
<1>1. FieldsOK'
  BY DEF Core, FieldsOK, UserDisconnect, ActionDisconnect,
     sirc_cancel_connect, sirc_disconnect, StopReconnect, session, reconn,
     ping, Lives, States, Streams
<1>2. FlagsOK'
  BY DEF Core, FlagsOK, UserDisconnect, ActionDisconnect,
     sirc_cancel_connect, sirc_disconnect, StopReconnect, session, reconn,
     ping
<1>3. OneOperation' /\ StateMatchesSession'
  BY DEF Core, FieldsOK, OneOperation, StateMatchesSession, AbsentIsFresh,
     UserDisconnect, ActionDisconnect, sirc_cancel_connect,
     sirc_disconnect, StopReconnect, session, reconn, ping
<1>4. FreedAfterIO' /\ AbsentIsFresh'
  BY DEF Core, FieldsOK, OneOperation, StateMatchesSession, FreedAfterIO,
     AbsentIsFresh, UserDisconnect, ActionDisconnect, sirc_cancel_connect,
     sirc_disconnect, StopReconnect, session, reconn, ping
<1>5. PingTimerOwned'
  BY DEF Core, FieldsOK, OneOperation, StateMatchesSession,
     PingTimerOwned, AbsentIsFresh, UserDisconnect, ActionDisconnect,
     sirc_cancel_connect, sirc_disconnect, StopReconnect, session, reconn,
     ping
<1>6. RetryArmed'
  BY DEF Core, FieldsOK, RetryArmed, UserDisconnect, ActionDisconnect,
     sirc_cancel_connect, sirc_disconnect, StopReconnect, session, reconn,
     ping
<1> QED
  BY <1>1, <1>2, <1>3, <1>4, <1>5, <1>6 DEF Core

(* A reconnect by the user.                                                *)
LEMMA UserReconnectCore ==
  ASSUME Core, UserReconnect
  PROVE  Core'
<1>1. FieldsOK'
  BY DEF Core, FieldsOK, UserReconnect, ActionReconnect, sirc_connect,
     sirc_disconnect, session, reconn, ping, Lives, States, Streams
<1>2. FlagsOK'
  BY DEF Core, FlagsOK, UserReconnect, ActionReconnect, sirc_connect,
     sirc_disconnect, session, reconn, ping
<1>3. OneOperation' /\ StateMatchesSession'
  BY DEF Core, FieldsOK, OneOperation, StateMatchesSession, AbsentIsFresh,
     UserReconnect, ActionReconnect, sirc_connect, sirc_disconnect,
     session, reconn, ping
<1>4. FreedAfterIO' /\ AbsentIsFresh'
  BY DEF Core, FieldsOK, OneOperation, StateMatchesSession, FreedAfterIO,
     AbsentIsFresh, UserReconnect, ActionReconnect, sirc_connect,
     sirc_disconnect, session, reconn, ping
<1>5. PingTimerOwned'
  BY DEF Core, FieldsOK, OneOperation, StateMatchesSession,
     PingTimerOwned, AbsentIsFresh, UserReconnect, ActionReconnect,
     sirc_connect, sirc_disconnect, session, reconn, ping
<1>6. RetryArmed'
  BY DEF Core, FieldsOK, RetryArmed, UserReconnect, ActionReconnect,
     sirc_connect, sirc_disconnect, session, reconn, ping
<1> QED
  BY <1>1, <1>2, <1>3, <1>4, <1>5, <1>6 DEF Core

(* A quit, from each state that accepts it.                                *)
LEMMA UserQuitCore ==
  ASSUME Core, UserQuit
  PROVE  Core'
<1>1. FieldsOK'
  BY DEF Core, FieldsOK, UserQuit, ActionQuit, sirc_cancel_connect,
     StopReconnect, ScheduleRemoval, session, reconn, ping, Lives, States,
     Streams
<1>2. FlagsOK'
  BY DEF Core, FlagsOK, UserQuit, ActionQuit, sirc_cancel_connect,
     StopReconnect, ScheduleRemoval, session, reconn, ping
<1>3. OneOperation' /\ StateMatchesSession'
  BY DEF Core, FieldsOK, OneOperation, StateMatchesSession, AbsentIsFresh,
     UserQuit, ActionQuit, sirc_cancel_connect, StopReconnect,
     ScheduleRemoval, session, reconn, ping
<1>4. FreedAfterIO' /\ AbsentIsFresh'
  BY DEF Core, FieldsOK, OneOperation, StateMatchesSession, FreedAfterIO,
     AbsentIsFresh, UserQuit, ActionQuit, sirc_cancel_connect,
     StopReconnect, ScheduleRemoval, session, reconn, ping
<1>5. PingTimerOwned'
  BY DEF Core, FieldsOK, OneOperation, StateMatchesSession,
     PingTimerOwned, AbsentIsFresh, UserQuit, ActionQuit,
     sirc_cancel_connect, StopReconnect, ScheduleRemoval, session, reconn,
     ping
<1>6. RetryArmed'
  BY DEF Core, FieldsOK, RetryArmed, UserQuit, ActionQuit,
     sirc_cancel_connect, StopReconnect, ScheduleRemoval, session, reconn,
     ping
<1> QED
  BY <1>1, <1>2, <1>3, <1>4, <1>5, <1>6 DEF Core

(* The two steps of a command in the nested main loop.                     *)
LEMMA WaitCore ==
  ASSUME Core, WaitAdvance \/ WaitReturn
  PROVE  Core'
<1>1. FieldsOK'
  BY DEF Core, FieldsOK, WaitAdvance, WaitReturn,
     srn_application_rm_server, session, reconn, ping, Lives, States,
     Streams
<1>2. FlagsOK'
  BY DEF Core, FlagsOK, WaitAdvance, WaitReturn,
     srn_application_rm_server, session, reconn, ping
<1>3. OneOperation' /\ StateMatchesSession'
  BY DEF Core, FieldsOK, OneOperation, StateMatchesSession, AbsentIsFresh,
     WaitAdvance, WaitReturn, srn_application_rm_server, session, reconn,
     ping
<1>4. FreedAfterIO' /\ AbsentIsFresh'
  BY DEF Core, FieldsOK, OneOperation, StateMatchesSession, FreedAfterIO,
     AbsentIsFresh, WaitAdvance, WaitReturn, srn_application_rm_server,
     session, reconn, ping
<1>5. PingTimerOwned'
  BY DEF Core, FieldsOK, OneOperation, StateMatchesSession,
     PingTimerOwned, AbsentIsFresh, WaitAdvance, WaitReturn,
     srn_application_rm_server, session, reconn, ping
<1>6. RetryArmed'
  BY DEF Core, FieldsOK, RetryArmed, WaitAdvance, WaitReturn,
     srn_application_rm_server, session, reconn, ping
<1> QED
  BY <1>1, <1>2, <1>3, <1>4, <1>5, <1>6 DEF Core

(* The completion of an attempt, whichever operation it was.               *)
LEMMA ConnectFailCore ==
  ASSUME Core, connectOps + handshakeOps = 1,
         connectOps' = 0, handshakeOps' = 0,
         ConnectFail
  PROVE  Core'
<1>0. /\ connectOps + handshakeOps + readOps # 0
      /\ readOps = 0 /\ readOps' = 0
      /\ stream = "null" /\ stream' = "null"
  BY DEF Core, FieldsOK, OneOperation, Streams, ConnectFail
<1>1. FieldsOK'
  BY DEF Core, FieldsOK, ConnectFail, ActionConnectFail, ArmReconnect,
     ScheduleRemoval, reconn, ping, Lives, States, Streams
<1>2. FlagsOK'
  BY DEF Core, FlagsOK, ConnectFail, ActionConnectFail, ArmReconnect,
     ScheduleRemoval, reconn, ping
<1>3. OneOperation' /\ StateMatchesSession'
  <2>1. OneOperation'
    BY <1>0 DEF OneOperation
  <2>2. ~(Listed' /\ state' \in {"CONNECTING", "CONNECTED", "QUITING"})
    BY <1>0 DEF Core, FieldsOK, States, StateMatchesSession, ConnectFail,
       ActionConnectFail, ArmReconnect, ScheduleRemoval
  <2> QED
    BY <1>0, <2>1, <2>2 DEF StateMatchesSession
<1>4. FreedAfterIO' /\ AbsentIsFresh'
  <2>1. life # "absent" /\ life' = life
    BY <1>0 DEF Core, AbsentIsFresh, ConnectFail
  <2> QED
    BY <1>0, <2>1 DEF FreedAfterIO, AbsentIsFresh
<1>5. PingTimerOwned'
  BY DEF Core, FieldsOK, OneOperation, StateMatchesSession,
     PingTimerOwned, AbsentIsFresh, ConnectFail, ActionConnectFail,
     ArmReconnect, ScheduleRemoval, reconn, ping
<1>6. RetryArmed'
  BY DEF Core, FieldsOK, RetryArmed, ConnectFail, ActionConnectFail,
     ArmReconnect, ScheduleRemoval, reconn, ping
<1> QED
  BY <1>1, <1>2, <1>3, <1>4, <1>5, <1>6 DEF Core

(* A connection comes up, wanted or not.                                   *)
LEMMA ConnectFinishCore ==
  ASSUME Core, connectOps + handshakeOps = 1,
         connectOps' = 0, handshakeOps' = 0,
         ConnectFinish
  PROVE  Core'
<1>0. /\ connectOps + handshakeOps + readOps # 0
      /\ connectOps' = 0 /\ handshakeOps' = 0 /\ readOps' = 1
      /\ stream' = "open"
  <2>1. connectOps + handshakeOps + readOps # 0 /\ readOps = 0
    BY DEF Core, FieldsOK, OneOperation
  <2> QED
    BY <2>1 DEF ConnectFinish, sirc_recv
<1>1. FieldsOK'
  BY DEF Core, FieldsOK, ConnectFinish, ActionConnectFinish, sirc_recv,
     reconn, Lives, States, Streams
<1>2. FlagsOK'
  BY DEF Core, FlagsOK, ConnectFinish, ActionConnectFinish, sirc_recv,
     reconn
<1>3. OneOperation' /\ StateMatchesSession'
  <2>1. OneOperation'
    BY <1>0 DEF OneOperation
  <2>2. ~cancelled /\ ~cancelled' /\ life' = life
    BY DEF ConnectFinish
  <2>3. Listed => state = "CONNECTING" /\ state' = "CONNECTED"
    <3>1. connectOps + handshakeOps > 0 /\ ~(readOps > 0)
      BY <1>0 DEF Core, FieldsOK, OneOperation
    <3>2. Listed => state = "CONNECTING"
      BY <1>0, <2>2, <3>1 DEF Core, FieldsOK, States, StateMatchesSession
    <3> QED
      BY <3>2 DEF ConnectFinish, ActionConnectFinish
  <2>4. readOps' > 0 /\ ~(connectOps' + handshakeOps' > 0)
    BY <1>0
  <2>5. StateMatchesSession'
    BY <2>2, <2>3, <2>4 DEF StateMatchesSession
  <2> QED
    BY <2>1, <2>5
<1>4. FreedAfterIO' /\ AbsentIsFresh'
  BY DEF Core, FieldsOK, OneOperation, StateMatchesSession, FreedAfterIO,
     AbsentIsFresh, ConnectFinish, ActionConnectFinish, sirc_recv, reconn
<1>5. PingTimerOwned'
  BY DEF Core, FieldsOK, OneOperation, StateMatchesSession,
     PingTimerOwned, AbsentIsFresh, ConnectFinish, ActionConnectFinish,
     sirc_recv, reconn
<1>6. RetryArmed'
  BY DEF Core, FieldsOK, RetryArmed, ConnectFinish, ActionConnectFinish,
     sirc_recv, reconn
<1> QED
  BY <1>1, <1>2, <1>3, <1>4, <1>5, <1>6 DEF Core

(* The connect operation completes.                                        *)
LEMMA ConnectReadyCore ==
  ASSUME Core, ConnectReady
  PROVE  Core'
<1>1. /\ connectOps + handshakeOps = 1 /\ connectOps = 1 /\ handshakeOps = 0
      /\ connectOps' = 0
  BY DEF Core, FieldsOK, OneOperation, ConnectReady
<1>2. CASE ConnectFail /\ UNCHANGED handshakeOps
  BY <1>1, <1>2, ConnectFailCore
<1>3. CASE ConnectFinish /\ UNCHANGED handshakeOps
  BY <1>1, <1>3, ConnectFinishCore
<1>4. CASE /\ ~cancelled
           /\ handshakeOps' = handshakeOps + 1
           /\ UNCHANGED <<life, state, readOps, cancelled, stream>>
           /\ UNCHANGED <<reconn, ping, idles, waits>>
  BY <1>1, <1>4
     DEF Core, FieldsOK, FlagsOK, OneOperation, StateMatchesSession,
         FreedAfterIO, PingTimerOwned, RetryArmed, AbsentIsFresh, reconn, ping
<1> QED
  BY <1>2, <1>3, <1>4 DEF ConnectReady

(* The handshake completes.                                                *)
LEMMA HandshakeReadyCore ==
  ASSUME Core, HandshakeReady
  PROVE  Core'
<1>1. /\ connectOps + handshakeOps = 1 /\ connectOps = 0 /\ connectOps' = 0
      /\ handshakeOps' = 0
  BY DEF Core, FieldsOK, OneOperation, HandshakeReady
<1> QED
  BY <1>1, ConnectFailCore, ConnectFinishCore DEF HandshakeReady

(* The stream that was being closed is closed.                             *)
LEMMA CloseDoneCore ==
  ASSUME Core, CloseDone
  PROVE  Core'
BY DEF Core, FieldsOK, FlagsOK, OneOperation, StateMatchesSession,
       FreedAfterIO, PingTimerOwned, RetryArmed, AbsentIsFresh, CloseDone, Streams, reconn, ping

(* The read ends: the ping is stopped before the state changes.            *)
LEMMA LinkDownCore ==
  ASSUME Core, LinkDown
  PROVE  Core'
<1>1. FieldsOK'
  BY DEF Core, FieldsOK, LinkDown, StopPing, ActionDisconnectFinish,
     ArmReconnect, ScheduleRemoval, reconn, Lives, States, Streams
<1>2. FlagsOK'
  BY DEF Core, FlagsOK, LinkDown, StopPing, ActionDisconnectFinish,
     ArmReconnect, ScheduleRemoval, reconn
<1>3. OneOperation' /\ StateMatchesSession'
  BY DEF Core, FieldsOK, OneOperation, StateMatchesSession, AbsentIsFresh,
     LinkDown, StopPing, ActionDisconnectFinish, ArmReconnect,
     ScheduleRemoval, reconn
<1>4. FreedAfterIO' /\ AbsentIsFresh'
  BY DEF Core, FieldsOK, OneOperation, StateMatchesSession, FreedAfterIO,
     AbsentIsFresh, LinkDown, StopPing, ActionDisconnectFinish,
     ArmReconnect, ScheduleRemoval, reconn
<1>5. PingTimerOwned'
  <2>1. life' = life /\ stream' = "null" /\ life # "freed"
    BY DEF Core, FieldsOK, FreedAfterIO, LinkDown
  <2>2. Listed => ~registered'
    BY DEF Core, FieldsOK, FlagsOK, StateMatchesSession, PingTimerOwned, OneOperation, States, LinkDown
  <2>3. Listed => pingLive' = {} /\ ping_timer' = NoTimer
    BY DEF Core, PingTimerOwned, LinkDown, StopPing
  <2> QED
    BY <2>1, <2>2, <2>3 DEF PingTimerOwned
<1>6. RetryArmed'
  BY DEF Core, FieldsOK, RetryArmed, LinkDown, StopPing,
     ActionDisconnectFinish, ArmReconnect, ScheduleRemoval, reconn
<1> QED
  BY <1>1, <1>2, <1>3, <1>4, <1>5, <1>6 DEF Core

(* The registration arms the ping timeout.                                 *)
LEMMA WelcomeCore ==
  ASSUME Core, Welcome
  PROVE  Core'
<1>1. FieldsOK'
  BY TimersAssumption DEF Core, FieldsOK, Welcome, session, reconn, Lives,
     States, Streams
<1>2. FlagsOK'
  BY TimersAssumption DEF Core, FlagsOK, Welcome, session, reconn
<1>3. OneOperation' /\ StateMatchesSession'
  BY TimersAssumption DEF Core, FieldsOK, OneOperation,
     StateMatchesSession, AbsentIsFresh, Welcome, session, reconn
<1>4. FreedAfterIO' /\ AbsentIsFresh'
  BY TimersAssumption DEF Core, FieldsOK, OneOperation,
     StateMatchesSession, FreedAfterIO, AbsentIsFresh, Welcome, session,
     reconn
<1>5. PingTimerOwned'
  BY TimersAssumption DEF Core, FieldsOK, OneOperation,
     StateMatchesSession, PingTimerOwned, AbsentIsFresh, Welcome, session,
     reconn
<1>6. RetryArmed'
  BY TimersAssumption DEF Core, FieldsOK, RetryArmed, Welcome, session,
     reconn
<1> QED
  BY <1>1, <1>2, <1>3, <1>4, <1>5, <1>6 DEF Core

(* A reconnect timeout, current or abandoned, fires.                       *)
LEMMA ReconnectTimeoutCore ==
  ASSUME Core, NEW t \in Timers, ReconnectTimeout(t)
  PROVE  Core'
<1>1. FieldsOK'
  BY DEF Core, FieldsOK, ReconnectTimeout, ActionConnect, sirc_connect,
     session, ping, Lives, States, Streams
<1>2. FlagsOK'
  BY DEF Core, FlagsOK, ReconnectTimeout, ActionConnect, sirc_connect,
     session, ping
<1>3. OneOperation' /\ StateMatchesSession'
  BY DEF Core, FieldsOK, OneOperation, StateMatchesSession, AbsentIsFresh,
     ReconnectTimeout, ActionConnect, sirc_connect, session, ping
<1>4. FreedAfterIO' /\ AbsentIsFresh'
  BY DEF Core, FieldsOK, OneOperation, StateMatchesSession, FreedAfterIO,
     AbsentIsFresh, ReconnectTimeout, ActionConnect, sirc_connect,
     session, ping
<1>5. PingTimerOwned'
  BY DEF Core, FieldsOK, OneOperation, StateMatchesSession,
     PingTimerOwned, AbsentIsFresh, ReconnectTimeout, ActionConnect,
     sirc_connect, session, ping
<1>6. RetryArmed'
  BY DEF Core, FieldsOK, RetryArmed, ReconnectTimeout, ActionConnect,
     sirc_connect, session, ping
<1> QED
  BY <1>1, <1>2, <1>3, <1>4, <1>5, <1>6 DEF Core

(* The ping timeout finds the peer silent.                                 *)
LEMMA PingTimeoutCore ==
  ASSUME Core, NEW t \in Timers, PingTimeout(t)
  PROVE  Core'
<1>1. FieldsOK'
  BY TimersAssumption DEF Core, FieldsOK, PingTimeout, ActionReconnect,
     sirc_connect, sirc_disconnect, session, reconn, Lives, States,
     Streams
<1>2. FlagsOK'
  BY TimersAssumption DEF Core, FlagsOK, PingTimeout, ActionReconnect,
     sirc_connect, sirc_disconnect, session, reconn
<1>3. OneOperation' /\ StateMatchesSession'
  BY TimersAssumption DEF Core, FieldsOK, OneOperation,
     StateMatchesSession, AbsentIsFresh, PingTimeout, ActionReconnect,
     sirc_connect, sirc_disconnect, session, reconn
<1>4. FreedAfterIO' /\ AbsentIsFresh'
  BY TimersAssumption DEF Core, FieldsOK, OneOperation,
     StateMatchesSession, FreedAfterIO, AbsentIsFresh, PingTimeout,
     ActionReconnect, sirc_connect, sirc_disconnect, session, reconn
<1>5. PingTimerOwned'
  BY TimersAssumption DEF Core, FieldsOK, OneOperation,
     StateMatchesSession, PingTimerOwned, AbsentIsFresh, PingTimeout,
     ActionReconnect, sirc_connect, sirc_disconnect, session, reconn
<1>6. RetryArmed'
  BY TimersAssumption DEF Core, FieldsOK, RetryArmed, PingTimeout,
     ActionReconnect, sirc_connect, sirc_disconnect, session, reconn
<1> QED
  BY <1>1, <1>2, <1>3, <1>4, <1>5, <1>6 DEF Core

(* The rejoin timeout, and the idle callback that removes the server.      *)
LEMMA RejoinOrIdleCore ==
  ASSUME Core, RejoinTimeout \/ IdleRemove
  PROVE  Core'
<1>1. FieldsOK'
  BY DEF Core, FieldsOK, RejoinTimeout, IdleRemove,
     srn_application_rm_server, session, reconn, ping, Lives, States,
     Streams
<1>2. FlagsOK'
  BY DEF Core, FlagsOK, RejoinTimeout, IdleRemove,
     srn_application_rm_server, session, reconn, ping
<1>3. OneOperation' /\ StateMatchesSession'
  BY DEF Core, FieldsOK, OneOperation, StateMatchesSession, AbsentIsFresh,
     RejoinTimeout, IdleRemove, srn_application_rm_server, session,
     reconn, ping
<1>4. FreedAfterIO' /\ AbsentIsFresh'
  BY DEF Core, FieldsOK, OneOperation, StateMatchesSession, FreedAfterIO,
     AbsentIsFresh, RejoinTimeout, IdleRemove, srn_application_rm_server,
     session, reconn, ping
<1>5. PingTimerOwned'
  BY DEF Core, FieldsOK, OneOperation, StateMatchesSession,
     PingTimerOwned, AbsentIsFresh, RejoinTimeout, IdleRemove,
     srn_application_rm_server, session, reconn, ping
<1>6. RetryArmed'
  BY DEF Core, FieldsOK, RetryArmed, RejoinTimeout, IdleRemove,
     srn_application_rm_server, session, reconn, ping
<1> QED
  BY <1>1, <1>2, <1>3, <1>4, <1>5, <1>6 DEF Core

-----------------------------------------------------------------------------
(* Core is the invariant without the stack of waits.                       *)
LEMMA CoreIsIInv == IInv <=> Core /\ waits \in Seq(Waits)
BY DEF IInv, Core, TypeOK, FieldsOK, FlagsOK

(* The invariant holds initially.                                          *)
LEMMA InitIInv == Init => IInv
<1> SUFFICES ASSUME Init PROVE IInv
  OBVIOUS
<1>1. FieldsOK
  BY DEF Init, FieldsOK, Lives, States, Streams
<1>2. FlagsOK
  BY DEF Init, FlagsOK
<1>3. waits \in Seq(Waits)
  BY DEF Init
<1>4. OneOperation /\ StateMatchesSession /\ FreedAfterIO
  BY DEF Init, OneOperation, StateMatchesSession, FreedAfterIO
<1>5. PingTimerOwned
  BY DEF Init, PingTimerOwned
<1>6. RetryArmed
  BY DEF Init, RetryArmed
<1>7. AbsentIsFresh
  <2>1. connectOps + handshakeOps + readOps = 0
    BY DEF Init
  <2>2. ~cancelled /\ ~registered
    BY DEF Init
  <2> QED
    BY <2>1, <2>2 DEF Init, AbsentIsFresh
<1> QED
  BY <1>1, <1>2, <1>3, <1>4, <1>5, <1>6, <1>7, CoreIsIInv DEF Core

(* Every step keeps the invariant.                                         *)
LEMMA NextIInv ==
  ASSUME IInv, [Next]_vars
  PROVE  IInv'
<1>1. Core /\ waits \in Seq(Waits)
  BY CoreIsIInv
<1>2. waits' \in Seq(Waits)
  BY <1>1, WaitsTyped
<1>3. Core'
  <2>1. CASE User
    BY <1>1, <2>1, CreateCore, CommandServerConnectCore, UserDisconnectCore,
       UserReconnectCore, UserQuitCore DEF User
  <2>2. CASE System
    BY <1>1, <2>2, WaitCore, ConnectReadyCore, HandshakeReadyCore, CloseDoneCore, LinkDownCore,
       WelcomeCore, ReconnectTimeoutCore, PingTimeoutCore, RejoinOrIdleCore
       DEF System
  <2>3. CASE UNCHANGED vars
    BY <1>1, <2>3
       DEF Core, FieldsOK, FlagsOK, OneOperation, StateMatchesSession,
           FreedAfterIO, PingTimerOwned, RetryArmed, AbsentIsFresh, vars, session, reconn, ping
  <2> QED
    BY <2>1, <2>2, <2>3 DEF Next
<1> QED
  BY <1>2, <1>3 DEF IInv, Core, TypeOK, FieldsOK, FlagsOK

(* The inductive invariant holds in every reachable state. *)
THEOREM Invariance == Spec => []IInv
<1>1. Init => IInv
  BY InitIInv
<1>2. IInv /\ [Next]_vars => IInv'
  BY NextIInv
<1> QED
  BY <1>1, <1>2, PTL DEF Spec

(* Every variable keeps its type.                                          *)
THEOREM TypeCorrect == Spec => []TypeOK
<1>1. IInv => TypeOK
  BY DEF IInv
<1> QED
  BY <1>1, Invariance, PTL

(* sirc_connect, the handshake and the read never overlap: a request, a    *)
(* retry or a late completion cannot start a second operation on the       *)
(* SircSession.                                                            *)
THEOREM SingleOperation == Spec => []OneOperation
<1>1. IInv => OneOperation
  BY DEF IInv
<1> QED
  BY <1>1, Invariance, PTL

(* The state that srn_server_state_transfrom keeps tells what the session  *)
(* does, so its table of legal actions never acts on a wrong assumption.   *)
THEOREM StateTellsSession == Spec => []StateMatchesSession
<1>1. IInv => StateMatchesSession
  BY DEF IInv
<1> QED
  BY <1>1, Invariance, PTL

(* srn_server_free releases no session that GIO will call back into.       *)
THEOREM NoCallbackAfterFree == Spec => []FreedAfterIO
<1>1. IInv => FreedAfterIO
  BY DEF IInv
<1> QED
  BY <1>1, Invariance, PTL

(* irc_event_disconnect always finds the id of the ping timeout it stops.  *)
THEOREM PingTimeoutOwned == Spec => []PingTimerOwned
<1>1. IInv => PingTimerOwned
  BY DEF IInv
<1> QED
  BY <1>1, Invariance, PTL

(* A server that waits to reconnect holds an armed timeout.                *)
THEOREM ReconnectArmed == Spec => []RetryArmed
<1>1. IInv => RetryArmed
  BY DEF IInv
<1> QED
  BY <1>1, Invariance, PTL

-----------------------------------------------------------------------------
(* The steps that the rest of the program can tell apart.                  *)

(* A connection comes up only in a step that ends a successful attempt.    *)
LEMMA FinishOpens ==
  ASSUME IInv, Next, stream = "null", stream' # "null"
  PROVE  ConnectFinish /\ (ConnectReady \/ HandshakeReady)
<1>1. ~(readOps > 0)
  BY DEF IInv, OneOperation
<1>2. ASSUME ConnectFail PROVE FALSE
  BY <1>2 DEF ConnectFail
<1>3. CASE ConnectReady
  BY <1>2, <1>3 DEF ConnectReady
<1>4. CASE HandshakeReady
  BY <1>2, <1>4 DEF HandshakeReady
<1>5. CASE User
  BY <1>5 DEF User, AutoConnect, CommandConnect, CommandServerConnect,
     UserDisconnect, UserReconnect, UserQuit, ActionConnect, ActionDisconnect,
     ActionReconnect, ActionQuit, sirc_connect, sirc_cancel_connect,
     sirc_disconnect, session
<1>6. CASE WaitAdvance \/ WaitReturn \/ RejoinTimeout \/ IdleRemove
  BY <1>6 DEF WaitAdvance, WaitReturn, RejoinTimeout, IdleRemove, session
<1>7. CASE CloseDone \/ LinkDown \/ Welcome
  BY <1>1, <1>7 DEF CloseDone, LinkDown, Welcome
<1>8. CASE \E t \in Timers : ReconnectTimeout(t) \/ PingTimeout(t)
  BY <1>8 DEF ReconnectTimeout, PingTimeout, ActionConnect, ActionReconnect,
     sirc_connect, sirc_disconnect, session
<1> QED
  BY <1>3, <1>4, <1>5, <1>6, <1>7, <1>8 DEF Next, System

(* An attempt that succeeds on a listed server was asked for.              *)
LEMMA FinishIsRequested ==
  ASSUME IInv, ConnectFinish, ConnectReady \/ HandshakeReady, Listed
  PROVE  state = "CONNECTING" /\ state' = "CONNECTED"
<1>1. connectOps + handshakeOps > 0 /\ ~(readOps > 0)
  BY DEF IInv, TypeOK, OneOperation, ConnectReady, HandshakeReady
<1>2. ~cancelled
  BY DEF ConnectFinish
<1>3. state = "CONNECTING"
  BY <1>1, <1>2 DEF IInv, TypeOK, States, StateMatchesSession
<1> QED
  BY <1>3 DEF ConnectFinish, ActionConnectFinish

(* A connection of a listed server comes up only while it is CONNECTING:   *)
(* an attempt that srn_server_disconnect or a quit has cancelled does not  *)
(* succeed late, whichever completion was already queued.                  *)
THEOREM NoLateConnection == Spec => ConnectedOnlyOnRequest
<1>1. ASSUME IInv, [Next]_vars
      PROVE  [Listed /\ stream = "null" /\ stream' # "null"
                => state = "CONNECTING" /\ state' = "CONNECTED"]_vars
  <2>1. CASE UNCHANGED vars
    BY <2>1
  <2>2. CASE Next
    BY <1>1, <2>2, FinishOpens, FinishIsRequested
  <2> QED
    BY <1>1, <2>1, <2>2
<1> QED
  BY <1>1, Invariance, PTL DEF Spec, ConnectedOnlyOnRequest

-----------------------------------------------------------------------------
(* ServerConn implements ServerLifecycle.                                  *)
(*                                                                         *)
(* Every step of ServerConn that the inductive invariant allows is one of  *)
(* the few kinds listed in LifecycleStep, which only mention the life of   *)
(* the object, its state and whether it has a stream; each kind maps to an *)
(* action of ServerLifecycle or to a stutter.                              *)

Unlinked == stream = "null"

KeepsLink == stream' = "null" <=> stream = "null"

(* The kinds of steps of a listed server that stays in the list.           *)
ListedStep ==
  \/ state' = state /\ KeepsLink
  \/ state = "DISCONNECTED" /\ state' = "CONNECTING" /\ Unlinked /\ Unlinked'
  \/ state = "RECONNECTING" /\ state' = "CONNECTING" /\ Unlinked /\ Unlinked'
  \/ state = "CONNECTING" /\ state' = "RECONNECTING" /\ Unlinked /\ Unlinked'
  \/ state = "CONNECTING" /\ state' = "CONNECTED" /\ Unlinked /\ ~Unlinked'
  \/ state = "CONNECTED" /\ state' = "RECONNECTING" /\ ~Unlinked /\ Unlinked'
  \/ state = "RECONNECTING" /\ state' = "DISCONNECTED" /\ Unlinked /\ Unlinked'
  \/ /\ state \in {"CONNECTING", "CONNECTED"}
     /\ state' \in {"DISCONNECTING", "QUITING"}
     /\ KeepsLink
  \/ /\ state \in {"DISCONNECTING", "QUITING"}
     /\ state' = "DISCONNECTED"
     /\ Unlinked'

LifecycleStep ==
  \/ ~Listed /\ life' = life
  \/ life = "absent" /\ Listed' /\ state' = "CONNECTING" /\ Unlinked'
  \/ Listed /\ life' \in {"dropped", "freed"}
  \/ Listed /\ Listed' /\ ListedStep

USE DEF Unlinked, KeepsLink

-----------------------------------------------------------------------------
(* What the invariant says of the stream, in the form the steps use.       *)
LEMMA StreamFacts ==
  ASSUME IInv
  PROVE  /\ readOps > 0 <=> stream # "null"
         /\ life = "absent" => stream = "null"
         /\ connectOps > 0 \/ handshakeOps > 0 => stream = "null"
         /\ Listed /\ state \in {"DISCONNECTED", "RECONNECTING", "CONNECTING"}
              => stream = "null"
         /\ Listed /\ state = "CONNECTED" => stream # "null"
BY DEF IInv, TypeOK, OneOperation, StateMatchesSession, AbsentIsFresh

(* A command or a UI event is a step of the lifecycle or a stutter.        *)
LEMMA UserStep ==
  ASSUME IInv, User
  PROVE  LifecycleStep
<1>1. CASE AutoConnect \/ \E drop \in BOOLEAN : CommandConnect(drop)
  BY <1>1, StreamFacts DEF AutoConnect, CommandConnect, ActionConnect,
     sirc_connect, LifecycleStep
<1>2. CASE CommandServerConnect
  BY <1>2, StreamFacts DEF CommandServerConnect, ActionConnect, sirc_connect,
     LifecycleStep, ListedStep
<1>3. CASE UserDisconnect
  BY <1>3, StreamFacts DEF UserDisconnect, ActionDisconnect,
     sirc_cancel_connect, sirc_disconnect, session, LifecycleStep, ListedStep
<1>4. CASE UserReconnect
  BY <1>4, StreamFacts DEF UserReconnect, ActionReconnect, sirc_connect,
     sirc_disconnect, LifecycleStep, ListedStep
<1>5. CASE UserQuit
  BY <1>5, StreamFacts DEF UserQuit, ActionQuit, sirc_cancel_connect,
     session, LifecycleStep, ListedStep
<1> QED
  BY <1>1, <1>2, <1>3, <1>4, <1>5 DEF User

(* So is a failed attempt,                                                 *)
LEMMA ConnectFailStep ==
  ASSUME IInv, ConnectFail, stream = "null"
  PROVE  LifecycleStep
BY DEF ConnectFail, ActionConnectFail, LifecycleStep, ListedStep

(* and a finished one.                                                     *)
LEMMA ConnectFinishStep ==
  ASSUME IInv, ConnectFinish, ConnectReady \/ HandshakeReady, stream = "null"
  PROVE  LifecycleStep
<1>1. CASE Listed
  BY <1>1, FinishIsRequested DEF ConnectFinish, LifecycleStep, ListedStep
<1>2. CASE ~Listed
  BY <1>2 DEF ConnectFinish, LifecycleStep
<1> QED
  BY <1>1, <1>2

(* So is every other step of the program.                                  *)
LEMMA SystemStep ==
  ASSUME IInv, System
  PROVE  LifecycleStep
<1>1. CASE WaitAdvance \/ WaitReturn
  BY <1>1 DEF WaitAdvance, WaitReturn, srn_application_rm_server, session,
     LifecycleStep, ListedStep
<1>2. CASE ConnectReady
  <2>1. stream = "null"
    BY <1>2, StreamFacts DEF ConnectReady
  <2>2. CASE ConnectFail \/ ConnectFinish
    BY <1>2, <2>1, <2>2, ConnectFailStep, ConnectFinishStep
  <2>3. CASE UNCHANGED <<life, state, readOps, cancelled, stream>>
    BY <2>3 DEF LifecycleStep, ListedStep
  <2> QED
    BY <1>2, <2>2, <2>3 DEF ConnectReady
<1>3. CASE HandshakeReady
  <2>1. stream = "null"
    BY <1>3, StreamFacts DEF HandshakeReady
  <2> QED
    BY <1>3, <2>1, ConnectFailStep, ConnectFinishStep DEF HandshakeReady
<1>4. CASE CloseDone \/ Welcome
  BY <1>4 DEF CloseDone, Welcome, session, LifecycleStep, ListedStep
<1>5. CASE LinkDown
  <2>1. stream # "null" /\ stream' = "null" /\ life' = life
    BY <1>5, StreamFacts DEF LinkDown
  <2>2. CASE Listed
    <3>1. state \in {"CONNECTED", "DISCONNECTING", "QUITING"}
      BY <2>1, <2>2, StreamFacts DEF IInv, TypeOK, States
    <3>2. ActionDisconnectFinish
      BY <1>5, <2>2, <3>1 DEF LinkDown
    <3> QED
      BY <2>1, <2>2, <3>2 DEF ActionDisconnectFinish, LifecycleStep, ListedStep
  <2>3. CASE ~Listed
    BY <2>1, <2>3 DEF LifecycleStep
  <2> QED
    BY <2>2, <2>3
<1>6. ASSUME NEW t \in Timers, ReconnectTimeout(t)
      PROVE  LifecycleStep
  BY <1>6, StreamFacts DEF ReconnectTimeout, ActionConnect, sirc_connect,
     session, LifecycleStep, ListedStep
<1>7. ASSUME NEW t \in Timers, PingTimeout(t)
      PROVE  LifecycleStep
  BY <1>7, StreamFacts DEF PingTimeout, ActionReconnect, sirc_connect,
     sirc_disconnect, session, LifecycleStep, ListedStep
<1>8. CASE RejoinTimeout \/ IdleRemove
  BY <1>8 DEF RejoinTimeout, IdleRemove, srn_application_rm_server, session,
     LifecycleStep, ListedStep
<1> QED
  BY <1>1, <1>2, <1>3, <1>4, <1>5, <1>6, <1>7, <1>8 DEF System

-----------------------------------------------------------------------------
(* The refinement mapping, case by case. *)
LEMMA PhaseOf ==
  /\ life = "absent" => Phase = "absent"
  /\ life \in {"dropped", "freed"} => Phase = "gone"
  /\ Listed /\ state = "DISCONNECTED" => Phase = "down"
  /\ Listed /\ state \in {"CONNECTING", "RECONNECTING"} => Phase = "trying"
  /\ Listed /\ state = "CONNECTED" => Phase = "up"
  /\ Listed /\ state \in {"DISCONNECTING", "QUITING"} => Phase = "ending"
BY DEF Phase

(* The abstract phase is determined by life and state, after a step too.   *)
LEMMA PhaseOfNext ==
  /\ life' = "absent" => Phase' = "absent"
  /\ life' \in {"dropped", "freed"} => Phase' = "gone"
  /\ Listed' /\ state' = "DISCONNECTED" => Phase' = "down"
  /\ Listed' /\ state' \in {"CONNECTING", "RECONNECTING"} => Phase' = "trying"
  /\ Listed' /\ state' = "CONNECTED" => Phase' = "up"
  /\ Listed' /\ state' \in {"DISCONNECTING", "QUITING"} => Phase' = "ending"
BY DEF Phase

(* The same step of a listed server, seen through the mapping. *)
LEMMA ListedStepMaps ==
  ASSUME IInv, Listed, Listed', ListedStep
  PROVE  [Lifecycle!LNext]_(Lifecycle!lifecycle)
<1>1. Link <=> stream # "null"
  BY DEF Link
<1>2. Link' <=> stream' # "null"
  BY DEF Link
<1>3. Link \in BOOLEAN /\ Link' \in BOOLEAN
  BY DEF Link
<1>4. CASE state' = state /\ KeepsLink
  <2>1. Phase' = Phase
    BY <1>4, PhaseOf, PhaseOfNext DEF IInv, TypeOK, States
  <2>2. Link' = Link
    BY <1>4, <1>1, <1>2, <1>3
  <2> QED
    BY <2>1, <2>2 DEF Lifecycle!lifecycle
<1> QED
  BY <1>1, <1>2, <1>3, <1>4, PhaseOf, PhaseOfNext
     DEF ListedStep, Lifecycle!lifecycle, Lifecycle!LNext, Lifecycle!Start,
         Lifecycle!Establish, Lifecycle!Lose, Lifecycle!GiveUp, Lifecycle!Leave,
         Lifecycle!Settle

(* Every step seen through the mapping.                                    *)
LEMMA StepMaps ==
  ASSUME IInv, LifecycleStep
  PROVE  [Lifecycle!LNext]_(Lifecycle!lifecycle)
<1>1. (Link <=> Listed /\ stream # "null") /\ Link \in BOOLEAN
  BY DEF Link
<1>2. (Link' <=> Listed' /\ stream' # "null") /\ Link' \in BOOLEAN
  BY DEF Link
<1>3. CASE ~Listed /\ life' = life
  <2>1. Phase' = Phase
    BY <1>3, PhaseOf, PhaseOfNext DEF IInv, TypeOK, Lives
  <2>2. Link' = Link
    BY <1>1, <1>2, <1>3
  <2> QED
    BY <2>1, <2>2 DEF Lifecycle!lifecycle
<1>4. CASE life = "absent" /\ Listed' /\ state' = "CONNECTING" /\ Unlinked'
  <2>1. Phase = "absent" /\ Phase' = "trying"
    BY <1>4, PhaseOf, PhaseOfNext
  <2>2. Link' = Link
    BY <1>1, <1>2, <1>4
  <2> QED
    BY <2>1, <2>2 DEF Lifecycle!LNext, Lifecycle!Create
<1>5. CASE Listed /\ life' \in {"dropped", "freed"}
  <2>1. Phase \notin {"absent", "gone"} /\ Phase' = "gone"
    BY <1>5, PhaseOf, PhaseOfNext DEF IInv, TypeOK, States
  <2>2. Link' = FALSE
    BY <1>2, <1>5
  <2> QED
    BY <2>1, <2>2 DEF Lifecycle!LNext, Lifecycle!Remove
<1>6. CASE Listed /\ Listed' /\ ListedStep
  BY <1>6, ListedStepMaps
<1> QED
  BY <1>3, <1>4, <1>5, <1>6 DEF LifecycleStep

(* The connection machinery keeps the promise of ServerLifecycle: links    *)
(* are only obtained while trying, only held while up or ending, and a     *)
(* removed server never comes back.                                        *)
THEOREM Refinement == Spec => ImplementsLifecycle
<1>1. Init => Lifecycle!LInit
  <2> SUFFICES ASSUME Init PROVE Lifecycle!LInit
    OBVIOUS
  <2>1. Phase = "absent"
    BY PhaseOf DEF Init
  <2>2. Link = FALSE
    BY DEF Init, Link
  <2> QED
    BY <2>1, <2>2 DEF Lifecycle!LInit
<1>2. ASSUME IInv, [Next]_vars
      PROVE  [Lifecycle!LNext]_(Lifecycle!lifecycle)
  <2>1. CASE Next
    BY <1>2, <2>1, UserStep, SystemStep, StepMaps DEF Next
  <2>2. CASE UNCHANGED vars
    <3>1. Phase' = Phase
      BY <2>2 DEF vars, Phase
    <3>2. Link' = Link
      BY <2>2 DEF vars, session, Link
    <3> QED
      BY <3>1, <3>2 DEF Lifecycle!lifecycle
  <2> QED
    BY <1>2, <2>1, <2>2
<1> QED
  BY <1>1, <1>2, Invariance, PTL DEF Spec, ImplementsLifecycle, Lifecycle!LSpec

=============================================================================
