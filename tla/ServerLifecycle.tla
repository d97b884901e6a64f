-------------------------- MODULE ServerLifecycle ---------------------------
(***************************************************************************)
(* What a server promises to the rest of Srain and to the person using it: *)
(* its phase, and whether it holds a connection to the peer.               *)
(*                                                                         *)
(*   absent  not created yet                                               *)
(*   down    no connection and no attempt to get one                       *)
(*   trying  an attempt is under way, or the next one is scheduled         *)
(*   up      connected                                                     *)
(*   ending  told to disconnect or to quit                                 *)
(*   gone    no longer in the server list                                  *)
(*                                                                         *)
(* A connection exists only when the server is up or ending, it is only    *)
(* obtained by a server that is trying, and a server that is gone never    *)
(* comes back.                                                             *)
(***************************************************************************)
VARIABLES phase, link

lifecycle == <<phase, link>>

LifecycleTypeOK ==
  /\ phase \in {"absent", "down", "trying", "up", "ending", "gone"}
  /\ link \in BOOLEAN

LInit == phase = "absent" /\ link = FALSE

(* Creation connects at once. *)
Create    == phase = "absent" /\ phase' = "trying" /\ UNCHANGED link
Start     == phase = "down"   /\ phase' = "trying" /\ UNCHANGED link
Establish == phase = "trying" /\ phase' = "up"     /\ ~link /\ link' = TRUE
(* The connection is lost; the next attempt is scheduled.                  *)
Lose      == phase = "up"     /\ phase' = "trying" /\ link /\ link' = FALSE
(* The scheduled attempt is called off.                                    *)
GiveUp    == phase = "trying" /\ phase' = "down"   /\ ~link /\ UNCHANGED link
Leave     == phase \in {"trying", "up"} /\ phase' = "ending" /\ UNCHANGED link
Settle    == phase = "ending" /\ phase' = "down"   /\ link' = FALSE
(* A server may only be dropped by someone who gives up its connection.    *)
Remove    == phase \notin {"absent", "gone"} /\ phase' = "gone" /\ link' = FALSE

LNext ==
  \/ Create \/ Start \/ Establish \/ Lose \/ GiveUp \/ Leave \/ Settle \/ Remove

LSpec == LInit /\ [][LNext]_lifecycle
=============================================================================
