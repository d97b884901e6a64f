------------------------------ MODULE MCChats -------------------------------
(***************************************************************************)
(* Chats on a small instance: three nicks are enough for the user and two  *)
(* others, one of whom takes over the nick of a third who is gone.         *)
(***************************************************************************)
EXTENDS Chats, TLC

(* The objects other than the user's own are interchangeable. *)
UserSymmetry == Permutations(Users \ {Me})
=============================================================================
