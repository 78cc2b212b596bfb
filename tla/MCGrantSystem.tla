---------------------------- MODULE MCGrantSystem ----------------------------
(* Two tasks and two sessions: a predecessor, a successor and a reconnection. *)
EXTENDS GrantSystem
=============================================================================
