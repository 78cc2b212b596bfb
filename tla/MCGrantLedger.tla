--------------------------- MODULE MCGrantLedger ---------------------------
(* Two attempts of one task, the second a native process, and two runners. *)
EXTENDS GrantLedger, TLC

CONSTANTS first, process

MCSlotOf == [g \in Grants |-> "task"]
MCAttempt == (first :> 1) @@ (process :> 2)
=============================================================================
