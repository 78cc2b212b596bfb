---------------------------- MODULE GrantContract ----------------------------
(***************************************************************************)
(* What a node promises about an execution grant, whatever happens around  *)
(* it: the grant is consumed at most once, its operation starts only while *)
(* the consumption is on record and at most once, a completion is reported *)
(* only of an operation that started, and what is settled stays settled.   *)
(* GrantLedger implements this contract; GrantSystem relies on it.         *)
(***************************************************************************)
CONSTANT Grants

VARIABLES
    record,     \* the durable evidence of each grant
    started     \* grants whose operation has started

contract == <<record, started>>

Init ==
    /\ record = [g \in Grants |-> "none"]
    /\ started = {}

\* Consume the grant; nothing has started.
Consume(g) ==
    /\ record[g] = "none"
    /\ record' = [record EXCEPT ![g] = "accepted"]
    /\ UNCHANGED started

\* A stop that comes first consumes the grant as uncertain.
StopFirst(g) ==
    /\ record[g] = "none"
    /\ record' = [record EXCEPT ![g] = "unknown"]
    /\ UNCHANGED started

Start(g) ==
    /\ record[g] = "accepted"
    /\ g \notin started
    /\ started' = started \cup {g}
    /\ UNCHANGED record

Settle(g, state) ==
    /\ record[g] = "accepted"
    /\ state \in {"completed", "unknown"}
    /\ state = "completed" => g \in started
    /\ record' = [record EXCEPT ![g] = state]
    /\ UNCHANGED started

Next ==
    \E g \in Grants :
        \/ Consume(g)
        \/ StopFirst(g)
        \/ Start(g)
        \/ \E state \in {"completed", "unknown"} : Settle(g, state)

Spec == Init /\ [][Next]_contract
=============================================================================
