----------------------------- MODULE GrantSystem -----------------------------
(***************************************************************************)
(* A reviewed plan executed end to end: the coordinator's journal and      *)
(* runner (ReviewedJob), the node gateway that correlates replies with the *)
(* waiting runner (crates/eefn/src/server.rs, server_report_workers.rs),   *)
(* and the executing node, of which only its promise is used               *)
(* (GrantContract, which GrantLedger implements) and what its session      *)
(* sends (client.rs execute_grant and stop_grant).                         *)
(*                                                                         *)
(* Each task is one grant of one node.  Sessions break and are replaced,   *)
(* either side restarts, reports are lost or arrive after their waiter is  *)
(* gone, and saves of reports outlive both.                                *)
(***************************************************************************)
EXTENDS Naturals, Sequences

CONSTANTS
    N,              \* tasks of the plan
    MaxSessions     \* sessions the node opens: bounds reconnections

ASSUME SystemAssumption == N \in Nat \ {0} /\ MaxSessions \in Nat \ {0}

VARIABLES
    plan, active, closing, pc, fresh, owed, wake, dispatched, stranded, lapsed,
    session,    \* number of the latest session
    connected,  \* it is up
    bound,      \* the session each grant was issued for
    pending,    \* the gateway's Pending entry of the current attempt
    reply,      \* what the runner's oneshot holds
    saving,     \* reports in the hands of report workers
    busy,       \* the report the session's consumer awaits a worker for
    down,       \* grant and stop messages on the way to the node
    up,         \* reports on the way to the gateway, in order
    stopAnswer, \* tasks whose stop the node answered on this session
    record,     \* the node's durable evidence (GrantContract)
    started,    \* operations started (GrantContract)
    retained,   \* success or failure of the result the node retained
    at          \* where the node's request task for each grant is

job == <<plan, active, closing, pc, fresh, owed, wake, dispatched, stranded, lapsed>>
gateway == <<pending, reply, saving, busy>>
wire == <<session, connected, down, up, stopAnswer>>
node == <<record, started, retained, at>>
vars == <<job, bound, gateway, wire, node>>

Job == INSTANCE ReviewedJob
Node == INSTANCE GrantContract WITH Grants <- 1..N

Tasks == 1..N
Current == plan.len
Idle == <<0, "none">>   \* no report in the consumer's hands

Init ==
    /\ Job!Init
    /\ Node!Init
    /\ session = 1 /\ connected = TRUE
    /\ bound = [i \in Tasks |-> 0]
    /\ pending = "none" /\ reply = "none" /\ saving = {} /\ busy = Idle
    /\ down = {} /\ up = <<>>
    /\ stopAnswer = {}
    /\ retained = [i \in Tasks |-> "none"]
    /\ at = [i \in Tasks |-> "idle"]

-----------------------------------------------------------------------------
(* The runner's steps, with what they do at the gateway.                   *)

OnBoundSession(i) == connected /\ bound[i] = session

\* Steps that touch the journal and the runner only.
RunnerStep ==
    /\ \/ Job!ReadPlan \/ Job!SettleStop \/ Job!Subscribe \/ Job!CheckStop
       \/ Job!Wake \/ Job!SkipDelivery \/ Job!DeliveryUnsaved \/ Job!Bail
    /\ UNCHANGED <<bound, gateway, wire, node>>

\* The grant names the session the runner was shown.
IssueGrant ==
    /\ Job!IssueGrant
    /\ bound' = [bound EXCEPT ![plan.len + 1] = session]
    /\ UNCHANGED <<gateway, wire, node>>

\* invoke_message: the waiter is registered and the message queued, if the
\* grant's session is still the node's.
Dispatch ==
    /\ Job!Dispatch
    /\ OnBoundSession(Current)
    /\ pending' = "sent"
    /\ reply' = "none"
    /\ down' = down \cup {<<"grant", Current>>}
    /\ UNCHANGED <<bound, saving, busy, session, connected, up, stopAnswer, node>>

\* The runner's reply arrived: it reads the plan again.
Confirmed ==
    /\ pc = "select" /\ ~wake
    /\ reply = "saved"
    /\ pc' = "top"
    /\ reply' = "none"
    /\ UNCHANGED <<plan, active, closing, fresh, owed, wake, dispatched, stranded, lapsed>>
    /\ UNCHANGED <<bound, pending, saving, busy, wire, node>>

\* A failed reply, no session, or the timeout; dropping the future removes the
\* waiter, and so does dropping the runner.
Unwait == pending' = "none" /\ reply' = "none"

GiveUp ==
    /\ Job!Unconfirmed \/ Job!Abort
    /\ Unwait
    /\ UNCHANGED <<bound, saving, busy, wire, node>>

Retire ==
    /\ Job!Retire
    /\ Unwait
    /\ UNCHANGED <<bound, saving, busy, wire, node>>

\* stop_one: the delivery is saved, then stop_grant sends it if the original
\* session is still up.
SendStop ==
    /\ Job!SaveDelivery
    /\ IF OnBoundSession(Current)
       THEN down' = down \cup {<<"stop", Current>>}
       ELSE UNCHANGED down
    /\ UNCHANGED <<bound, gateway, session, connected, up, stopAnswer, node>>

StopReplied ==
    /\ Job!StopReplied
    /\ plan' # plan => Current \in stopAnswer
    /\ UNCHANGED <<bound, gateway, wire, node>>

\* The owner's commands; recovery reads the result the node retained.
OwnerStep ==
    /\ \/ Job!Execute \/ Job!Cancel \/ Job!Notify \/ Job!Shutdown
       \/ \E i \in Tasks : Job!Abandon(i)
       \/ \E i \in Tasks : /\ connected
                           /\ record[i] = "completed"
                           /\ Job!Recover(i, retained[i])
    /\ UNCHANGED <<bound, gateway, wire, node>>

-----------------------------------------------------------------------------
(* The gateway.                                                            *)

Report == Head(up)[2]
Waiting == pending # "none" /\ Head(up)[1] = Current /\ bound[Current] = session

\* resolve_response: a rejection only before the acknowledgement, a final
\* report only after it.
InOrder(r) == (r = "rejected") = (pending # "acked")

\* The consumer hands the report at the head of the queue to a report worker;
\* an acknowledgement needs the lease proof and the deadline not passed.
TakeReport ==
    /\ up # <<>> /\ busy = Idle
    /\ Waiting
    /\ \/ Report = "accepted" /\ pending = "proved" /\ pending' = "saving"
       \/ Report # "accepted" /\ pending # "saving" /\ InOrder(Report) /\ pending' = "none"
    /\ saving' = saving \cup {Head(up)}
    /\ busy' = Head(up)
    /\ up' = Tail(up)
    /\ UNCHANGED <<job, bound, reply, session, connected, down, stopAnswer, node>>

\* Anything else at the head is dropped, a late acknowledgement included.
IgnoreReport ==
    /\ up # <<>> /\ busy = Idle
    /\ Waiting => Report = "accepted" \/ ~InOrder(Report)
    /\ up' = Tail(up)
    /\ UNCHANGED <<job, bound, gateway, session, connected, down, stopAnswer, node>>

\* What the consumer does when its worker returns: acknowledge the waiter, or
\* deliver to it; a consumer or a waiter that is gone gets nothing.
Delivered(m, ok) ==
    /\ busy' = IF m = busy THEN Idle ELSE busy
    /\ IF m # busy \/ (m[2] = "accepted" /\ pending # "saving")
       THEN UNCHANGED <<pending, reply>>
       ELSE IF m[2] = "accepted" /\ ok THEN pending' = "acked" /\ UNCHANGED reply
       ELSE /\ pending' = "none"
            /\ reply' = IF pc = "none" THEN reply ELSE IF ok THEN "saved" ELSE "failed"

\* A variant that confirms although nothing was saved.
SaveConfirmsAnyway ==
    \E m \in saving :
        /\ \/ Job!Record(m[1], m[2])
           \/ UNCHANGED job
        /\ Delivered(m, TRUE)
        /\ saving' = saving \ {m}
        /\ UNCHANGED <<bound, wire, node>>

\* The worker runs AttemptJournal::record, whether or not its waiter is still
\* there; a refused or failed save is reported as a journal error.
Save ==
    \E m \in saving :
        /\ \/ Job!Record(m[1], m[2]) /\ Delivered(m, TRUE)
           \/ UNCHANGED job /\ Delivered(m, FALSE)
        /\ saving' = saving \ {m}
        /\ UNCHANGED <<bound, wire, node>>

\* The session ends: its route goes first, then its waiters, and what was on
\* the wire is lost.  Workers go on.
Hangup ==
    /\ connected' = FALSE
    /\ down' = {} /\ up' = <<>> /\ stopAnswer' = {}
    /\ busy' = Idle
    /\ UNCHANGED session

Disconnect ==
    /\ connected
    /\ Hangup
    /\ pending' = "none"
    /\ reply' = IF pending # "none" \/ busy # Idle THEN "failed" ELSE reply
    /\ UNCHANGED <<job, bound, saving, node>>

Reconnect ==
    /\ ~connected
    /\ session < MaxSessions
    /\ session' = session + 1
    /\ connected' = TRUE
    /\ UNCHANGED <<job, bound, gateway, down, up, stopAnswer, node>>

\* The coordinator stops or dies and starts again; queued saves are lost.
Restart ==
    /\ Job!Restart
    /\ Hangup
    /\ Unwait
    /\ saving' = {}
    /\ UNCHANGED <<bound, node>>

-----------------------------------------------------------------------------
(* The node: GrantContract, and what its session receives and sends.       *)

Sends(i, r) == up' = IF OnBoundSession(i) THEN Append(up, <<i, r>>) ELSE up
Moves(i, where) == at' = [at EXCEPT ![i] = where]
NodeOnly == UNCHANGED <<job, bound, gateway, session, connected>>

NodeReceives(i) ==
    /\ <<"grant", i>> \in down
    /\ at[i] = "idle"
    /\ down' = down \ {<<"grant", i>>}
    /\ Moves(i, "lease")
    /\ NodeOnly /\ UNCHANGED <<up, stopAnswer, record, started, retained>>

\* The lease challenge: reply_grant_lease proves the issuance once.
ProveLease(i) ==
    /\ at[i] = "lease"
    /\ OnBoundSession(i) /\ i = Current /\ pending = "sent"
    /\ pending' = "proved"
    /\ Moves(i, "proved")
    /\ UNCHANGED <<job, bound, reply, saving, busy, wire,
                   record, started, retained>>

\* A variant that also reports a run it gives up as rejected.
RejectsRunning(i) ==
    /\ at[i] \in {"lease", "proved", "claimed", "running"}
    /\ Sends(i, "rejected")
    /\ Moves(i, "over")
    /\ NodeOnly /\ UNCHANGED <<down, stopAnswer, record, started, retained>>

\* Anything that denies the grant, before the claim or after it.
NodeRejects(i) ==
    /\ at[i] \in {"lease", "proved", "claimed"}
    /\ Sends(i, "rejected")
    /\ Moves(i, "over")
    /\ NodeOnly /\ UNCHANGED <<down, stopAnswer, record, started, retained>>

NodeClaims(i) ==
    /\ at[i] = "proved"
    /\ Node!Consume(i)
    /\ Moves(i, "claimed")
    /\ NodeOnly /\ UNCHANGED <<down, up, stopAnswer, retained>>

NodeAcknowledges(i) ==
    /\ at[i] = "claimed"
    /\ OnBoundSession(i)
    /\ Sends(i, "accepted")
    /\ Moves(i, "running")
    /\ NodeOnly /\ UNCHANGED <<down, stopAnswer, record, started, retained>>

NodeStarts(i) ==
    /\ at[i] = "running"
    /\ Node!Start(i)
    /\ NodeOnly /\ UNCHANGED <<down, up, stopAnswer, retained, at>>

\* A variant that reports the completion before it is saved.
ReportsUnsaved(i, r) ==
    /\ at[i] = "running" /\ i \in started
    /\ Sends(i, r)
    /\ Moves(i, "over")
    /\ NodeOnly /\ UNCHANGED <<down, stopAnswer, record, started, retained>>

NodeCompletes(i, r) ==
    /\ at[i] = "running"
    /\ Node!Settle(i, "completed")
    /\ retained' = [retained EXCEPT ![i] = r]
    /\ Sends(i, r)
    /\ Moves(i, "over")
    /\ NodeOnly /\ UNCHANGED <<down, stopAnswer>>

\* The run ends in doubt, saved or not.
NodeDoubts(i) ==
    /\ at[i] = "running"
    /\ Node!Settle(i, "unknown") \/ UNCHANGED <<record, started>>
    /\ Sends(i, "unknown")
    /\ Moves(i, "over")
    /\ NodeOnly /\ UNCHANGED <<down, stopAnswer, retained>>

\* The node sees its session end, maybe before the gateway does, or dies: the
\* request is dropped.
NodeDrops(i) ==
    /\ at[i] \in {"lease", "proved", "claimed", "running"}
    /\ Node!Settle(i, "unknown") \/ UNCHANGED <<record, started>>
    /\ Moves(i, "over")
    /\ NodeOnly /\ UNCHANGED <<down, up, stopAnswer, retained>>

NodeStops(i) ==
    /\ <<"stop", i>> \in down
    /\ down' = down \ {<<"stop", i>>}
    /\ stopAnswer' = stopAnswer \cup {i}
    /\ IF record[i] = "none" THEN Node!StopFirst(i) ELSE UNCHANGED <<record, started>>
    /\ NodeOnly /\ UNCHANGED <<up, retained, at>>

Next ==
    \/ RunnerStep \/ IssueGrant \/ Dispatch \/ Confirmed \/ GiveUp \/ Retire
    \/ SendStop \/ StopReplied \/ OwnerStep
    \/ TakeReport \/ IgnoreReport \/ Save \/ Disconnect \/ Reconnect \/ Restart
    \/ \E i \in Tasks :
         \/ NodeReceives(i) \/ ProveLease(i) \/ NodeRejects(i) \/ NodeClaims(i)
         \/ NodeAcknowledges(i) \/ NodeStarts(i) \/ NodeDoubts(i) \/ NodeDrops(i)
         \/ NodeStops(i)
         \/ \E r \in {"success", "failure"} : NodeCompletes(i, r)

Spec == Init /\ [][Next]_vars

-----------------------------------------------------------------------------
(* Properties.                                                             *)

\* The composed state has the shapes the gateway, the sessions and the node
\* give it; a grant names a session the node has opened.
TypeOK ==
    /\ Job!TypeOK
    /\ session \in 1..MaxSessions /\ connected \in BOOLEAN
    /\ busy \in saving \cup {Idle}
    /\ bound \in [Tasks -> 0..MaxSessions]
    /\ pending \in {"none", "sent", "proved", "saving", "acked"}
    /\ reply \in {"none", "saved", "failed"}
    /\ record \in [Tasks -> {"none", "accepted", "completed", "unknown"}]
    /\ started \subseteq Tasks
    /\ retained \in [Tasks -> {"none", "success", "failure"}]
    /\ at \in [Tasks -> {"idle", "lease", "proved", "claimed", "running", "over"}]

\* What the journal says of an attempt is true of the node: what it records as
\* completed, by report or by recovery, the node durably completed with that
\* result; what it records as accepted the node consumed; what it records as
\* rejected never ran (resolve_response, request_recovery::apply).
JournalIsTrue ==
    \A i \in Tasks :
        /\ plan.attempt[i].state = "completed" =>
              record[i] = "completed" /\ retained[i] = Job!FinalReport(plan.attempt[i])
        /\ plan.attempt[i].ack => record[i] # "none"
        /\ plan.attempt[i].state = "rejected" => i \notin started

\* Effects follow the plan's order: an operation starts only after the
\* previous one durably succeeded.
EffectsInOrder ==
    \A i \in started \ {1} : record[i - 1] = "completed" /\ retained[i - 1] = "success"

\* A plan shown as completed, failed or cancelled has nothing running and
\* nothing that may still start: every operation that started is completed.
FinishedIsQuiet ==
    plan.status \in {"completed", "failed", "cancelled"} =>
        \A i \in started : record[i] = "completed"

\* The composed system still follows the journal's own specification.
JobIsFollowed == Job!Spec
=============================================================================
