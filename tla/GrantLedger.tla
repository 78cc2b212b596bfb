----------------------------- MODULE GrantLedger -----------------------------
(***************************************************************************)
(* The node's execution-grant ledger: the SQLite journal of consumed       *)
(* grants and stop requests (crates/eefn/src/grants.rs, grant_stop.rs),    *)
(* and the request tasks of a session that claim a grant, acknowledge it,  *)
(* drive one operation and write its final receipt (AcceptedGrant and the  *)
(* execute_grant and stop_grant handlers of client.rs).                    *)
(*                                                                         *)
(* A grant stands for one exact definition (grant id and digest).  The     *)
(* journal is durable; runners, stop watchers and their flags are lost in  *)
(* a crash.  Every journal transaction is one step because the ledger      *)
(* holds its connection mutex throughout; steps of one runner interleave   *)
(* with those of others and with stop requests, which run on other threads.*)
(***************************************************************************)
EXTENDS Naturals, FiniteSets

CONSTANTS
    Grants,         \* exact grant definitions the node may be sent
    Slots,          \* (issuer, job, task) triples
    SlotOf,         \* the triple of each grant
    Attempt,        \* the attempt number of each grant
    Controlled,     \* grants of native processes: they carry a stop control
    Runners,        \* request tasks of the node's sessions
    MaxReceipts,    \* policy.max_receipts
    NoGrant, NoRunner

ASSUME GrantAssumption ==
    /\ IsFiniteSet(Grants)
    /\ SlotOf \in [Grants -> Slots]
    /\ Attempt \in [Grants -> 1..11]
    /\ Controlled \subseteq Grants
    /\ MaxReceipts \in Nat
    /\ NoGrant \notin Grants
    /\ NoRunner \notin Runners

VARIABLES
    receipts,   \* execution_receipts.state of each grant, "none" for no row
    stops,      \* execution_stop_requests: "none", "first" (no receipt
                \* preexisted) or "late" (receipt_preexisted)
    watcher,    \* stop registry: the runner watching each grant's stop flag
    flag,       \* the watch channel's value
    phase,      \* where each runner is
    job,        \* the grant each runner was sent
    outcome,    \* the state of the report a runner is about to send
    persisted,  \* the report's persisted field
    begun,      \* the runner polled its operation at least once
    stopping,   \* process_stopping: the process control was signalled
    lapse,      \* "no", "jumped" (wall clock moved) or "expired" (deadline)
    policy,     \* the owner's policy permits the operation
    claimed,    \* history: grants some runner ever claimed
    starts,     \* history: operations started per grant
    orphans     \* history: accepted rows whose runner is gone for good

journal == <<receipts, stops>>
running == <<watcher, flag, phase, job, outcome, persisted, begun, stopping, lapse>>
history == <<claimed, starts, orphans>>
vars == <<journal, running, policy, history>>

Phases == {"idle", "lease", "claimed", "watching", "loop", "poll", "ended",
           "retire", "reply"}
\* Phases in which the runner owns the accepted row of its grant.
Owning == {"claimed", "watching", "loop", "poll", "ended"}
\* Phases in which the runner's stop watch is registered.
Watching == {"watching", "loop", "poll", "ended", "retire"}

TypeOK ==
    /\ receipts \in [Grants -> {"none", "accepted", "completed", "unknown"}]
    /\ stops \in [Grants -> {"none", "first", "late"}]
    /\ watcher \in [Grants -> Runners \cup {NoRunner}]
    /\ flag \in [Runners -> BOOLEAN]
    /\ phase \in [Runners -> Phases]
    /\ job \in [Runners -> Grants \cup {NoGrant}]
    /\ outcome \in [Runners -> {"none", "completed", "unknown", "rejected"}]
    /\ persisted \in [Runners -> BOOLEAN]
    /\ begun \in [Runners -> BOOLEAN]
    /\ stopping \in [Runners -> BOOLEAN]
    /\ lapse \in [Runners -> {"no", "jumped", "expired"}]
    /\ policy \in BOOLEAN
    /\ claimed \subseteq Grants
    /\ starts \in [Grants -> Nat]
    /\ orphans \subseteq Grants

Init ==
    /\ receipts = [g \in Grants |-> "none"]
    /\ stops = [g \in Grants |-> "none"]
    /\ watcher = [g \in Grants |-> NoRunner]
    /\ flag = [r \in Runners |-> FALSE]
    /\ phase = [r \in Runners |-> "idle"]
    /\ job = [r \in Runners |-> NoGrant]
    /\ outcome = [r \in Runners |-> "none"]
    /\ persisted = [r \in Runners |-> FALSE]
    /\ begun = [r \in Runners |-> FALSE]
    /\ stopping = [r \in Runners |-> FALSE]
    /\ lapse = [r \in Runners |-> "no"]
    /\ policy = TRUE
    /\ claimed = {}
    /\ starts = [g \in Grants |-> 0]
    /\ orphans = {}

-----------------------------------------------------------------------------
(* The journal's admission rules.                                          *)

Rows == {g \in Grants : receipts[g] # "none"}

SlotRows(g) == {h \in Rows : SlotOf[h] = SlotOf[g]}

\* Variants of check_attempt_slot that forget the used grant id, or that the
\* earlier attempt must be completed.
AdmitUncompleted(g) == receipts[g] # "completed"
AdmitAfterUncertain(g) ==
    /\ stops[g] = "none"
    /\ receipts[g] = "none"
    /\ \A h \in SlotRows(g) : Attempt[h] < Attempt[g]

\* check_attempt_slot: no recorded stop, no row for this grant id, and the
\* highest earlier attempt of the same job and task is lower and completed.
CheckAttemptSlot(g) ==
    /\ stops[g] = "none"
    /\ receipts[g] = "none"
    /\ \/ SlotRows(g) = {}
       \/ \E h \in SlotRows(g) :
            /\ \A k \in SlotRows(g) : Attempt[k] <= Attempt[h]
            /\ Attempt[h] < Attempt[g]
            /\ receipts[h] = "completed"

\* The receipt count of check_receipt_budget; its byte budget is JournalBudget's.
ReceiptsLeft == Cardinality(Rows) < MaxReceipts

-----------------------------------------------------------------------------
(* A request task of the node's session, client.rs execute_grant.          *)

\* Runner r leaves its phase with report state out, waiting to be written.
Rejects(r) ==
    /\ phase' = [phase EXCEPT ![r] = "reply"]
    /\ outcome' = [outcome EXCEPT ![r] = "rejected"]

\* A valid grant that fits the request budget, names this session and passes
\* the owner's policy starts a lease challenge.
Deliver(r, g) ==
    /\ phase[r] = "idle"
    /\ policy
    /\ phase' = [phase EXCEPT ![r] = "lease"]
    /\ job' = [job EXCEPT ![r] = g]
    /\ UNCHANGED <<journal, watcher, flag, outcome, persisted, begun, stopping,
                   lapse, policy, history>>

\* No budget, another identity, or a denied policy: rejected without a claim.
Refuse(r, g) ==
    /\ phase[r] = "idle"
    /\ Rejects(r)
    /\ job' = [job EXCEPT ![r] = g]
    /\ UNCHANGED <<journal, watcher, flag, persisted, begun, stopping, lapse,
                   policy, history>>

\* prepare_deadline up to the durable claim: one immediate transaction.
Claim(r) ==
    /\ phase[r] = "lease"
    /\ lapse[r] # "expired"
    /\ policy
    /\ CheckAttemptSlot(job[r])
    /\ ReceiptsLeft
    /\ receipts' = [receipts EXCEPT ![job[r]] = "accepted"]
    /\ claimed' = claimed \cup {job[r]}
    /\ phase' = [phase EXCEPT ![r] = "claimed"]
    /\ UNCHANGED <<stops, watcher, flag, job, outcome, persisted, begun,
                   stopping, lapse, policy, starts, orphans>>

\* A variant that goes on to run although the claim failed.
RunsUnclaimed(r) ==
    /\ phase[r] = "lease"
    /\ phase' = [phase EXCEPT ![r] = "loop"]
    /\ UNCHANGED <<journal, watcher, flag, job, outcome, persisted, begun,
                   stopping, lapse, policy, history>>

\* The lease challenge failed, one of Claim's checks denied the grant, the
\* byte budget is spent or the transaction failed.
Deny(r) ==
    /\ phase[r] = "lease"
    /\ Rejects(r)
    /\ UNCHANGED <<journal, watcher, flag, job, persisted, begun, stopping,
                   lapse, policy, history>>

\* The first value of a new watch: whether a stop is already recorded.
UnreadStop(g) == FALSE
RecordedStop(g) == stops[g] # "none"

\* watch_stop: under the journal lock, register a watch holding what
\* the journal says.
WatchStop(r) ==
    /\ phase[r] = "claimed"
    /\ watcher[job[r]] = NoRunner
    /\ watcher' = [watcher EXCEPT ![job[r]] = r]
    /\ flag' = [flag EXCEPT ![r] = RecordedStop(job[r])]
    /\ phase' = [phase EXCEPT ![r] = "watching"]
    /\ UNCHANGED <<journal, job, outcome, persisted, begun, stopping, lapse,
                   policy, history>>

\* The watch could not be registered: the grant is reported as rejected while
\* its row stays accepted.
WatchFails(r) ==
    /\ phase[r] = "claimed"
    /\ Rejects(r)
    /\ orphans' = orphans \cup {job[r]}
    /\ UNCHANGED <<journal, watcher, flag, job, persisted, begun, stopping,
                   lapse, policy, claimed, starts>>

\* The acknowledgement reached the session's writer; the run loop begins.
Acknowledge(r) ==
    /\ phase[r] = "watching"
    /\ phase' = [phase EXCEPT ![r] = "loop"]
    /\ UNCHANGED <<journal, watcher, flag, job, outcome, persisted, begun,
                   stopping, lapse, policy, history>>

Ends(r, out) ==
    /\ phase' = [phase EXCEPT ![r] = "ended"]
    /\ outcome' = [outcome EXCEPT ![r] = out]

Signalled(r) == flag[r] /\ ~stopping[r]

\* A stop of an operation without a process control, a lapsed deadline or
\* clock, or a changed policy ends the run; first, a variant without the stop.
RunEndsNotByStop(r) == lapse[r] # "no" \/ ~policy
RunEnds(r) ==
    \/ Signalled(r) /\ job[r] \notin Controlled
    \/ lapse[r] # "no"
    \/ ~policy

\* One pass over the top of run_operation_with_clock's loop and the biased
\* select's first arms: the run ends as unknown, or a controlled process is
\* told to stop and driven on, and the operation is polled next.
LoopTop(r) ==
    /\ phase[r] = "loop"
    /\ \/ RunEnds(r) /\ Ends(r, "unknown")
       \/ /\ ~RunEnds(r)
          /\ phase' = [phase EXCEPT ![r] = "poll"]
          /\ UNCHANGED outcome
    /\ stopping' = [stopping EXCEPT
                      ![r] = @ \/ (Signalled(r) /\ job[r] \in Controlled)]
    /\ UNCHANGED <<journal, watcher, flag, job, persisted, begun, lapse,
                   policy, history>>

\* The first poll starts the effects, unless the process control was already
\* signalled: process_exec then fails before it launches anything.
Launches(r) == ~begun[r] /\ ~stopping[r]

Polls(r) ==
    /\ phase[r] = "poll"
    /\ begun' = [begun EXCEPT ![r] = TRUE]
    /\ starts' = IF Launches(r) THEN [starts EXCEPT ![job[r]] = @ + 1] ELSE starts

\* The interval's arm precedes the operation's and wins when it is ready.
Tick(r) ==
    /\ phase[r] = "poll"
    /\ phase' = [phase EXCEPT ![r] = "loop"]
    /\ UNCHANGED <<journal, watcher, flag, job, outcome, persisted, begun,
                   stopping, lapse, policy, history>>

\* The operation is not ready; a tick or a wake-up leads back to the loop's top.
PollPending(r) ==
    /\ Polls(r)
    /\ begun[r] \/ ~stopping[r]
    /\ phase' = [phase EXCEPT ![r] = "loop"]
    /\ UNCHANGED <<journal, watcher, flag, job, outcome, persisted, stopping,
                   lapse, policy, claimed, orphans>>

\* The operation returned, successfully or not, and its future is dropped; a
\* completion seen after the deadline is reported as unknown.
PollCompletes(r) ==
    /\ Polls(r)
    /\ begun[r] \/ ~stopping[r]
    /\ Ends(r, IF lapse[r] = "expired" THEN "unknown" ELSE "completed")
    /\ UNCHANGED <<journal, watcher, flag, job, persisted, stopping, lapse,
                   policy, claimed, orphans>>

\* The operation failed, or its result could not be confirmed.
PollFails(r) ==
    /\ Polls(r)
    /\ Ends(r, "unknown")
    /\ UNCHANGED <<journal, watcher, flag, job, persisted, stopping, lapse,
                   policy, claimed, orphans>>

\* GrantLedger::finish: the accepted row, and no other, becomes terminal.
FinishRow(g, state) ==
    /\ receipts[g] = "accepted"
    /\ receipts' = [receipts EXCEPT ![g] = state]

Finish(r) ==
    /\ phase[r] = "ended"
    /\ FinishRow(job[r], outcome[r])
    /\ phase' = [phase EXCEPT ![r] = "retire"]
    /\ persisted' = [persisted EXCEPT ![r] = TRUE]
    /\ UNCHANGED <<stops, watcher, flag, job, outcome, begun, stopping, lapse,
                   policy, history>>

\* The report sent when the final write fails, and one that ignores the failure.
IgnoredFailure(r) == outcome[r]
FailedReport(r) == "unknown"

\* The final write failed: the row stays accepted, the report says unknown and
\* not persisted.
FinishFails(r) ==
    /\ phase[r] = "ended"
    /\ phase' = [phase EXCEPT ![r] = "retire"]
    /\ outcome' = [outcome EXCEPT ![r] = FailedReport(r)]
    /\ orphans' = orphans \cup {job[r]}
    /\ UNCHANGED <<journal, watcher, flag, job, persisted, begun, stopping,
                   lapse, policy, claimed, starts>>

\* The session ends, or the acknowledgement cannot be written, while the runner
\* awaits: AcceptedGrant::drop writes unknown, ignoring an error, and sends
\* no report.
DropRunner(r) ==
    /\ phase[r] \in {"watching", "loop"}
    /\ \/ FinishRow(job[r], "unknown") /\ UNCHANGED orphans
       \/ UNCHANGED receipts /\ orphans' = orphans \cup {job[r]}
    /\ phase' = [phase EXCEPT ![r] = "retire"]
    /\ UNCHANGED <<stops, watcher, flag, job, outcome, persisted, begun,
                   stopping, lapse, policy, claimed, starts>>

\* The runner's local state once its task is gone.
Reset(r) ==
    /\ phase' = [phase EXCEPT ![r] = "idle"]
    /\ job' = [job EXCEPT ![r] = NoGrant]
    /\ outcome' = [outcome EXCEPT ![r] = "none"]
    /\ persisted' = [persisted EXCEPT ![r] = FALSE]
    /\ begun' = [begun EXCEPT ![r] = FALSE]
    /\ stopping' = [stopping EXCEPT ![r] = FALSE]
    /\ lapse' = [lapse EXCEPT ![r] = "no"]
    /\ flag' = [flag EXCEPT ![r] = FALSE]

\* Watch::drop removes the registration; a runner with a report replies next.
Retire(r) ==
    /\ phase[r] = "retire"
    /\ watcher' = [watcher EXCEPT ![job[r]] = NoRunner]
    /\ \/ outcome[r] = "none" /\ Reset(r)
       \/ /\ outcome[r] # "none"
          /\ phase' = [phase EXCEPT ![r] = "reply"]
          /\ UNCHANGED <<flag, job, outcome, persisted, begun, stopping, lapse>>
    /\ UNCHANGED <<journal, policy, history>>

\* The response is written, or lost with the session; a challenge is dropped
\* with the session without a response.
Reply(r) ==
    /\ phase[r] \in {"reply", "lease"}
    /\ Reset(r)
    /\ UNCHANGED <<journal, watcher, policy, history>>

-----------------------------------------------------------------------------
(* Stop requests, time, policy changes and crashes.                        *)

\* The stop transaction: reuse a retained stop, or record one, consuming an
\* unclaimed grant as unknown before any admission can win.
StopRows(g) ==
    \/ stops[g] # "none" /\ UNCHANGED journal
    \/ /\ stops[g] = "none" /\ receipts[g] # "none"
       /\ stops' = [stops EXCEPT ![g] = "late"]
       /\ UNCHANGED receipts
    \/ /\ stops[g] = "none" /\ receipts[g] = "none"
       /\ ReceiptsLeft
       /\ \A h \in SlotRows(g) : Attempt[h] # Attempt[g]
       /\ stops' = [stops EXCEPT ![g] = "first"]
       /\ receipts' = [receipts EXCEPT ![g] = "unknown"]

\* request_stop_scope: the transaction, then the watcher's signal before the
\* journal lock is released.
RequestStop(g) ==
    /\ StopRows(g)
    /\ flag' = [r \in Runners |-> flag[r] \/ watcher[g] = r]
    /\ UNCHANGED <<watcher, phase, job, outcome, persisted, begun, stopping,
                   lapse, policy, history>>

\* The runner's deadline passes, or the wall clock moves by over a second.
Lapse(r, how) ==
    /\ phase[r] \notin {"idle", "retire", "reply"}
    /\ lapse[r] # "expired"
    /\ lapse' = [lapse EXCEPT ![r] = how]
    /\ UNCHANGED <<journal, watcher, flag, phase, job, outcome, persisted,
                   begun, stopping, policy, history>>

\* The owner withdraws or restores the permission.
ChangePolicy ==
    /\ policy' = ~policy
    /\ UNCHANGED <<journal, running, history>>

\* The process dies and restarts: GrantLedger::open keeps every row as it is.
Crash ==
    /\ watcher' = [g \in Grants |-> NoRunner]
    /\ flag' = [r \in Runners |-> FALSE]
    /\ phase' = [r \in Runners |-> "idle"]
    /\ job' = [r \in Runners |-> NoGrant]
    /\ outcome' = [r \in Runners |-> "none"]
    /\ persisted' = [r \in Runners |-> FALSE]
    /\ begun' = [r \in Runners |-> FALSE]
    /\ stopping' = [r \in Runners |-> FALSE]
    /\ lapse' = [r \in Runners |-> "no"]
    /\ orphans' = orphans \cup {g \in Grants : receipts[g] = "accepted"}
    /\ UNCHANGED <<journal, policy, claimed, starts>>

Step(r) ==
    \/ Claim(r) \/ Deny(r) \/ WatchStop(r) \/ WatchFails(r) \/ Acknowledge(r)
    \/ LoopTop(r) \/ Tick(r) \/ PollPending(r) \/ PollCompletes(r) \/ PollFails(r)
    \/ Finish(r) \/ FinishFails(r) \/ DropRunner(r) \/ Retire(r) \/ Reply(r)

Next ==
    \/ \E r \in Runners : Step(r)
    \/ \E r \in Runners, g \in Grants : Deliver(r, g) \/ Refuse(r, g)
    \/ \E g \in Grants : RequestStop(g)
    \/ \E r \in Runners : Lapse(r, "jumped") \/ Lapse(r, "expired")
    \/ ChangePolicy
    \/ Crash

Spec == Init /\ [][Next]_vars

-----------------------------------------------------------------------------
(* Properties.                                                             *)

\* A granted operation starts at most once, whatever duplicate deliveries,
\* crashes, failed writes and stops surround it (claim, AcceptedGrant::run).
StartedAtMostOnce == \A g \in Grants : starts[g] <= 1

\* An attempt is only ever claimed after every lower claimed attempt of the
\* same issuer, job and task durably completed: an uncertain attempt blocks
\* all later ones (check_attempt_slot).
UncertainAttemptBlocksRetry ==
    \A g, h \in claimed :
        SlotOf[g] = SlotOf[h] /\ Attempt[g] < Attempt[h]
            => receipts[g] = "completed"

\* Effects never precede their durable consumption, and a stop that consumed
\* the grant before any claim rules out every execution of it
\* (prepare_deadline, request_stop_scope).
StartedOnlyAfterClaim ==
    \A g \in Grants : starts[g] > 0 => g \in claimed /\ stops[g] # "first"

\* No registered watcher misses a durable stop, however claim, registration
\* and stop interleave (watch_stop_scope and request_stop_scope both hold the
\* journal lock over the row and the registry).
WatchersSeeStops ==
    \A g \in Grants : \A r \in Runners :
        watcher[g] = r /\ stops[g] # "none" => flag[r]

\* A runner that owns an accepted row is the only one, and its row is still
\* accepted: no other runner, stop or late drop finishes it underneath.
OneOwnerPerRow ==
    \A r \in Runners : phase[r] \in Owning =>
        /\ receipts[job[r]] = "accepted"
        /\ \A q \in Runners \ {r} : phase[q] \in Owning => job[q] # job[r]

\* A report of completion is backed by a completed row, and a persisted report
\* by the row in the reported state (run_operation_with_clock's last steps).
ReportMatchesRow ==
    \A r \in Runners : phase[r] = "reply" =>
        /\ outcome[r] = "completed" => receipts[job[r]] = "completed"
        /\ persisted[r] => receipts[job[r]] = outcome[r]

KeepsEvidence ==
    \A g \in Grants :
        /\ receipts[g] \in {"completed", "unknown"} => receipts'[g] = receipts[g]
        /\ receipts[g] # "none" => receipts'[g] # "none"
        /\ stops[g] # "none" => stops'[g] = stops[g]

\* Journal evidence is permanent: a terminal row never changes, a row never
\* disappears, a stop row is never erased or reclassified (finish's UPDATE ...
\* WHERE state='accepted', request_stop's reuse of a retained report).
EvidenceIsPermanent == [][KeepsEvidence]_vars

\* A stop is recorded for g before any runner polled its operation.
StoppedInTime(g) ==
    /\ stops[g] # "none"
    /\ starts[g] = 0
    /\ \A r \in Runners : job[r] = g => phase[r] # "poll" \/ stopping[r]

StaysStopped == \A g \in Grants : StoppedInTime(g) => StoppedInTime(g)'

\* Once a stop is durably recorded before the operation is polled, the
\* operation never starts: not by a runner between claim and watch, not by one
\* waiting to acknowledge, not after a restart.
StopBeforePollPreventsStart == [][StaysStopped]_vars

\* Scheduling: a runner's synchronous steps and its polls are taken by the
\* executor.  Nothing is assumed of the operation (a poll may be pending
\* forever), of the session (drops) or of the peer.
RunnerFairness(r) ==
    /\ WF_vars(Claim(r) \/ Deny(r))
    /\ WF_vars(WatchStop(r) \/ WatchFails(r))
    /\ WF_vars(Acknowledge(r) \/ DropRunner(r))
    /\ WF_vars(LoopTop(r))
    /\ WF_vars(Tick(r) \/ PollPending(r) \/ PollCompletes(r) \/ PollFails(r))
    /\ WF_vars(Finish(r) \/ FinishFails(r))
    /\ WF_vars(Retire(r))

FairSpec == Spec /\ \A r \in Runners : RunnerFairness(r)

\* A recorded stop of an operation without a process control, or a lapsed
\* deadline or clock, ends the run, even of an operation whose poll never
\* becomes ready (the checks at the top of run_operation_with_clock's loop).
RunsEnd ==
    \A r \in Runners, g \in Grants :
        (/\ phase[r] \in Owning /\ job[r] = g
         /\ lapse[r] # "no" \/ (stops[g] # "none" /\ g \notin Controlled))
            ~> (phase[r] \notin Owning)

-----------------------------------------------------------------------------
(* The ledger implements the contract a coordinator relies on.             *)

Started == {g \in Grants : starts[g] > 0}

Contract == INSTANCE GrantContract WITH record <- receipts, started <- Started

\* Every step of the ledger, its runners, stops, drops, failed writes and
\* crashes is a step of the contract or leaves the evidence and the set of
\* started operations alone.
ImplementsContract == Contract!Spec
=============================================================================
