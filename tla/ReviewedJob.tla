----------------------------- MODULE ReviewedJob -----------------------------
(***************************************************************************)
(* The coordinator's journal of one owner-approved request and the runner  *)
(* that executes it: crates/eef/src/request_execution.rs (start, issue,    *)
(* AttemptJournal, Driver::drive, validate_retained, abandon),             *)
(* execution_stop.rs, request_recovery.rs, jobs.rs (interrupt) and task.rs *)
(* (claim, cancel, ActiveJob, shutdown).                                   *)
(*                                                                         *)
(* The plan is one durable record that every actor edits in a transaction  *)
(* of its own: the runner, which awaits sessions, replies and stop         *)
(* receipts between its edits, the callbacks that save node reports, the   *)
(* owner's stop, recovery and abandonment commands, shutdown and restart.  *)
(* Node reports are inputs here; GrantSystem produces them.                *)
(***************************************************************************)
EXTENDS Naturals

CONSTANTS N     \* tasks of the plan, executed in order

ASSUME TaskAssumption == N \in Nat \ {0}

VARIABLES
    plan,       \* the durable job record
    active,     \* the job is in ActiveJobs.ids: it has a runner
    closing,    \* ActiveJobs.closing: admission is closed
    pc,         \* where the runner is
    fresh,      \* the plan's revision is the one the runner read
    owed,       \* cancel calls between their edit and their notification
    wake,       \* stop_changes moved since the runner last looked
    dispatched, \* tasks whose grant message the runner has sent
    stranded,   \* a retiring runner's checkpoint could not be written
    lapsed      \* a stop delivery could not be written

coordinator == <<active, closing, pc, fresh, owed, wake, dispatched, stranded, lapsed>>
jobvars == <<plan, coordinator>>

Tasks == 1..N
Finished == {"completed", "failed", "cancelled", "abandoned"}
Live == {"running", "stopping"}
\* What a node may report: acceptance, completion with or without success,
\* rejection, uncertainty.
Reports == {"accepted", "success", "failure", "rejected", "unknown"}

\* One attempt: its state, whether an acknowledgement is saved, the report and
\* the recovery evidence saved ("none", or what they say), the stop delivery.
NoAttempt == [state |-> "none", ack |-> FALSE, report |-> "none",
              recovery |-> "none", stop |-> "none"]
AttemptType ==
    [state : {"none", "issued", "accepted", "completed", "rejected", "unknown"},
     ack : BOOLEAN,
     report : {"none", "success", "failure", "rejected", "unknown"},
     recovery : {"none", "success", "failure"},
     stop : {"none", "sent", "confirmed"}]
PlanType ==
    [status : {"approved", "interrupted"} \cup Live \cup Finished,
     task : [Tasks -> {"pending", "running", "completed", "failed",
                       "interrupted", "cancelled"}],
     attempt : [Tasks -> AttemptType],
     len : 0..N,               \* attempts issued so far: tasks 1..len
     stopAt : BOOLEAN,         \* stop_requested_at_ms is set
     abandonment : BOOLEAN]    \* an abandonment record is saved

Init ==
    /\ plan = [status |-> "approved",
               task |-> [i \in Tasks |-> "pending"],
               attempt |-> [i \in Tasks |-> NoAttempt],
               len |-> 0, stopAt |-> FALSE, abandonment |-> FALSE]
    /\ active = FALSE
    /\ closing = FALSE
    /\ pc = "none"
    /\ fresh = FALSE
    /\ owed = 0
    /\ wake = FALSE
    /\ dispatched = {}
    /\ stranded = FALSE
    /\ lapsed = FALSE

-----------------------------------------------------------------------------
(* Edits of the plan.                                                      *)

Issued(p) == 1..p.len
Unsettled(p) == {i \in Tasks : p.attempt[i].state \in {"issued", "accepted"}}
NextTask(p) == p.len + 1

FinalReport(a) == IF a.recovery # "none" THEN a.recovery ELSE a.report

CancelPending(p) ==
    [p EXCEPT !.task = [i \in Tasks |-> IF @[i] = "pending" THEN "cancelled" ELSE @[i]]]

Cancelled(p) == [CancelPending(p) EXCEPT !.status = "cancelled"]

\* issue: the next pending task of the running plan, its predecessor
\* reported as successful.
CanIssue(p) ==
    LET i == NextTask(p) IN
    /\ p.status = "running"
    /\ i <= N
    /\ p.task[i] = "pending"
    /\ i > 1 => p.attempt[i - 1].report = "success"

Issue(p) ==
    [p EXCEPT !.len = NextTask(p),
              !.task[NextTask(p)] = "running",
              !.attempt[NextTask(p)].state = "issued"]

\* AttemptJournal::record: a report already saved changes nothing; otherwise
\* the plan must be live and the report fit the attempt's state.
Saved(a, r) == (r = "accepted" /\ a.ack) \/ a.report = r

Fits(a, r) ==
    \/ r = "accepted" /\ a.state = "issued"
    \/ r = "rejected" /\ a.state = "issued"
    \/ r \in {"success", "failure", "unknown"} /\ a.state = "accepted"

CanRecord(p, i, r) ==
    /\ i \in Issued(p)
    /\ ~Saved(p.attempt[i], r)
    /\ p.status \in Live
    /\ Fits(p.attempt[i], r)

StateOf(r) == CASE r \in {"success", "failure"} -> "completed"
                [] r = "rejected" -> "rejected"
                [] OTHER -> "unknown"

TaskOf(r) == CASE r = "success" -> "completed"
               [] r = "unknown" -> "interrupted"
               [] OTHER -> "failed"

\* What the saved final report r does to the plan as a whole.
Settle(p, r) ==
    IF r = "unknown" THEN [p EXCEPT !.status = "interrupted"]
    ELSE IF r # "success" THEN [CancelPending(p) EXCEPT !.status = "failed"]
    ELSE IF p.status = "stopping" THEN Cancelled(p)
    ELSE IF \A i \in Tasks : p.task[i] = "completed" THEN [p EXCEPT !.status = "completed"]
    ELSE p

RecordReport(p, i, r) ==
    IF r = "accepted"
    THEN [p EXCEPT !.attempt[i] = [@ EXCEPT !.state = "accepted", !.ack = TRUE]]
    ELSE Settle([p EXCEPT !.attempt[i] = [@ EXCEPT !.state = StateOf(r), !.report = r],
                          !.task[i] = TaskOf(r)], r)

\* can_settle_unissued_stop: every issued attempt has a definite outcome.
StopIsSettled(p) ==
    /\ p.status = "stopping"
    /\ \A i \in Issued(p) : p.attempt[i].state \in {"completed", "rejected"}

\* request_execution::interrupt
Doubt(p) ==
    [p EXCEPT !.attempt = [i \in Tasks |-> IF i \in Unsettled(p)
                              THEN [@[i] EXCEPT !.state = "unknown"] ELSE @[i]]]

\* JobStore::interrupt: a stop with nothing in doubt is settled, anything else
\* live becomes interrupted.
Interrupt(p) ==
    IF p.status \notin Live THEN p
    ELSE IF StopIsSettled(p) THEN Cancelled(p)
    ELSE [Doubt(p) EXCEPT
            !.status = "interrupted",
            !.task = [i \in Tasks |-> IF @[i] = "running" THEN "interrupted" ELSE @[i]]]

CanCancel(p) ==
    /\ \A i \in Tasks : p.attempt[i].state # "unknown"
    /\ p.status \notin {"completed", "failed", "cancelled"}

\* A variant that leaves unissued tasks pending.
CancelKeepsPending(p, runner) ==
    [p EXCEPT !.stopAt = @ \/ p.status # "approved",
              !.status = IF runner THEN "stopping" ELSE "cancelled"]

\* TaskEngine::cancel, with a runner or without one.
CancelPlan(p, runner) ==
    LET q == [p EXCEPT !.stopAt = @ \/ p.status # "approved"]
    IN  IF runner THEN [q EXCEPT !.status = "stopping"] ELSE Cancelled(q)

\* request_recovery::eligible and apply: the last attempt of an interrupted
\* plan is unknown and the node retained its completion r.
CanRecover(p, i) ==
    /\ p.status = "interrupted"
    /\ p.attempt[i].state = "unknown"
    /\ ~p.abandonment
    /\ i = p.len

RecoverPlan(p, i, r) ==
    LET q == [p EXCEPT !.attempt[i] = [@ EXCEPT !.state = "completed", !.recovery = r],
                       !.task[i] = TaskOf(r)]
    IN  IF r = "failure" THEN [CancelPending(q) EXCEPT !.status = "failed"]
        ELSE IF \A k \in Tasks : q.task[k] = "completed" THEN [q EXCEPT !.status = "completed"]
        ELSE q

CanAbandon(p, i) ==
    /\ p.status = "interrupted"
    /\ p.attempt[i].state = "unknown"
    /\ ~p.abandonment

AbandonPlan(p) ==
    [CancelPending(p) EXCEPT !.status = "abandoned", !.abandonment = TRUE]

-----------------------------------------------------------------------------
(* validate_retained: what a journal read or write accepts.                *)

ValidLifecycle(a, t) ==
    \/ a.state = "none" /\ t \in {"pending", "cancelled"}
    \/ a.state = "issued" /\ ~a.ack /\ a.report = "none" /\ t = "running"
    \/ a.state = "accepted" /\ a.ack /\ a.report = "none" /\ t = "running"
    \/ /\ a.state = "completed"
       /\ a.ack \/ a.recovery # "none"
       /\ FinalReport(a) \in {"success", "failure"}
       /\ t = TaskOf(FinalReport(a))
    \/ a.state = "rejected" /\ ~a.ack /\ a.report = "rejected" /\ t = "failed"
    \/ /\ a.state = "unknown"
       /\ a.report = "none" \/ (a.report = "unknown" /\ a.ack)
       /\ t = "interrupted"

ValidOrder(p) ==
    \A i \in Issued(p) \ {1} :
        /\ p.attempt[i - 1].state = "completed"
        /\ FinalReport(p.attempt[i - 1]) = "success"

ValidStatus(p) ==
    /\ p.status \notin Live => Unsettled(p) = {}
    /\ p.status = "completed" => \A i \in Tasks : p.task[i] = "completed"
    /\ p.status = "failed" => \E i \in Tasks : p.task[i] = "failed"
    /\ p.status = "cancelled" =>
          \A i \in Tasks : p.task[i] \notin {"pending", "running", "interrupted"}
    /\ p.status \in Live => \A i \in Tasks : p.task[i] \notin {"interrupted", "failed"}
    /\ \A i, k \in Unsettled(p) : i = k

\* request_recovery::validate_record.
ValidRecovery(p, i) ==
    LET a == p.attempt[i] IN
    a.recovery # "none" =>
        /\ a.state = "completed"
        /\ ~p.abandonment
        /\ i = p.len
        /\ a.report = "none" \/ (a.report = "unknown" /\ a.ack)
        /\ p.status \notin Live \cup {"abandoned"}
        /\ (\A k \in Tasks : p.task[k] = "completed") => p.status = "completed"
        /\ (\E k \in Tasks : p.task[k] = "failed") => p.status = "failed"

ValidAbandonment(p) ==
    /\ p.abandonment = (p.status = "abandoned")
    /\ p.abandonment =>
          /\ p.len > 0
          /\ p.attempt[p.len].state = "unknown"
          /\ \A i \in Tasks : p.task[i] \notin {"pending", "running", "failed"}

ValidRetained(p) ==
    /\ \A i \in Tasks : /\ ValidLifecycle(p.attempt[i], p.task[i])
                        /\ ValidRecovery(p, i)
                        /\ p.attempt[i].stop # "none" => p.stopAt
    /\ ValidOrder(p)
    /\ ValidStatus(p)
    /\ ValidAbandonment(p)

\* JobStore::edit_with_gate: the edited plan is validated, saved and gets the
\* next revision.
Save(p) ==
    /\ ValidRetained(p)
    /\ plan' = p
    /\ fresh' = FALSE

-----------------------------------------------------------------------------
(* The runner: Driver::drive inside the task execute_reviewed spawns.      *)

Goto(l) == pc' = l
Current == plan.len    \* the attempt the runner waits for

\* execute_reviewed: claim and start under the active lock, then the spawned
\* runner.  The owner's approval is current.
Execute ==
    /\ ~closing
    /\ ~active
    /\ plan.status = "approved"
    /\ Save([plan EXCEPT !.status = "running"])
    /\ active' = TRUE
    /\ Goto("top")
    /\ UNCHANGED <<closing, owed, wake, dispatched, stranded, lapsed>>

ReadPlan ==
    /\ pc = "top"
    /\ fresh' = TRUE
    /\ Goto(CASE plan.status = "stopping" -> "settle"
              [] plan.status = "running" /\ NextTask(plan) <= N -> "session"
              [] OTHER -> "retire")
    /\ UNCHANGED <<plan, active, closing, owed, wake, dispatched, stranded, lapsed>>

SettleStop ==
    /\ pc = "settle"
    /\ Save(Cancelled(plan))
    /\ Goto("retire")
    /\ UNCHANGED <<active, closing, owed, wake, dispatched, stranded, lapsed>>

\* A variant without the revision and status fence.
IssueUnfenced ==
    /\ pc = "session"
    /\ ~closing
    /\ Save(Issue(plan))
    /\ Goto("subscribe")
    /\ UNCHANGED <<active, closing, owed, wake, dispatched, stranded, lapsed>>

\* The session checks are over: the grant is saved if nothing changed since
\* the plan was read.
IssueGrant ==
    /\ pc = "session"
    /\ ~closing
    /\ fresh
    /\ CanIssue(plan)
    /\ Save(Issue(plan))
    /\ Goto("subscribe")
    /\ UNCHANGED <<active, closing, owed, wake, dispatched, stranded, lapsed>>

\* wait_with_stop: subscribe, then look for a stop already retained.
Subscribe ==
    /\ pc = "subscribe"
    /\ wake' = FALSE
    /\ Goto("check")
    /\ UNCHANGED <<plan, active, closing, fresh, owed, dispatched, stranded, lapsed>>

\* Variant: a stop that is already retained is not looked for.
CheckSkipped ==
    /\ pc = "check"
    /\ Goto("select")
    /\ UNCHANGED <<plan, active, closing, fresh, owed, wake, dispatched, stranded, lapsed>>

CheckStop ==
    /\ pc = "check"
    /\ Goto(IF plan.stopAt THEN "refuse" ELSE "select")
    /\ UNCHANGED <<plan, active, closing, fresh, owed, wake, dispatched, stranded, lapsed>>

\* The biased select: a change of stop_changes first, else the reply future,
\* whose first poll sends the grant.
Wake ==
    /\ pc = "select"
    /\ wake
    /\ wake' = FALSE
    /\ Goto(IF plan.stopAt THEN "deliver" ELSE "select")
    /\ UNCHANGED <<plan, active, closing, fresh, owed, dispatched, stranded, lapsed>>

Dispatch ==
    /\ pc = "select"
    /\ ~wake
    /\ Current \notin dispatched
    /\ dispatched' = dispatched \cup {Current}
    /\ UNCHANGED <<plan, active, closing, pc, fresh, owed, wake, stranded, lapsed>>

\* The gateway confirms a final report only after it is saved.
Confirmed ==
    /\ pc = "select"
    /\ ~wake
    /\ Current \in dispatched
    /\ plan.attempt[Current].report # "none"
    /\ Goto("top")
    /\ UNCHANGED <<plan, active, closing, fresh, owed, wake, dispatched, stranded, lapsed>>

\* A failed send, a disconnect, an unconfirmed reply or the wait's timeout.
Unconfirmed ==
    /\ pc = "select"
    /\ ~wake
    /\ Goto("retire")
    /\ UNCHANGED <<plan, active, closing, fresh, owed, wake, dispatched, stranded, lapsed>>

\* stop_one: one delivery record per attempt, saved before the one send;
\* after it the runner waits on ("select") or gives up ("retire").
AfterStop == IF pc \in {"deliver", "sent"} THEN "select" ELSE "retire"
AwaitStop == IF pc = "deliver" THEN "sent" ELSE "refused"

\* A variant that sends whatever was sent before.
SaveDeliveryAgain ==
    /\ pc \in {"deliver", "refuse"}
    /\ plan.stopAt
    /\ Save([plan EXCEPT !.attempt[Current].stop = "sent"])
    /\ Goto(AwaitStop)
    /\ UNCHANGED <<active, closing, owed, wake, dispatched, stranded, lapsed>>

SaveDelivery ==
    /\ pc \in {"deliver", "refuse"}
    /\ plan.stopAt
    /\ plan.attempt[Current].stop = "none"
    /\ Save([plan EXCEPT !.attempt[Current].stop = "sent"])
    /\ Goto(AwaitStop)
    /\ UNCHANGED <<active, closing, owed, wake, dispatched, stranded, lapsed>>

\* The stop of this attempt was already sent.
SkipDelivery ==
    /\ pc \in {"deliver", "refuse"}
    /\ plan.attempt[Current].stop # "none"
    /\ Goto(AfterStop)
    /\ UNCHANGED <<plan, active, closing, fresh, owed, wake, dispatched, stranded, lapsed>>

\* The delivery cannot be written: no send, and no later attempt to send.
DeliveryUnsaved ==
    /\ pc \in {"deliver", "refuse"}
    /\ lapsed' = TRUE
    /\ Goto(AfterStop)
    /\ UNCHANGED <<plan, active, closing, fresh, owed, wake, dispatched, stranded>>

StopReplied ==
    /\ pc \in {"sent", "refused"}
    /\ \/ Save([plan EXCEPT !.attempt[Current].stop = "confirmed"])
       \/ UNCHANGED <<plan, fresh>>
    /\ Goto(AfterStop)
    /\ UNCHANGED <<active, closing, owed, wake, dispatched, stranded, lapsed>>

\* Any failing step of the runner ends it: a store error, a refused session,
\* changed bounds, an expired approval, no capacity, a lost fence.
Bail ==
    /\ pc \in {"top", "settle", "session", "check"}
    /\ Goto("retire")
    /\ UNCHANGED <<plan, active, closing, fresh, owed, wake, dispatched, stranded, lapsed>>

\* Shutdown drops the runner at an await.
Abort ==
    /\ closing
    /\ pc \in {"top", "session", "select", "sent", "refused"}
    /\ Goto("retire")
    /\ UNCHANGED <<plan, active, closing, fresh, owed, wake, dispatched, stranded, lapsed>>

\* A variant that checkpoints outside the lock and leaves the registry later.
RetireUnlocked ==
    /\ \/ /\ pc = "retire"
          /\ Save(Interrupt(plan))
          /\ Goto("none")
          /\ UNCHANGED active
       \/ /\ pc = "none" /\ active
          /\ active' = FALSE
          /\ UNCHANGED <<plan, fresh, pc>>
    /\ UNCHANGED <<closing, owed, wake, dispatched, stranded, lapsed>>

\* A variant that forgets the checkpoint.
RetireSilently ==
    /\ pc = "retire"
    /\ active' = FALSE
    /\ Goto("none")
    /\ UNCHANGED <<plan, fresh, closing, owed, wake, dispatched, stranded, lapsed>>

\* ActiveJob::drop, under the active lock; a failed checkpoint is only logged.
Retire ==
    /\ pc = "retire"
    /\ \/ Save(Interrupt(plan)) /\ UNCHANGED stranded
       \/ UNCHANGED <<plan, fresh>> /\ stranded' = TRUE
    /\ active' = FALSE
    /\ Goto("none")
    /\ UNCHANGED <<closing, owed, wake, dispatched, lapsed>>

-----------------------------------------------------------------------------
(* The callbacks and commands that race with the runner.                   *)

\* The gateway's report worker saves a report of task i's node, whether or not
\* a runner still waits for it.
Record(i, r) ==
    /\ CanRecord(plan, i, r)
    /\ Save(RecordReport(plan, i, r))
    /\ UNCHANGED <<active, closing, pc, owed, wake, dispatched, stranded, lapsed>>

\* TaskEngine::cancel: the edit under the active lock, the notification of the
\* runners after it is released.  MaxOwed calls may be between the two.
MaxOwed == 2

Cancel ==
    /\ owed < MaxOwed
    /\ CanCancel(plan)
    /\ Save(CancelPlan(plan, active))
    /\ owed' = owed + 1
    /\ UNCHANGED <<active, closing, pc, wake, dispatched, stranded, lapsed>>

Notify ==
    /\ owed > 0
    /\ owed' = owed - 1
    /\ wake' = TRUE
    /\ UNCHANGED <<plan, active, closing, pc, fresh, dispatched, stranded, lapsed>>

\* recover_reviewed with the completion r the node retained for task i, and
\* abandon_reviewed: both only for an idle job.
Recover(i, r) ==
    /\ ~closing
    /\ ~active
    /\ CanRecover(plan, i)
    /\ Save(RecoverPlan(plan, i, r))
    /\ UNCHANGED <<active, closing, pc, owed, wake, dispatched, stranded, lapsed>>

Abandon(i) ==
    /\ ~closing
    /\ ~active
    /\ CanAbandon(plan, i)
    /\ Save(AbandonPlan(plan))
    /\ UNCHANGED <<active, closing, pc, owed, wake, dispatched, stranded, lapsed>>

Shutdown ==
    /\ ~closing
    /\ closing' = TRUE
    /\ UNCHANGED <<plan, active, pc, fresh, owed, wake, dispatched, stranded, lapsed>>

\* The process ends, orderly or not, and starts again: JobStore::initialize
\* interrupts what was live before anything else runs.
Restart ==
    /\ Save(Interrupt(plan))
    /\ active' = FALSE
    /\ closing' = FALSE
    /\ Goto("none")
    /\ owed' = 0
    /\ wake' = FALSE
    /\ stranded' = FALSE
    /\ lapsed' = FALSE
    /\ UNCHANGED dispatched

Runner ==
    \/ ReadPlan \/ SettleStop \/ IssueGrant \/ Subscribe \/ CheckStop
    \/ Wake \/ Dispatch \/ Confirmed \/ Unconfirmed
    \/ SaveDelivery \/ SkipDelivery \/ DeliveryUnsaved \/ StopReplied \/ Bail \/ Abort \/ Retire

Owner == Execute \/ Cancel \/ Notify \/ Shutdown \/ Restart \/ \E i \in Tasks : Abandon(i)

Next ==
    \/ Runner
    \/ Owner
    \/ \E i \in dispatched, r \in Reports : Record(i, r)
    \/ \E i \in Tasks, r \in {"success", "failure"} : Recover(i, r)

Spec == Init /\ [][Next]_jobvars

\* Every await of the runner ends: session checks and the replies to a grant
\* and to a stop have timeouts, and a notification follows its edit.  The owner
\* repeats a stop finitely often: the biased select looks at stops first.
FairSpec ==
    /\ Spec
    /\ WF_jobvars(Runner)
    /\ WF_jobvars(Notify)
    /\ <>[][~Cancel]_jobvars

-----------------------------------------------------------------------------
(* Properties.                                                             *)

\* The journal record and the runner's state have the shapes the code gives them.
TypeOK ==
    /\ plan \in PlanType
    /\ active \in BOOLEAN
    /\ closing \in BOOLEAN
    /\ pc \in {"none", "top", "settle", "session", "subscribe", "check", "select",
               "deliver", "sent", "refuse", "refused", "retire"}
    /\ fresh \in BOOLEAN
    /\ owed \in 0..MaxOwed
    /\ wake \in BOOLEAN
    /\ dispatched \in SUBSET Tasks
    /\ stranded \in BOOLEAN
    /\ lapsed \in BOOLEAN

\* Validation never refuses an edit its own guard admits: the checkpoint of a
\* retiring runner or of a restarting coordinator (initialize would fail to open
\* the journal), every report the gateway may still save, a grant at the fence,
\* a settled stop, a recovery, an abandonment, and a stop unless a stranded
\* runner left an attempt in doubt.
EditsAreAccepted ==
    /\ ValidRetained(plan) /\ ValidRetained(Interrupt(plan))
    /\ \A i \in Tasks, r \in Reports :
          CanRecord(plan, i, r) => ValidRetained(RecordReport(plan, i, r))
    /\ pc = "session" /\ fresh => CanIssue(plan) /\ ValidRetained(Issue(plan))
    /\ pc = "settle" => ValidRetained(Cancelled(plan))
    /\ CanCancel(plan) /\ (active \/ Unsettled(plan) = {})
          => ValidRetained(CancelPlan(plan, active))
    /\ ~active => \A i \in Tasks :
          /\ CanAbandon(plan, i) => ValidRetained(AbandonPlan(plan))
          /\ CanRecover(plan, i) => \A r \in {"success", "failure"} :
                ValidRetained(RecoverPlan(plan, i, r))

\* A live plan has a runner to settle it, a stop request included, unless that
\* runner's last checkpoint failed (cancel and ActiveJob::drop share a lock).
LiveHasRunner == plan.status \in Live /\ ~stranded => active

\* A requested stop reaches the runner that waits for a reply: it has been or
\* is about to be woken, or the delivery is on record or could not be saved.
StopIsNotMissed ==
    pc = "select" /\ plan.stopAt
       => wake \/ owed > 0 \/ plan.attempt[Current].stop # "none" \/ lapsed

SameOutcome(p, q) ==
    /\ p.status = q.status
    /\ p.task = q.task
    /\ \A i \in Tasks : [p.attempt[i] EXCEPT !.stop = "none"] = [q.attempt[i] EXCEPT !.stop = "none"]

Keeps(p, q) ==
    /\ p.stopAt => q.stopAt
    /\ p.status \in Finished => SameOutcome(p, q)
    /\ \A i \in Tasks :
         LET a == p.attempt[i] b == q.attempt[i] IN
         /\ a.ack => b.ack
         /\ a.report # "none" => b.report = a.report
         /\ a.recovery # "none" => b.recovery = a.recovery
         /\ a.stop # "none" => b.stop = a.stop \/ (a.stop = "sent" /\ b.stop = "confirmed")
         /\ a.state = "unknown" /\ b.state # "unknown" => b.recovery # "none"
         /\ a.state # "none" => b.state # "none"

\* Evidence is never rewritten, whatever arrives late: a finished plan keeps its
\* outcome, and only the record of a stop already on its way may still follow; a
\* saved report, acknowledgement, recovery or stop delivery stays, a stop
\* request is not withdrawn, and an attempt in doubt is settled only by recovery.
JournalIsKept == [][Keeps(plan, plan')]_jobvars

\* No grant is issued once a stop is requested, admission is closed, or the
\* previous task is not reported successful.
IssuesInOrder ==
    \A i \in Tasks :
        plan.attempt[i].state = "none" /\ plan'.attempt[i].state # "none" =>
            /\ active /\ ~closing /\ ~plan.stopAt
            /\ plan.status = "running"
            /\ \A k \in 1..(i - 1) : plan.attempt[k].report = "success"
IssuanceIsOrdered == [][IssuesInOrder]_jobvars

\* A plan with a runner is settled in the end: completed, failed, cancelled or
\* interrupted, unless the last checkpoint fails.
RunsSettle == plan.status \in Live ~> (plan.status \notin Live \/ stranded)

\* GRANT-STOP.md: the coordinator refuses to poll a new dispatch after a
\* retained stop: no grant is sent once its stop delivery is on record.
NoDispatchAfterStop ==
    [][\A i \in dispatched' \ dispatched : plan.attempt[i].stop = "none"]_jobvars
=============================================================================
