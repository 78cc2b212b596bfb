---------------------------- MODULE JournalQuota ----------------------------
(***************************************************************************)
(* The byte and row budget of the coordinator's journal.                    *)
(*                                                                         *)
(* Jobs, automation definitions, authorizations, occurrences, archives,    *)
(* schedules, triggers, model-check intents and setup checks are rows of   *)
(* one database under jobs.max_count and jobs.max_bytes.  Every write asks *)
(* for room first, and each kind of row computes "what is used" for        *)
(* itself.  A row also holds a reserve that a later write of the same row  *)
(* may spend: a write that leaves the row no dearer than it was is always  *)
(* accepted, even when the owner has lowered the budget below what is      *)
(* stored.                                                                 *)
(*                                                                         *)
(* Sizes are in KiB.  A job's status is abstracted to what its reserve     *)
(* depends on: active (pending, running), ending (pausing, stopping),      *)
(* waiting (review, awaiting approval, approved, paused, interrupted) and  *)
(* finished.  A job is a legacy goal, a reviewed request, or a run of an   *)
(* approved request; only a run has attempts, one open at a time.          *)
(***************************************************************************)
EXTENDS Integers, FiniteSets, FiniteSetsExt

CONSTANTS
  Jobs,          \* job identities
  Limits,        \* the values jobs.max_bytes takes over restarts
  MaxCount,      \* jobs.max_count
  RecordLimit,   \* the bound on one job record (8 MiB in the code)
  MaxResult,     \* max_result_bytes of a grant
  MaxSize        \* bound: edits add bytes to a record only below this size

VARIABLES
  up,      \* the journal is open; otherwise it is down or still opening
  limit,   \* jobs.max_bytes of the current (or opening) process
  peak,    \* the largest limit the journal has had (history)
  job,     \* the job rows
  held     \* the number of rows of each other kind

vars == <<up, limit, peak, job, held>>

Statuses == {"none", "active", "ending", "waiting", "finished", "archived"}
Kinds == {"definition", "authorization", "revoked", "schedule", "trigger",
          "intent", "check"}

(* A row that does not exist, and what one saved event adds at most: the    *)
(* history entry, the changed status words and a time.                      *)
NoJob ==
  [kind |-> "legacy", status |-> "none", grant |-> "none", size |-> 0, occurrence |-> 0]
Event == 1

(* What the executor's acknowledgement, and its final report with the       *)
(* task's result, add to a job record at most.                              *)
REPORT_HEADROOM == 8
AckBytes == REPORT_HEADROOM + Event
ReportBytes == MaxResult + REPORT_HEADROOM + 2 * Event

RECOVERY_RESERVE == 4
REVOCATION_RESERVE == 1
SCHEDULE_COST == 4
RECORD_BYTES == 4

(* The reserve an open attempt holds for its acknowledgement and report.    *)
reserved_bytes(r) ==
  CASE r.grant = "issued" -> MaxResult + 32
    [] r.grant = "accepted" -> MaxResult + 16
    [] OTHER -> 0

(* Variant: stopping keeps the whole reserve instead of releasing a part.   *)
ReserveKeptByStop(r) ==
  IF reserved_bytes(r) > 0 THEN reserved_bytes(r)
  ELSE CASE r.status \in {"active", "ending"} -> RECOVERY_RESERVE
         [] r.status = "waiting" -> 1
         [] OTHER -> 0

reserve(r) ==
  IF reserved_bytes(r) > 0 THEN reserved_bytes(r)
  ELSE CASE r.status = "active" -> RECOVERY_RESERVE
         [] r.status = "ending" -> 3
         [] r.status = "waiting" -> 1
         [] OTHER -> 0

Cost(r) == r.size + reserve(r)

(* What one row of each other kind costs, its reserve included.             *)
RowCost(k) ==
  CASE k = "authorization" -> 1 + REVOCATION_RESERVE
    [] k = "revoked" -> 1 + Event
    [] k = "schedule" -> SCHEDULE_COST
    [] k = "check" -> RECORD_BYTES
    [] OTHER -> 1

Exists(j) == job[j].status # "none"
KindBytes(k) == held[k] * RowCost(k)

(* automations::count: the rows of all kinds.  An archive row stands in the *)
(* place of its job; the occurrence row stays.                              *)
count ==
  Cardinality({j \in Jobs : Exists(j)})
    + Cardinality({j \in Jobs : job[j].occurrence > 0})
    + MapThenSumSet(LAMBDA k : held[k], Kinds)

JobBytes(S) == MapThenSumSet(LAMBDA j : Cost(job[j]), S)

(* Everything but the jobs' own rows.                                       *)
definition_bytes ==
  MapThenSumSet(KindBytes, Kinds)
    + MapThenSumSet(LAMBDA j : job[j].occurrence, Jobs)

Total == JobBytes(Jobs) + definition_bytes

check_size(j, cost) ==
  \/ Exists(j) /\ cost <= Cost(job[j])
  \/ /\ cost <= RecordLimit
     /\ cost <= limit - (JobBytes(Jobs \ {j}) + definition_bytes)

Growth(r, most) == IF r.size < MaxSize THEN {0, most} ELSE {0}

(* edit_with_gate: the changed plan, its event included, is saved if it     *)
(* fits; otherwise nothing changes.                                         *)
Edit(j, r) ==
  /\ check_size(j, Cost(r))
  /\ job' = [job EXCEPT ![j] = r]
  /\ UNCHANGED <<up, limit, peak, held>>

Put(r, status, grant, growth) ==
  [r EXCEPT !.status = status, !.grant = grant, !.size = @ + growth]

-----------------------------------------------------------------------------
(* Jobs.                                                                    *)

(* A reviewed request starts in review, a legacy goal as a pending job.     *)
Insert(j, kind) ==
  /\ up /\ ~Exists(j)
  /\ count < MaxCount
  /\ Edit(j, [NoJob EXCEPT !.kind = kind, !.size = 1,
               !.status = IF kind = "legacy" THEN "active" ELSE "waiting"])

(* A review step, a planning result or an approval of a request.            *)
Prepare(j) ==
  /\ up /\ job[j].status = "waiting" /\ job[j].kind = "request"
  /\ job[j].size < MaxSize
  /\ Edit(j, Put(job[j], "waiting", "none", Event))

(* Starting an approved request, or resuming a paused or interrupted goal.  *)
Started(r, g) ==
  [Put(r, "active", "none", g) EXCEPT !.kind = IF @ = "legacy" THEN @ ELSE "run"]
Start(j) ==
  /\ up /\ job[j].status = "waiting" /\ job[j].kind \in {"legacy", "request"}
  /\ \E g \in Growth(job[j], Event) : Edit(j, Started(job[j], g))

(* A task of a legacy goal is saved as started, and later with its result.  *)
Work(j) ==
  /\ up /\ job[j].status = "active" /\ job[j].kind = "legacy"
  /\ job[j].size < MaxSize
  /\ Edit(j, Put(job[j], "active", "none", Event))

(* An attempt is saved as issued, with its reserve, before it is sent.      *)
Issue(j) ==
  /\ up /\ job[j].status = "active" /\ job[j].kind = "run" /\ job[j].grant = "none"
  /\ \E g \in Growth(job[j], Event) : Edit(j, Put(job[j], "active", "issued", g))

Acknowledged(r, g) == Put(r, r.status, "accepted", g)
Acknowledge(j) ==
  /\ up /\ job[j].grant = "issued"
  /\ \E g \in Growth(job[j], AckBytes) : Edit(j, Acknowledged(job[j], g))

(* The rows a final report may leave.  A rejection is the only report of an *)
(* unacknowledged attempt and fails the job; an accepted attempt may end    *)
(* unknown, or completed with the job finished or going on.                 *)
Reported(r, g) ==
  {Put(r, "finished", "none", g)}
    \cup (IF r.grant = "accepted" THEN {Put(r, "waiting", "unknown", g)} ELSE {})
    \cup (IF r.grant = "accepted" /\ r.status = "active"
          THEN {Put(r, "active", "none", g)} ELSE {})
Report(j) ==
  /\ up /\ job[j].grant \in {"issued", "accepted"}
  /\ \E g \in Growth(job[j], ReportBytes) :
       \E r \in Reported(job[j], g) : Edit(j, r)

(* Stop or pause of a job that has a runner.                                *)
Stopped(r, g) == Put(r, "ending", r.grant, g)
Stop(j) ==
  /\ up /\ job[j].status = "active"
  /\ \E g \in Growth(job[j], Event) : Edit(j, Stopped(job[j], g))

(* The runner ends between attempts: cancelled, completed or failed, and a  *)
(* legacy goal also paused.                                                 *)
Settle(j) ==
  /\ up /\ job[j].status \in {"active", "ending"} /\ job[j].grant = "none"
  /\ \E g \in Growth(job[j], Event), s \in {"waiting", "finished"} :
       /\ s = "waiting" => job[j].kind = "legacy"
       /\ Edit(j, Put(job[j], s, "none", g))

(* Stop of a job without a runner.                                          *)
Cancelled(r, g) == Put(r, "finished", "none", g)
Cancel(j) ==
  /\ up /\ job[j].status = "waiting" /\ job[j].grant = "none"
  /\ \E g \in Growth(job[j], Event) : Edit(j, Cancelled(job[j], g))

(* Tracking of an uncertain attempt is closed by its owner.                 *)
Abandon(j) ==
  /\ up /\ job[j].grant = "unknown" /\ job[j].status = "waiting"
  /\ \E g \in Growth(job[j], Event) : Edit(j, Put(job[j], "finished", "unknown", g))

(* The node's retained result is taken over for an uncertain attempt.       *)
Recover(j) ==
  /\ up /\ job[j].grant = "unknown" /\ job[j].status = "waiting"
  /\ \E g \in Growth(job[j], ReportBytes), s \in {"waiting", "finished"} :
       Edit(j, Put(job[j], s, "none", g))

(* An interruption turns an open attempt into an unknown one and changes    *)
(* the status words of the job, its tasks and its attempt; a stop with      *)
(* nothing issued is settled instead.                                       *)
Interrupted(r, g) ==
  {Put(r, "waiting", IF r.grant = "none" THEN "none" ELSE "unknown", g)}
    \cup (IF r.grant = "none" /\ r.status = "ending"
          THEN {Put(r, "finished", "none", g)} ELSE {})
InterruptRow(j) ==
  /\ job[j].status \in {"active", "ending"}
  /\ \E g \in Growth(job[j], 2 * Event) :
       \E r \in Interrupted(job[j], g) : Edit(j, r)
Interrupt(j) == up /\ InterruptRow(j)

remove_finished(j) ==
  /\ up /\ job[j].status = "finished" /\ job[j].occurrence = 0
  /\ job' = [job EXCEPT ![j] = NoJob]
  /\ UNCHANGED <<up, limit, peak, held>>

-----------------------------------------------------------------------------
(* Automation records and model checks.                                     *)

(* Room for an occurrence row once its job's approval has been written.     *)
OccurrenceRoom(j, r, raw) ==
  raw <= limit - (JobBytes(Jobs \ {j}) + Cost(r) + definition_bytes)

(* The approval of a job and its occurrence row are one transaction; the    *)
(* row holds a snapshot of the job.                                         *)
ReserveOccurrence(j) ==
  /\ up /\ job[j].status = "waiting" /\ job[j].kind = "request"
  /\ job[j].occurrence = 0 /\ held["authorization"] > 0
  /\ \E g \in Growth(job[j], Event) :
       LET approved == Put(job[j], "waiting", "none", g)
           raw == approved.size + 1
       IN /\ check_size(j, Cost(approved))
          /\ count < MaxCount
          /\ OccurrenceRoom(j, approved, raw)
          /\ job' = [job EXCEPT ![j] = [approved EXCEPT !.occurrence = raw]]
  /\ UNCHANGED <<up, limit, peak, held>>

(* An archive row, the job's record with its receipt, replaces the job row. *)
Archive(j) ==
  /\ up /\ job[j].status = "finished" /\ job[j].grant = "none"
  /\ job[j].occurrence > 0
  /\ Total + 1 <= limit
  /\ job' = [job EXCEPT ![j].status = "archived", ![j].size = @ + 1]
  /\ UNCHANGED <<up, limit, peak, held>>

(* A new row of a kind, against what its own admission takes as used.       *)
Save(k, used) ==
  /\ up
  /\ count < MaxCount
  /\ RowCost(k) <= limit - used
  /\ held' = [held EXCEPT ![k] = @ + 1]
  /\ UNCHANGED <<up, limit, peak, job>>

save_definition == Save("definition", Total)

(* This sum alone leaves out the setup checks' reservations.                *)
UsedByOthers == Total - KindBytes("check")
save_authorization == held["definition"] > 0 /\ Save("authorization", UsedByOthers)

save_schedule == held["authorization"] > 0 /\ Save("schedule", Total)
save_trigger == held["schedule"] > 0 /\ Save("trigger", Total)
reserve_model_verification_intent == Save("intent", Total)
arm_setup_model_check == Save("check", Total)

(* A revocation spends the reserve of its authorization's row.              *)
Revoke ==
  /\ up /\ held["authorization"] > 0
  /\ \/ RowCost("revoked") <= RowCost("authorization")
     \/ RowCost("revoked") <= limit - (UsedByOthers - RowCost("authorization"))
  /\ held' = [held EXCEPT !["authorization"] = @ - 1, !["revoked"] = @ + 1]
  /\ UNCHANGED <<up, limit, peak, job>>

-----------------------------------------------------------------------------
(* The process ends, and the owner may change the limit before the next     *)
(* one opens the journal.                                                   *)
Close(l) ==
  /\ up
  /\ up' = FALSE /\ limit' = l
  /\ peak' = IF l > peak THEN l ELSE peak
  /\ UNCHANGED <<job, held>>

(* Opening interrupts the live jobs one after the other, each as an edit    *)
(* of its own; a refused edit would leave the journal closed.               *)
OpenInterrupts(j) == ~up /\ InterruptRow(j)

initialize ==
  /\ ~up
  /\ \A j \in Jobs : job[j].status \notin {"active", "ending"}
  /\ up' = TRUE
  /\ UNCHANGED <<limit, peak, job, held>>

Init ==
  /\ up = TRUE
  /\ limit \in Limits
  /\ peak = limit
  /\ job = [j \in Jobs |-> NoJob]
  /\ held = [k \in Kinds |-> 0]

JobStep(j) ==
  \/ \E kind \in {"legacy", "request"} : Insert(j, kind)
  \/ Prepare(j) \/ Start(j) \/ Work(j) \/ Issue(j) \/ Acknowledge(j) \/ Report(j)
  \/ Stop(j) \/ Settle(j) \/ Cancel(j) \/ Abandon(j) \/ Recover(j)
  \/ Interrupt(j) \/ remove_finished(j) \/ ReserveOccurrence(j) \/ Archive(j)

Next ==
  \/ \E j \in Jobs : JobStep(j) \/ OpenInterrupts(j)
  \/ save_definition \/ save_authorization \/ Revoke
  \/ save_schedule \/ save_trigger
  \/ reserve_model_verification_intent \/ arm_setup_model_check
  \/ \E l \in Limits : Close(l)
  \/ initialize

Spec == Init /\ [][Next]_vars

-----------------------------------------------------------------------------
(* Every row has its type: no kind has a negative number of rows, and only  *)
(* a live job has an attempt open.                                          *)
TypeOK ==
  /\ up \in BOOLEAN /\ limit \in Limits /\ peak \in Limits
  /\ job \in [Jobs -> [kind : {"legacy", "request", "run"}, status : Statuses,
                       size : Nat, occurrence : Nat,
                       grant : {"none", "issued", "accepted", "unknown"}]]
  /\ held \in [Kinds -> Nat]
  /\ \A j \in Jobs : job[j].grant \in {"issued", "accepted"}
                      => job[j].status \in {"active", "ending"}

(* The shared budget (check_size, save_definition, save_authorization,      *)
(* quota and the other admissions, each with a sum of its own): whatever    *)
(* order rows are written in, their number stays within max_count, and      *)
(* their bytes and reserves, the setup checks' apart, within the largest    *)
(* max_bytes the journal has had.                                           *)
SharedBudget ==
  /\ count <= MaxCount
  /\ Total - KindBytes("check") <= peak

(* The reserves are large enough (reserve, reserved_bytes): in every        *)
(* journal, full or above a limit lowered since, a job with an open attempt *)
(* can save its acknowledgement and its report, a job without one can be    *)
(* stopped, cancelled or given up, and a live job can be interrupted, which *)
(* opening the journal depends on.                                          *)
LifecycleFits ==
  \A j \in Jobs :
    LET r == job[j] IN
    /\ r.status \in {"active", "ending"} =>
         \A e \in Interrupted(r, 2 * Event) : check_size(j, Cost(e))
    /\ up /\ r.grant = "issued" => check_size(j, Cost(Acknowledged(r, AckBytes)))
    /\ up /\ r.grant \in {"issued", "accepted"} =>
         \A e \in Reported(r, ReportBytes) : check_size(j, Cost(e))
    /\ up /\ r.status = "active" /\ r.grant = "none" =>
         check_size(j, Cost(Stopped(r, Event)))
    /\ up /\ r.status = "waiting" => check_size(j, Cost(Cancelled(r, Event)))

(* docs/ROADMAP-0.4.0.md: a lowered or full budget does not block Stop.     *)
StopFits ==
  up => \A j \in Jobs :
    job[j].status = "active" => check_size(j, Cost(Stopped(job[j], Event)))

(* docs/SETUP-MODEL-CHECKS.md: automation records count the setup checks'   *)
(* reservations too, so all bytes are within the budget.                    *)
ChecksAreCounted == Total <= peak
=============================================================================
