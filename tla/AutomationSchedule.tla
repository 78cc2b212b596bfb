------------------------- MODULE AutomationSchedule -------------------------
(***************************************************************************)
(* Fixed-delay automatic work for one automation definition:               *)
(* crates/eef/src/automation_schedules.rs (schedules and triggers),        *)
(* automation_occurrences.rs and automation_occurrence_archives.rs (the    *)
(* reserved budget), automation_authorizations.rs (policies),              *)
(* automation_timer.rs (the polling loop and its journal worker),          *)
(* automation_trigger.rs (launching a claimed trigger) and                 *)
(* automation_schedule.rs (the owner's commands).                          *)
(*                                                                         *)
(* Every journal call is one action: it holds the journal lock and reads   *)
(* its records again.  What lies between two calls (the timer's snapshot   *)
(* and the transition it chose, a claim and its launch, the checkpoints of *)
(* a launch, a stop and its cancellation) interleaves with everything      *)
(* else.  Times are clock readings; the wall clock may be set.             *)
(***************************************************************************)
EXTENDS Naturals, Sequences, FiniteSets

CONSTANTS
    Schedules,      \* identities an Enable command may name
    Manual,         \* compiled jobs of the same scope the owner may reserve
    MaxTime,        \* bound: the last clock reading
    MaxSets,        \* bound: how often the wall clock is set
    MaxRuntimes,    \* bound: coordinator processes
    MaxPolicies,    \* bound: policy generations
    MaxRuns,        \* max_runs of a policy
    Every,          \* every_ms of the definition
    Valid,          \* valid_for_ms of a policy
    Allowance,      \* execution time one run reserves
    MaxActive,      \* automations.max_active
    MaxLaunches     \* automations.max_launches

ASSUME BoundsAssumption ==
    /\ {MaxTime, MaxRuntimes, MaxRuns, Every, Valid, Allowance, MaxActive, MaxLaunches} \subseteq Nat \ {0}
    /\ {MaxSets, MaxPolicies} \subseteq Nat

VARIABLES
    now,        \* the wall clock
    sets,       \* how often it was set
    runtime,    \* the coordinator process, by number
    policy,     \* policies by generation
    removed,    \* the definition was removed
    sched,      \* schedule records
    claim,      \* trigger records
    job,        \* job records: status and whether a grant was issued
    occ,        \* occurrence reservations, never removed
    active,     \* TimerManager.active
    closing,    \* TimerManager.closing
    jumped,     \* the clock monitor moved clock_epoch
    shaken,     \* schedules the loop must still poll as discontinuous
    worker,     \* what the periodic journal worker decided from its snapshot
    launch,     \* where a schedule's launch task is
    owed        \* stopped triggers whose job is still to be cancelled

clock == <<now, sets>>
journal == <<policy, removed, sched, claim, job, occ>>
timer == <<active, closing, jumped, shaken, worker>>
vars == <<clock, runtime, journal, timer, launch, owed>>

Times == 1..MaxTime
Triggers == Schedules \X (1..MaxRuns)
Jobs == Triggers \cup Manual

\* A trigger's job carries its trigger's identity, and no other job does.
ASSUME ManualAssumption == Manual \cap Triggers = {}

Live == {"waiting", "inflight"}
Phases == {"idle", "claimed", "preflight", "begun", "review", "compiled", "reserved", "done"}

NoWork == [id |-> "none", does |-> "none", trig |-> 0]
NoClaim == [due |-> 0, at |-> 0]
NoSchedule == [state |-> "none", policy |-> 0, armed |-> 0, observed |-> 0, due |-> 0,
               trig |-> 0, started |-> 0, claimed |-> 0,
               stop |-> FALSE, refusal |-> FALSE, resolution |-> FALSE]
NoJob == [status |-> "none", issued |-> FALSE]

Init ==
    /\ now = 1 /\ sets = 0 /\ runtime = 1
    /\ policy = <<>> /\ removed = FALSE
    /\ sched = [s \in Schedules |-> NoSchedule]
    /\ claim = [t \in Triggers |-> NoClaim]
    /\ job = [j \in Jobs |-> IF j \in Manual THEN [NoJob EXCEPT !.status = "awaiting"] ELSE NoJob]
    /\ occ = {}
    /\ active = {} /\ closing = FALSE /\ jumped = FALSE /\ shaken = {} /\ worker = NoWork
    /\ launch = [s \in Schedules |-> "idle"]
    /\ owed = {}

-----------------------------------------------------------------------------
(* What the journal calls read.                                            *)

Expires(p) == policy[p].approved + Valid
Left(p, at) == IF Expires(p) > at THEN Expires(p) - at ELSE 0

\* Authorization::current_at for the latest generation of the definition.
CurrentPolicy(p, at) ==
    /\ ~removed
    /\ p = Len(policy)
    /\ ~policy[p].revoked
    /\ policy[p].runtime = runtime
    /\ policy[p].approved <= at /\ at < Expires(p)

Current(s, at) == CurrentPolicy(sched[s].policy, at)

\* archives::resolved: completed with every attempt, or cancelled with none.
Resolved(j) ==
    \/ job[j].status = "completed" /\ job[j].issued
    \/ job[j].status = "cancelled" /\ ~job[j].issued

\* resolved_claim: an absent job is no evidence.
ResolvedClaim(t) == (sched[t[1]].resolution /\ sched[t[1]].trig = t[2]) \/ Resolved(t)

Claimed == {t \in Triggers : claim[t] # NoClaim}
DefinitionResolved == \A o \in occ : Resolved(o.job)
Reserved(p) == {o \in occ : o.policy = p}
AllowanceAvailable(p) == Cardinality(Reserved(p)) < MaxRuns

\* The trigger owns admission: reservation_link, fence and source_authority.
Owns(t) == sched[t[1]].state = "inflight" /\ sched[t[1]].trig = t[2]

Interrupted(r) == [r EXCEPT !.state = "interrupted", !.due = 0, !.observed = now]
InterruptLive(s) ==
    sched' = IF sched[s].state \in Live THEN [sched EXCEPT ![s] = Interrupted(@)] ELSE sched

\* trigger_interrupt_now
InterruptTrigger(t) ==
    sched' = IF Owns(t) THEN [sched EXCEPT ![t[1]] = Interrupted(@)] ELSE sched

\* The loop polls one schedule at a time, and hands a claim on before the next.
LoopIsFree == ~closing /\ worker = NoWork /\ \A s \in Schedules : launch[s] # "claimed"

Launching == {s \in Schedules : launch[s] \notin {"idle", "claimed"}}

-----------------------------------------------------------------------------
(* The wall clock, and its monitor thread.                                 *)

Tick == now < MaxTime /\ now' = now + 1 /\ UNCHANGED <<sets, runtime, journal, timer, launch, owed>>

SetClock ==
    /\ sets < MaxSets
    /\ \E at \in Times \ {now} : now' = at
    /\ sets' = sets + 1
    /\ jumped' = TRUE
    /\ UNCHANGED <<runtime, journal, active, closing, shaken, worker, launch, owed>>

\* The loop reads clock_epoch once a round, then polls the active schedules.
SeeJump ==
    /\ jumped /\ LoopIsFree /\ active \cap shaken = {}
    /\ jumped' = FALSE
    /\ shaken' = active
    /\ UNCHANGED <<clock, runtime, journal, active, closing, worker, launch, owed>>

-----------------------------------------------------------------------------
(* The polling loop and the journal worker.                                *)

Remove(s) == active' = active \ {s}

\* checkpoint: a discontinuity ends a live schedule, launching or not.
PollShaken(s) ==
    /\ LoopIsFree /\ s \in active \cap shaken
    /\ InterruptLive(s)
    /\ Remove(s)
    /\ shaken' = shaken \ {s}
    /\ UNCHANGED <<clock, runtime, policy, removed, claim, job, occ, closing, jumped, worker, launch, owed>>

\* Variant: a job that ended without completing is left alone.
DecisionWaitsForJob(s) ==
    IF sched[s].state = "waiting"
    THEN IF Cardinality(Launching) < MaxLaunches THEN "claim" ELSE "none"
    ELSE IF job[<<s, sched[s].trig>>].status \in {"completed", "cancelled"} THEN "settle"
    ELSE "none"

\* checkpoint: the transition a snapshot calls for.  Nothing while the launch
\* is pending, while a job runs, and for a waiting schedule that may not launch.
Decision(s) ==
    LET r == sched[s]
        t == <<s, r.trig>>
    IN  IF r.state = "waiting"
        THEN IF Cardinality(Launching) < MaxLaunches THEN "claim" ELSE "none"
        ELSE IF job[t].status \in {"completed", "cancelled"} THEN "settle"
        ELSE IF job[t].status \in {"running", "stopping"} THEN "none"
        ELSE "interrupt"

Poll(s) ==
    /\ LoopIsFree /\ s \in active \ (shaken \cup Launching)
    /\ IF sched[s].state \in Live
       THEN /\ Decision(s) # "none"
            /\ worker' = [id |-> s, does |-> Decision(s), trig |-> sched[s].trig]
            /\ UNCHANGED active
       ELSE Remove(s) /\ UNCHANGED worker
    /\ UNCHANGED <<clock, runtime, journal, closing, jumped, shaken, launch, owed>>

\* Variant: polling ends, the record stays live.
ForgetSchedule(s) == Remove(s) /\ UNCHANGED <<sched, claim, launch>>

\* poll_schedule: a failed checkpoint ends the schedule and its polling.
FailCheckpoint(s) == InterruptLive(s) /\ Remove(s) /\ UNCHANGED <<claim, launch>>

\* schedule_claim_due's reasons to end a waiting schedule.
Unclaimable(s) ==
    \/ now < sched[s].observed
    \/ ~Current(s, now)
    \/ now >= sched[s].due + Every

OutOfBudget(s, at) ==
    LET r == sched[s] IN
    \/ r.claimed >= MaxRuns
    \/ ~AllowanceAvailable(r.policy)
    \/ Allowance > Left(r.policy, at)

\* The fence read again at commit, when the clock shows c.
ClaimHolds(s, c) ==
    /\ c < sched[s].due + Every
    /\ Current(s, c)
    /\ Allowance <= Left(sched[s].policy, c)

SaveClaim(s) ==
    LET k == sched[s].claimed + 1 IN
    /\ claim' = [claim EXCEPT ![<<s, k>>] = [due |-> sched[s].due, at |-> now]]
    /\ sched' = [sched EXCEPT ![s].state = "inflight", ![s].observed = now, ![s].due = 0,
                              ![s].trig = k, ![s].started = 0, ![s].claimed = k]
    /\ launch' = [launch EXCEPT ![s] = "claimed"]

\* schedule_claim_due
ClaimDue(s) ==
    IF sched[s].state # "waiting" \/ (~Unclaimable(s) /\ now < sched[s].due)
    THEN UNCHANGED <<now, sched, claim, launch, active>>
    ELSE IF Unclaimable(s)
    THEN InterruptLive(s) /\ UNCHANGED <<now, claim, launch, active>>
    ELSE IF ~DefinitionResolved
    THEN FailCheckpoint(s) /\ UNCHANGED now
    ELSE IF OutOfBudget(s, now)
    THEN /\ sched' = [sched EXCEPT ![s].state = "exhausted", ![s].observed = now, ![s].due = 0]
         /\ UNCHANGED <<now, claim, launch, active>>
    ELSE \E c \in {now, now + 1} \cap Times :
            /\ now' = c
            /\ IF ClaimHolds(s, c) THEN SaveClaim(s) /\ UNCHANGED active ELSE FailCheckpoint(s)

\* Variant: the launch marker of the settled trigger is kept.
SettledKeepsMarker(s) ==
    LET r == [sched[s] EXCEPT !.observed = now, !.trig = 0] IN
    IF OutOfBudget(s, now + Every)
    THEN [r EXCEPT !.state = "exhausted"]
    ELSE [r EXCEPT !.state = "waiting", !.due = now + Every]

\* What schedule_settle makes of a resolved claim under a current policy.
Settled(s) ==
    LET r == [sched[s] EXCEPT !.observed = now, !.trig = 0, !.started = 0] IN
    IF OutOfBudget(s, now + Every)
    THEN [r EXCEPT !.state = "exhausted"]
    ELSE [r EXCEPT !.state = "waiting", !.due = now + Every]

\* Variant: the clock is compared with arming, not with the last observation.
SettleSinceArmed(s) ==
    /\ IF sched[s].state # "inflight" \/ ~ResolvedClaim(<<s, sched[s].trig>>)
       THEN FailCheckpoint(s)
       ELSE /\ sched' = [sched EXCEPT ![s] = IF now < sched[s].armed \/ ~Current(s, now)
                                            THEN Interrupted(@) ELSE Settled(s)]
            /\ UNCHANGED <<claim, launch, active>>
    /\ UNCHANGED now

\* schedule_settle
Settle(s) ==
    /\ IF sched[s].state # "inflight" \/ ~ResolvedClaim(<<s, sched[s].trig>>)
       THEN FailCheckpoint(s)
       ELSE /\ sched' = [sched EXCEPT ![s] = IF now < sched[s].observed \/ ~Current(s, now)
                                            THEN Interrupted(@) ELSE Settled(s)]
            /\ UNCHANGED <<claim, launch, active>>
    /\ UNCHANGED now

\* The worker carries out its decision and frees the periodic slot.
Work ==
    /\ worker # NoWork
    /\ LET s == worker.id IN
         CASE worker.does = "claim" -> ClaimDue(s)
           [] worker.does = "settle" -> Settle(s)
           [] worker.does = "interrupt" ->
                InterruptTrigger(<<s, worker.trig>>) /\ UNCHANGED <<now, claim, launch, active>>
    /\ worker' = NoWork
    /\ UNCHANGED <<sets, runtime, policy, removed, job, occ, closing, jumped, shaken, owed>>

\* The loop takes the claim: it launches unless the coordinator is closing or
\* the schedule is no longer managed.
TakeClaim(s) ==
    /\ launch[s] = "claimed"
    /\ launch' = [launch EXCEPT ![s] = IF closing \/ s \notin active THEN "idle" ELSE "preflight"]
    /\ UNCHANGED <<clock, runtime, journal, timer, owed>>

-----------------------------------------------------------------------------
(* launch_automation_trigger: a task of its own for each claim.            *)

Last(s) == <<s, sched[s].claimed>>

Advance(s, from, to) == launch[s] = from /\ launch' = [launch EXCEPT ![s] = to]

\* trigger_begin_launch, after the preflight's session checks
BeginLaunch(s) ==
    /\ Advance(s, "preflight", "begun")
    /\ Owns(Last(s)) /\ sched[s].started = 0
    /\ job[Last(s)] = NoJob
    /\ now >= sched[s].observed /\ Current(s, now)
    /\ sched' = [sched EXCEPT ![s].observed = now, ![s].started = now]
    /\ UNCHANGED <<clock, runtime, policy, removed, claim, job, occ, timer, owed>>

SourceAuthority(s) == Owns(Last(s)) /\ Current(s, now)

\* origin_concrete_request: the request is admitted, then compiled.
Submit(s) ==
    /\ Advance(s, "begun", "review")
    /\ SourceAuthority(s)
    /\ job' = [job EXCEPT ![Last(s)].status = "review"]
    /\ UNCHANGED <<clock, runtime, policy, removed, sched, claim, occ, timer, owed>>

Compile(s) ==
    /\ Advance(s, "review", "compiled")
    /\ SourceAuthority(s)
    /\ job[Last(s)].status = "review"
    /\ job' = [job EXCEPT ![Last(s)].status = "awaiting"]
    /\ UNCHANGED <<clock, runtime, policy, removed, sched, claim, occ, timer, owed>>

\* occurrence_checkpoint_clock: Reserve
Reserve(j, p) ==
    /\ p # 0 /\ CurrentPolicy(p, now)
    /\ job[j].status = "awaiting"
    /\ DefinitionResolved
    /\ AllowanceAvailable(p) /\ Allowance <= Left(p, now)
    /\ occ' = occ \cup {[policy |-> p, job |-> j, archived |-> FALSE]}
    /\ job' = [job EXCEPT ![j].status = "approved"]
    /\ UNCHANGED <<clock, runtime, policy, removed, sched, claim, timer, owed>>

\* reservation_link
ReserveTrigger(s) ==
    /\ Advance(s, "compiled", "reserved")
    /\ Owns(Last(s)) /\ now >= sched[s].observed
    /\ Reserve(Last(s), sched[s].policy)

\* Variant: issuance asks for the policy only.
PolicyFence(j) == \E o \in occ : o.job = j /\ CurrentPolicy(o.policy, now)

\* automation_occurrences::fence and automation_schedules::fence
Fence(j) ==
    /\ \E o \in occ : o.job = j /\ CurrentPolicy(o.policy, now)
    /\ j \in Triggers => Owns(j) /\ now >= sched[j[1]].observed

Start(j) ==
    /\ job[j].status = "approved" /\ Fence(j)
    /\ job' = [job EXCEPT ![j].status = "running"]
    /\ UNCHANGED <<clock, runtime, policy, removed, sched, claim, occ, timer, owed>>

ExecuteTrigger(s) == Advance(s, "reserved", "done") /\ Start(Last(s))

\* trigger_record_refusal: only before the launch marker and any source job.
Refused(s) == Owns(Last(s)) /\ sched[s].started = 0 /\ job[Last(s)] = NoJob

\* The preflight, or one of the checkpoints, refuses.
LaunchFails(s) ==
    /\ launch[s] \in Phases \ {"idle", "claimed", "done"}
    /\ launch' = [launch EXCEPT ![s] = "done"]
    /\ IF Refused(s)
       THEN sched' = [sched EXCEPT ![s] = [Interrupted(@) EXCEPT !.refusal = TRUE]]
       ELSE InterruptTrigger(Last(s))
    /\ UNCHANGED <<clock, runtime, policy, removed, claim, job, occ, timer, owed>>

\* launch_timeout_ms drops the launch wherever it awaits.
LaunchTimeout(s) ==
    /\ launch[s] \in Phases \ {"idle", "claimed", "done"}
    /\ launch' = [launch EXCEPT ![s] = "done"]
    /\ InterruptTrigger(Last(s))
    /\ UNCHANGED <<clock, runtime, policy, removed, claim, job, occ, timer, owed>>

Join(s) == Advance(s, "done", "idle") /\ ~closing /\ UNCHANGED <<clock, runtime, journal, timer, owed>>

-----------------------------------------------------------------------------
(* Jobs, as far as automation sees them (ReviewedJob has their detail).    *)

SetStatus(j, status) ==
    /\ job' = [job EXCEPT ![j].status = status]
    /\ UNCHANGED <<clock, runtime, policy, removed, sched, claim, occ, timer, launch, owed>>

IssueGrant(j) ==
    /\ job[j].status = "running" /\ ~job[j].issued /\ Fence(j)
    /\ job' = [job EXCEPT ![j].issued = TRUE]
    /\ UNCHANGED <<clock, runtime, policy, removed, sched, claim, occ, timer, launch, owed>>

JobEnds(j) ==
    \/ job[j] = [status |-> "running", issued |-> TRUE] /\ SetStatus(j, "completed")
    \/ job[j].status \in {"running", "stopping"} /\ job[j].issued /\ SetStatus(j, "failed")
    \/ job[j].status \in {"running", "stopping"} /\ SetStatus(j, "interrupted")
    \/ job[j].status = "stopping" /\ SetStatus(j, "cancelled")

\* recover_request: the node retained the completion.
Recover(j) ==
    /\ job[j] = [status |-> "interrupted", issued |-> TRUE]
    /\ \E end \in {"completed", "failed"} : SetStatus(j, end)

\* TaskEngine::cancel
AfterCancel(j) == IF job[j].status \in {"running", "stopping"} THEN "stopping" ELSE "cancelled"
CanCancel(j) ==
    \/ job[j].status \in {"review", "awaiting", "approved", "running", "stopping"}
    \/ job[j] = [status |-> "interrupted", issued |-> FALSE]
Cancel(j) == CanCancel(j) /\ SetStatus(j, AfterCancel(j))

-----------------------------------------------------------------------------
(* The owner's commands.                                                   *)

ApprovePolicy ==
    /\ Len(policy) < MaxPolicies /\ ~removed
    /\ policy' = Append(policy, [approved |-> now, runtime |-> runtime, revoked |-> FALSE])
    /\ UNCHANGED <<clock, runtime, removed, sched, claim, job, occ, timer, launch, owed>>

Revoke(p) ==
    /\ ~policy[p].revoked
    /\ policy' = [policy EXCEPT ![p].revoked = TRUE]
    /\ UNCHANGED <<clock, runtime, removed, sched, claim, job, occ, timer, launch, owed>>

RemoveDefinition ==
    /\ ~removed /\ removed' = TRUE
    /\ UNCHANGED <<clock, runtime, policy, sched, claim, job, occ, timer, launch, owed>>

\* Variant: claims of earlier schedules are not looked at.
MayReplaceIfIdle == DefinitionResolved /\ \A s \in Schedules : sched[s].state \notin Live

\* schedule_arm: nothing of the definition is live or unresolved.
MayReplace ==
    /\ \A s \in Schedules : sched[s].state \notin Live
    /\ \A t \in Claimed : ResolvedClaim(t)
    /\ DefinitionResolved

\* Enable: the timer's lock is held from the closing check to registration.
Enable(s) ==
    LET p == Len(policy) IN
    /\ sched[s] = NoSchedule
    /\ ~closing /\ Cardinality(active) < MaxActive
    /\ p # 0 /\ CurrentPolicy(p, now)
    /\ Allowance <= Left(p, now + Every)
    /\ MayReplace
    /\ AllowanceAvailable(p)
    /\ sched' = [sched EXCEPT ![s] = [NoSchedule EXCEPT !.state = "waiting", !.policy = p, !.armed = now,
                                                      !.observed = now, !.due = now + Every]]
    /\ active' = active \cup {s}
    /\ UNCHANGED <<clock, runtime, policy, removed, claim, job, occ, closing, jumped, shaken, worker, launch, owed>>

\* schedule_stop, then the job's cancellation in a later journal call.  A
\* resolved schedule is refused by the record's validation.
Stop(s) ==
    /\ sched[s].state \notin {"none", "stopped", "resolved"}
    /\ sched' = [sched EXCEPT ![s].state = "stopped", ![s].stop = TRUE,
                              ![s].observed = now, ![s].due = 0]
    /\ Remove(s)
    /\ owed' = owed \cup {t \in {s} \X {sched[s].trig} : t \in Triggers}
    /\ UNCHANGED <<clock, runtime, policy, removed, claim, job, occ, closing, jumped, shaken, worker, launch>>

StopCancels(t) ==
    /\ t \in owed /\ owed' = owed \ {t}
    /\ job' = IF CanCancel(t) THEN [job EXCEPT ![t].status = AfterCancel(t)] ELSE job
    /\ UNCHANGED <<clock, runtime, policy, removed, sched, claim, occ, timer, launch>>

\* resolve_trigger_refusal: only recorded refusal evidence is resolved.
ResolveRefusal(s) ==
    /\ sched[s].refusal /\ ~sched[s].resolution
    /\ sched[s].state \in {"interrupted", "stopped"}
    /\ sched' = [sched EXCEPT ![s].state = "resolved", ![s].resolution = TRUE, ![s].observed = now]
    /\ Remove(s)
    /\ UNCHANGED <<clock, runtime, policy, removed, claim, job, occ, closing, jumped, shaken, worker, launch, owed>>

ReserveManual(m) == Reserve(m, Len(policy)) /\ UNCHANGED launch
ExecuteManual(m) == Start(m) /\ UNCHANGED launch

\* Variant: the archived reservation is given back.
ArchiveRefunds(o) ==
    /\ Resolved(o.job) /\ ~o.archived
    /\ occ' = occ \ {o}
    /\ UNCHANGED <<clock, runtime, policy, removed, sched, claim, job, timer, launch, owed>>

\* archives::checkpoint: the reservation stays.
Archive(o) ==
    /\ Resolved(o.job) /\ ~o.archived
    /\ occ' = (occ \ {o}) \cup {[o EXCEPT !.archived = TRUE]}
    /\ UNCHANGED <<clock, runtime, policy, removed, sched, claim, job, timer, launch, owed>>

-----------------------------------------------------------------------------
(* Shutdown and restart.                                                   *)

Close ==
    /\ ~closing /\ closing' = TRUE
    /\ UNCHANGED <<clock, runtime, journal, active, jumped, shaken, worker, launch, owed>>

\* TimerManager::close: the journal worker is drained, then what is managed ends.
FinishClose ==
    /\ closing /\ worker = NoWork /\ active # {}
    /\ sched' = [s \in Schedules |-> IF s \in active /\ sched[s].state \in Live
                                     THEN Interrupted(sched[s]) ELSE sched[s]]
    /\ active' = {}
    /\ UNCHANGED <<clock, runtime, policy, removed, claim, job, occ, closing, jumped, shaken, worker, launch, owed>>

\* The aborted timer task drops its launches.
AbortLaunches ==
    /\ closing /\ active = {} /\ \E s \in Schedules : launch[s] # "idle"
    /\ launch' = [s \in Schedules |-> "idle"]
    /\ UNCHANGED <<clock, runtime, journal, timer, owed>>

\* A new process on the retained journal, after a shutdown or a crash:
\* interrupt_on_open, and JobStore::interrupt for running jobs.
Restart ==
    /\ runtime < MaxRuntimes /\ runtime' = runtime + 1
    /\ sched' = [s \in Schedules |-> IF sched[s].state \in Live THEN Interrupted(sched[s]) ELSE sched[s]]
    /\ job' = [j \in Jobs |-> IF job[j].status \in {"running", "stopping"}
                             THEN [job[j] EXCEPT !.status = "interrupted"] ELSE job[j]]
    /\ active' = {} /\ closing' = FALSE /\ jumped' = FALSE /\ shaken' = {} /\ worker' = NoWork
    /\ launch' = [s \in Schedules |-> "idle"]
    /\ owed' = {}
    /\ UNCHANGED <<clock, policy, removed, claim, occ>>

Timer(s) == PollShaken(s) \/ Poll(s) \/ TakeClaim(s) \/ Join(s)

Launch(s) ==
    \/ BeginLaunch(s) \/ Submit(s) \/ Compile(s) \/ ReserveTrigger(s) \/ ExecuteTrigger(s)
    \/ LaunchFails(s) \/ LaunchTimeout(s)

Job(j) == IssueGrant(j) \/ JobEnds(j) \/ Recover(j) \/ Cancel(j)

Owner ==
    \/ ApprovePolicy \/ RemoveDefinition
    \/ \E p \in DOMAIN policy : Revoke(p)
    \/ \E s \in Schedules : Enable(s) \/ Stop(s) \/ ResolveRefusal(s)
    \/ \E t \in Triggers : StopCancels(t)
    \/ \E m \in Manual : ReserveManual(m) \/ ExecuteManual(m)
    \/ \E o \in occ : Archive(o)

Process == Close \/ FinishClose \/ AbortLaunches \/ Restart

Next ==
    \/ Tick \/ SetClock \/ SeeJump \/ Work
    \/ \E s \in Schedules : Timer(s) \/ Launch(s)
    \/ \E j \in Jobs : Job(j)
    \/ Owner \/ Process

Spec == Init /\ [][Next]_vars

\* The loop and its worker run, a launch is cut off by launch_timeout_ms, a
\* started job ends (its grants have deadlines) and a shutdown proceeds.
Fairness ==
    /\ WF_vars(Work) /\ WF_vars(SeeJump) /\ WF_vars(FinishClose)
    /\ \A s \in Schedules : WF_vars(Timer(s)) /\ WF_vars(LaunchTimeout(s))
    /\ \A j \in Jobs : WF_vars(JobEnds(j))

FairSpec == Spec /\ Fairness

-----------------------------------------------------------------------------
(* Properties.                                                             *)

Policies == [approved : Times, runtime : 1..MaxRuntimes, revoked : BOOLEAN]
Records == [state : {"none", "interrupted", "stopped", "exhausted", "resolved"} \cup Live,
            policy : 0..MaxPolicies, armed : 0..MaxTime, observed : 0..MaxTime,
            due : 0..(MaxTime + Every), trig : 0..MaxRuns, started : 0..MaxTime,
            claimed : 0..MaxRuns, stop : BOOLEAN, refusal : BOOLEAN, resolution : BOOLEAN]
Statuses == {"none", "review", "awaiting", "approved", "running", "stopping", "interrupted", "failed",
             "cancelled", "completed"}
Works == [id : Schedules, does : {"claim", "settle", "interrupt"}, trig : 0..MaxRuns]
Reservations == [policy : 1..MaxPolicies, job : Jobs, archived : BOOLEAN]

\* Types.  A due time may lie past the last modelled clock reading.
TypeOK ==
    /\ now \in Times /\ sets \in 0..MaxSets /\ runtime \in 1..MaxRuntimes
    /\ policy \in Seq(Policies) /\ Len(policy) <= MaxPolicies /\ removed \in BOOLEAN
    /\ sched \in [Schedules -> Records]
    /\ claim \in [Triggers -> [due : 0..MaxTime, at : 0..MaxTime]]
    /\ job \in [Jobs -> [status : Statuses, issued : BOOLEAN]]
    /\ occ \subseteq Reservations
    /\ active \subseteq Schedules /\ shaken \subseteq Schedules
    /\ closing \in BOOLEAN /\ jumped \in BOOLEAN
    /\ worker \in {NoWork} \cup Works
    /\ launch \in [Schedules -> Phases]
    /\ owed \subseteq Triggers

\* validate_schedule_data, for a record in each of its states.
ValidRecord(r) ==
    /\ policy[r.policy].approved <= r.armed /\ r.armed < Expires(r.policy)
    /\ r.stop => r.state \in {"stopped", "resolved"}
    /\ r.refusal => r.trig # 0 /\ r.started = 0 /\ r.state \in {"interrupted", "stopped", "resolved"}
    /\ r.resolution <=> r.state = "resolved"
    /\ r.resolution => r.refusal
    /\ CASE r.state = "waiting" -> /\ r.trig = 0 /\ r.started = 0 /\ r.observed >= r.armed
                                   /\ r.observed < r.due /\ r.due < Expires(r.policy)
         [] r.state = "inflight" -> r.trig # 0 /\ r.due = 0 /\ r.observed >= r.armed /\ r.claimed > 0
         [] r.state = "exhausted" -> r.trig = 0 /\ r.started = 0 /\ r.due = 0
         [] r.state = "stopped" -> r.stop /\ r.due = 0
         [] OTHER -> r.due = 0

\* validate_trigger_data
ValidClaim(t) ==
    LET r == sched[t[1]] IN
    /\ t[2] <= r.claimed
    /\ claim[t].due <= claim[t].at /\ claim[t].at < claim[t].due + Every
    /\ claim[t].due >= r.armed + Every
    /\ claim[t].at < Expires(r.policy)

\* validated_history's checks across records.
ValidOwner(s) ==
    LET r == sched[s]
        at == claim[Last(s)].at
    IN  /\ {t \in Claimed : t[1] = s} = {s} \X (1..r.claimed)
        /\ r.trig \in {0, r.claimed}
        /\ r.state = "inflight" =>
              /\ r.observed = IF r.started = 0 THEN at ELSE r.started
              /\ r.started # 0 => at <= r.started /\ r.started < Expires(r.policy)

\* The retained schedules and triggers always pass the validation that every
\* read of the journal and every restart applies: no sequence of claims, clock
\* changes, stops, refusals and interruptions, each saved with a check of its
\* own record only, leaves a history that a later read refuses
\* (validated_history).
HistoryStaysValid ==
    /\ \A s \in Schedules : sched[s] # NoSchedule => ValidRecord(sched[s]) /\ ValidOwner(s)
    /\ \A t \in Claimed : ValidClaim(t)
    /\ Cardinality({s \in Schedules : sched[s].state \in Live}) <= 1

\* Recorded refusal evidence is true and stays true: no source job and no
\* reservation ever exists for a trigger refused before its launch
\* (trigger_record_refusal, validated_history).
RefusalIsTrue ==
    \A s \in Schedules : sched[s].refusal =>
        job[Last(s)] = NoJob /\ \A o \in occ : o.job # Last(s)

\* No overlap: at any time at most one claimed trigger of the definition is
\* unresolved, across schedules, restarts and policies (schedule_arm,
\* schedule_claim_due, schedule_settle).
OneUnresolvedClaim == Cardinality({t \in Claimed : ~ResolvedClaim(t)}) <= 1

\* A policy never pays for more than max_runs occurrences, and every job that
\* ever started has its reservation still on record: archiving refunds nothing
\* (allowance_from_records, archives::checkpoint).
BudgetKept ==
    /\ \A p \in DOMAIN policy : Cardinality(Reserved(p)) <= MaxRuns
    /\ \A j \in Jobs : job[j].issued => \E o \in occ : o.job = j

\* A schedule that may still claim or launch is managed by the timer, so
\* shutdown and clock discontinuities reach it (Enable, TimerManager::close).
LiveIsManaged == \A s \in Schedules : sched[s].state \in Live => s \in active

\* Two claims of a schedule are at least one period apart on the clock that
\* recorded them: no catch-up after delays or clock changes (schedule_settle,
\* schedule_claim_due).
ClaimsAreSpaced ==
    \A t, u \in Claimed : t[1] = u[1] /\ t[2] < u[2] => claim[t].at + Every <= claim[u].at

\* Once a trigger's schedule stopped, was interrupted or moved on, nothing more
\* is admitted, compiled, reserved, started or issued for that trigger, however
\* far its launch had come (source_authority, reservation_link, fence).
FenceHolds ==
    \A t \in Triggers : ~Owns(t) =>
        /\ job'[t].issued = job[t].issued
        /\ job'[t].status # job[t].status =>
              job'[t].status \in {"stopping", "interrupted", "failed", "cancelled", "completed"}

\* No claim stays in flight: however its launch and its job end, the timer
\* settles it or interrupts the schedule for inspection (checkpoint).
InFlightEnds == \A s \in Schedules : sched[s].state = "inflight" ~> sched[s].state # "inflight"

=============================================================================
