------------------------- MODULE MCScheduleOwnership -------------------------
(***************************************************************************)
(* AutomationSchedule on two instances, each explored on its own: one      *)
(* schedule with a clock that may be set ("claims"), and a schedule that   *)
(* another replaces after a restart or a new policy ("replaced").          *)
(***************************************************************************)
EXTENDS Naturals, TLC

CONSTANTS c1, s1, s2

VARIABLES instance, now, sets, runtime, policy, removed, sched, claim, job, occ,
          active, closing, jumped, shaken, worker, launch, owed

Claims == INSTANCE AutomationSchedule WITH
    Schedules <- {c1}, Manual <- {}, MaxTime <- 3, MaxSets <- 1, MaxRuntimes <- 1,
    MaxPolicies <- 1, MaxRuns <- 2, Every <- 1, Valid <- 3, Allowance <- 1, MaxActive <- 2,
    MaxLaunches <- 1

Replaced == INSTANCE AutomationSchedule WITH
    Schedules <- {s1, s2}, Manual <- {}, MaxTime <- 3, MaxSets <- 0, MaxRuntimes <- 2,
    MaxPolicies <- 2, MaxRuns <- 1, Every <- 1, Valid <- 2, Allowance <- 1, MaxActive <- 2,
    MaxLaunches <- 1

vars == <<instance, Claims!vars>>

Init ==
    \/ instance = "claims" /\ Claims!Init
    \/ instance = "replaced" /\ Replaced!Init

Next ==
    \/ instance = "claims" /\ Claims!Next /\ UNCHANGED instance
    \/ instance = "replaced" /\ Replaced!Next /\ UNCHANGED instance

Spec == Init /\ [][Next]_vars

\* The two schedules of the second instance are alike; the first has its own.
Symmetry == Permutations({s1, s2})

\* The retained schedules and triggers always pass the validation that every
\* read of the journal and every restart applies (validated_history).
HistoryStaysValid == instance = "claims" => Claims!HistoryStaysValid

\* A schedule that may still claim or launch is managed by the timer, so
\* shutdown and clock discontinuities reach it (Enable, TimerManager::close).
LiveIsManaged == instance = "claims" => Claims!LiveIsManaged

\* Two claims of a schedule are at least one period apart on the clock that
\* recorded them (schedule_settle, schedule_claim_due).
ClaimsAreSpaced == instance = "claims" => Claims!ClaimsAreSpaced

\* Recorded refusal evidence stays true, and at most one claimed trigger of the
\* definition is unresolved across schedules, restarts and policies
\* (trigger_record_refusal, schedule_arm).
ReplacementIsSafe ==
    instance = "replaced" => Replaced!RefusalIsTrue /\ Replaced!OneUnresolvedClaim

\* Once a trigger's schedule stopped, was interrupted or moved on, nothing more
\* is admitted, compiled, reserved, started or issued for that trigger
\* (source_authority, reservation_link, fence).
NothingAfterFence ==
    [][instance = "claims" => Claims!FenceHolds]_vars
=============================================================================
