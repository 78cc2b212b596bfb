---------------------- MODULE AutomationScheduleProofs ----------------------
(***************************************************************************)
(* Proofs about AutomationSchedule, for any number of schedules, claims,   *)
(* policies, manual jobs and coordinator processes and for every clock.    *)
(***************************************************************************)
EXTENDS AutomationSchedule, TLAPS

\* The obligations below carry a long context: the SMT solver gets the time to read it.
USE SMTT(30)

-----------------------------------------------------------------------------
(* Types.                                                                  *)

LEMMA Bounds ==
    /\ MaxTime \in Nat \ {0} /\ MaxRuntimes \in Nat \ {0} /\ MaxRuns \in Nat \ {0} /\ Every \in Nat \ {0}
    /\ Valid \in Nat \ {0} /\ Allowance \in Nat \ {0} /\ MaxSets \in Nat /\ MaxPolicies \in Nat
  BY BoundsAssumption

LEMMA InterruptedRecord ==
    ASSUME NEW r \in Records, now \in Times
    PROVE  /\ Interrupted(r) \in Records
           /\ Interrupted(r).state = "interrupted" /\ Interrupted(r).due = 0 /\ Interrupted(r).observed = now
           /\ Interrupted(r).policy = r.policy /\ Interrupted(r).armed = r.armed
           /\ Interrupted(r).trig = r.trig /\ Interrupted(r).started = r.started
           /\ Interrupted(r).claimed = r.claimed /\ Interrupted(r).stop = r.stop
           /\ Interrupted(r).refusal = r.refusal /\ Interrupted(r).resolution = r.resolution
  <1>1. now \in 0..MaxTime /\ 0 \in 0..(MaxTime + Every)
    BY Bounds DEF Times
  <1>2. Interrupted(r) \in Records
    BY <1>1, Zenon DEF Interrupted, Records, Live
  <1> QED BY <1>2 DEF Interrupted, Records

\* What interrupts leaves a function of records.
LEMMA InterruptTypes ==
    ASSUME now \in Times, sched \in [Schedules -> Records], NEW s \in Schedules
    PROVE  /\ InterruptLive(s) => sched' \in [Schedules -> Records]
           /\ \A k : InterruptTrigger(<<s, k>>) => sched' \in [Schedules -> Records]
  <1>1. Interrupted(sched[s]) \in Records
    BY InterruptedRecord
  <1>2. InterruptLive(s) => sched' \in [Schedules -> Records]
    BY <1>1 DEF InterruptLive
  <1>3. ASSUME NEW k, InterruptTrigger(<<s, k>>) PROVE sched' \in [Schedules -> Records]
    BY <1>1, <1>3 DEF InterruptTrigger
  <1> QED BY <1>2, <1>3

LEMMA ClockTypes ==
    ASSUME TypeOK, Tick \/ SetClock \/ SeeJump
    PROVE  TypeOK'
  <1>1. now' \in Times /\ sets' \in 0..MaxSets
    BY Bounds DEF TypeOK, Tick, SetClock, SeeJump, clock, Times
  <1>2. UNCHANGED <<runtime, policy, removed, sched, claim, job, occ, active, closing, worker, launch, owed>>
    BY Zenon DEF Tick, SetClock, SeeJump, journal, timer
  <1>3. jumped' \in BOOLEAN /\ shaken' \subseteq Schedules
    BY Zenon DEF TypeOK, Tick, SetClock, SeeJump, timer
  <1> QED BY <1>1, <1>2, <1>3, Zenon DEF TypeOK

\* The claim that schedule_claim_due saves.
LEMMA ClaimTypes ==
    ASSUME TypeOK, NEW s \in Schedules, SaveClaim(s), sched[s].claimed < MaxRuns, now >= sched[s].due
    PROVE  /\ sched' \in [Schedules -> Records] /\ launch' \in [Schedules -> Phases]
           /\ claim' \in [Triggers -> [due : 0..MaxTime, at : 0..MaxTime]]
  <1> DEFINE r == sched[s]
             k == r.claimed + 1
             q == [r EXCEPT !.state = "inflight", !.observed = now, !.due = 0,
                            !.trig = k, !.started = 0, !.claimed = k]
  <1>0. r \in Records /\ now \in Times BY DEF TypeOK
  <1>1. k \in 0..MaxRuns /\ k \in 1..MaxRuns /\ now \in 0..MaxTime /\ r.due \in 0..MaxTime
        /\ 0 \in 0..MaxTime /\ 0 \in 0..(MaxTime + Every)
    BY <1>0, Bounds DEF Records, Times
  <1>2. q \in Records
    BY <1>0, <1>1, Zenon DEF Records, Live
  <1>3. sched' = [sched EXCEPT ![s] = q]
    BY <1>0, Zenon DEF SaveClaim, TypeOK, Records
  <1>4. sched' \in [Schedules -> Records]
    BY <1>2, <1>3, Zenon DEF TypeOK
  <1>5. claim' \in [Triggers -> [due : 0..MaxTime, at : 0..MaxTime]]
    BY <1>1, Zenon DEF SaveClaim, TypeOK, Triggers
  <1>6. launch' \in [Schedules -> Phases]
    BY Zenon DEF SaveClaim, TypeOK, Phases
  <1> QED BY <1>4, <1>5, <1>6

\* What schedule_settle saves.
LEMMA SettledRecord ==
    ASSUME TypeOK, NEW s \in Schedules
    PROVE  /\ Settled(s) \in Records /\ Settled(s).observed = now /\ Settled(s).trig = 0 /\ Settled(s).started = 0
           /\ Settled(s).policy = sched[s].policy /\ Settled(s).armed = sched[s].armed
           /\ Settled(s).claimed = sched[s].claimed /\ Settled(s).stop = sched[s].stop
           /\ Settled(s).refusal = sched[s].refusal /\ Settled(s).resolution = sched[s].resolution
           /\ \/ Settled(s).state = "exhausted" /\ Settled(s).due = sched[s].due
              \/ Settled(s).state = "waiting" /\ Settled(s).due = now + Every /\ ~OutOfBudget(s, now + Every)
  <1>0. sched[s] \in Records /\ now \in Times BY DEF TypeOK
  <1>1. now \in 0..MaxTime /\ now + Every \in 0..(MaxTime + Every) /\ 0 \in 0..MaxTime /\ 0 \in 0..MaxRuns
    BY <1>0, Bounds DEF Times
  <1> DEFINE r == [sched[s] EXCEPT !.observed = now, !.trig = 0, !.started = 0]
  <1>2. r \in Records
    BY <1>0, <1>1, Zenon DEF Records
  <1>3. CASE OutOfBudget(s, now + Every)
    <2>1. Settled(s) = [r EXCEPT !.state = "exhausted"]
      BY <1>3 DEF Settled
    <2>2. [r EXCEPT !.state = "exhausted"] \in Records
      BY <1>2, Zenon DEF Records
    <2> QED BY <1>0, <2>1, <2>2 DEF Records
  <1>4. CASE ~OutOfBudget(s, now + Every)
    <2>1. Settled(s) = [r EXCEPT !.state = "waiting", !.due = now + Every]
      BY <1>4 DEF Settled
    <2>2. [r EXCEPT !.state = "waiting", !.due = now + Every] \in Records
      BY <1>1, <1>2, Zenon DEF Records, Live
    <2> QED BY <1>0, <1>4, <2>1, <2>2 DEF Records
  <1> QED BY <1>3, <1>4, Zenon

\* What schedule_claim_due saves when the budget is used up.
LEMMA ExhaustTypes ==
    ASSUME TypeOK, NEW s \in Schedules,
           sched' = [sched EXCEPT ![s].state = "exhausted", ![s].observed = now, ![s].due = 0]
    PROVE  sched' \in [Schedules -> Records]
  <1>0. sched[s] \in Records /\ now \in Times BY DEF TypeOK
  <1>1. now \in 0..MaxTime /\ 0 \in 0..(MaxTime + Every) BY <1>0, Bounds DEF Times
  <1>2. [sched[s] EXCEPT !.state = "exhausted", !.observed = now, !.due = 0] \in Records
    BY <1>0, <1>1, Zenon DEF Records
  <1>3. sched' = [sched EXCEPT ![s] = [sched[s] EXCEPT !.state = "exhausted", !.observed = now, !.due = 0]]
    BY ZenonT(30)
  <1> QED BY <1>2, <1>3 DEF TypeOK

LEMMA WorkTypes ==
    ASSUME TypeOK, Work
    PROVE  TypeOK'
  <1> DEFINE s == worker.id
  <1>0. s \in Schedules /\ now \in Times /\ worker \in Works /\ sched \in [Schedules -> Records]
    BY Zenon DEF TypeOK, Work, Works
  <1>1. UNCHANGED <<sets, runtime, policy, removed, job, occ, closing, jumped, shaken, owed>> /\ worker' = NoWork
    BY DEF Work
  <1> DEFINE Good == /\ now' \in Times /\ sched' \in [Schedules -> Records] /\ launch' \in [Schedules -> Phases]
                     /\ claim' \in [Triggers -> [due : 0..MaxTime, at : 0..MaxTime]] /\ active' \subseteq Schedules
  <1> SUFFICES Good
    BY <1>1, Zenon DEF TypeOK
  <1>2. FailCheckpoint(s) /\ now' \in Times => Good
    BY <1>0, InterruptTypes, Zenon DEF FailCheckpoint, Remove, TypeOK
  <1>3. CASE ClaimDue(s)
    <2>1. CASE UNCHANGED <<now, sched, claim, launch, active>>
      BY <2>1, Zenon DEF TypeOK
    <2>2. CASE InterruptLive(s) /\ UNCHANGED <<now, claim, launch, active>>
      BY <2>2, <1>0, InterruptTypes, Zenon DEF TypeOK
    <2>3. CASE FailCheckpoint(s) /\ UNCHANGED now
      BY <2>3, <1>0, <1>2
    <2>4. CASE /\ sched' = [sched EXCEPT ![s].state = "exhausted", ![s].observed = now, ![s].due = 0]
               /\ UNCHANGED <<now, claim, launch, active>>
      <3>1. sched' \in [Schedules -> Records]
        BY <1>0, <2>4, ExhaustTypes, Zenon
      <3> QED BY <2>4, <3>1, Zenon DEF TypeOK
    <2>5. CASE /\ sched[s].claimed < MaxRuns /\ now >= sched[s].due
               /\ \E c \in {now, now + 1} \cap Times :
                    /\ now' = c
                    /\ IF ClaimHolds(s, c) THEN SaveClaim(s) /\ UNCHANGED active ELSE FailCheckpoint(s)
      <3>1. now' \in Times BY <2>5
      <3>2. CASE FailCheckpoint(s) BY <3>1, <3>2, <1>2
      <3>3. CASE SaveClaim(s) /\ UNCHANGED active
        BY <2>5, <3>1, <3>3, <1>0, ClaimTypes, Zenon DEF TypeOK
      <3> QED BY <2>5, <3>2, <3>3, Zenon
    <2>6. sched[s].claimed \in Nat /\ MaxRuns \in Nat /\ sched[s].due \in Nat /\ now \in Nat
      BY <1>0, Bounds DEF Records, Times
    <2>7. ~OutOfBudget(s, now) => sched[s].claimed < MaxRuns
      BY <2>6 DEF OutOfBudget
    <2>8. sched[s].state = "waiting" /\ ~(~Unclaimable(s) /\ now < sched[s].due) /\ ~Unclaimable(s) => now >= sched[s].due
      BY <2>6
    <2> QED BY <1>3, <2>1, <2>2, <2>3, <2>4, <2>5, <2>7, <2>8, Zenon DEF ClaimDue
  <1>4. CASE Settle(s)
    <2>1. CASE FailCheckpoint(s) BY <1>0, <1>2, <1>4, <2>1, Zenon DEF Settle
    <2>2. CASE ~FailCheckpoint(s)
      <3>1. /\ sched' = [sched EXCEPT ![s] = IF now < sched[s].observed \/ ~Current(s, now)
                                            THEN Interrupted(@) ELSE Settled(s)]
            /\ UNCHANGED <<now, claim, launch, active>>
        BY <1>4, <2>2, Zenon DEF Settle
      <3>2. Interrupted(sched[s]) \in Records /\ Settled(s) \in Records
        BY <1>0, InterruptedRecord, SettledRecord, Zenon
      <3>3. sched' \in [Schedules -> Records]
        BY <1>0, <3>1, <3>2, Zenon
      <3> QED BY <3>1, <3>3, Zenon DEF TypeOK
    <2> QED BY <2>1, <2>2
  <1>5. CASE InterruptTrigger(<<s, worker.trig>>) /\ UNCHANGED <<now, claim, launch, active>>
    BY <1>0, <1>5, InterruptTypes, Zenon DEF TypeOK
  <1> QED BY <1>0, <1>3, <1>4, <1>5, Zenon DEF Work, Works

LEMMA TimerTypes ==
    ASSUME TypeOK, NEW s \in Schedules, Timer(s)
    PROVE  TypeOK'
  <1>1. CASE PollShaken(s)
    <2>1. sched' \in [Schedules -> Records]
      BY <1>1, InterruptTypes, Zenon DEF TypeOK, PollShaken
    <2> QED BY <1>1, <2>1, Zenon DEF TypeOK, PollShaken, clock, Remove
  <1>2. CASE Poll(s)
    <2>1. sched[s] \in Records BY DEF TypeOK
    <2>2. Decision(s) # "none" => Decision(s) \in {"claim", "settle", "interrupt"}
      BY Zenon DEF Decision
    <2>3. worker' \in {NoWork} \cup Works /\ active' \subseteq Schedules
      BY <1>2, <2>1, <2>2 DEF Poll, Works, Records, TypeOK, Remove
    <2> QED BY <1>2, <2>3, Zenon DEF TypeOK, Poll, clock, journal
  <1>3. CASE TakeClaim(s)
    BY <1>3, Zenon DEF TypeOK, TakeClaim, clock, journal, timer, Phases
  <1>4. CASE Join(s)
    BY <1>4, Zenon DEF TypeOK, Join, Advance, clock, journal, timer, Phases
  <1> QED BY <1>1, <1>2, <1>3, <1>4 DEF Timer

\* Moving a job on.
LEMMA JobTypes ==
    ASSUME TypeOK, NEW j \in Jobs
    PROVE  /\ \A st \in Statuses :
                [job EXCEPT ![j].status = st] \in [Jobs -> [status : Statuses, issued : BOOLEAN]]
           /\ [job EXCEPT ![j].issued = TRUE] \in [Jobs -> [status : Statuses, issued : BOOLEAN]]
  BY Zenon DEF TypeOK

\* Reserving a run.
LEMMA ReserveTypes ==
    ASSUME TypeOK, NEW j \in Jobs, NEW p \in 1..MaxPolicies, Reserve(j, p)
    PROVE  occ' \subseteq Reservations /\ job' \in [Jobs -> [status : Statuses, issued : BOOLEAN]]
  <1>1. [policy |-> p, job |-> j, archived |-> FALSE] \in Reservations
    BY DEF Reservations
  <1>2. "approved" \in Statuses BY DEF Statuses
  <1>3. occ' = occ \cup {[policy |-> p, job |-> j, archived |-> FALSE]} /\ job' = [job EXCEPT ![j].status = "approved"]
    BY DEF Reserve
  <1> QED BY <1>1, <1>2, <1>3, JobTypes, Zenon DEF TypeOK

LEMMA LastJob ==
    ASSUME TypeOK, NEW s \in Schedules, sched[s].claimed # 0
    PROVE  Last(s) \in Triggers /\ Last(s) \in Jobs
  BY Bounds DEF TypeOK, Records, Last, Triggers, Jobs

\* A trigger that owns admission has been claimed.
Owned == \A s \in Schedules : sched[s].state = "inflight" => sched[s].trig # 0

LEMMA LaunchTypes ==
    ASSUME TypeOK, Owned, NEW s \in Schedules, Launch(s)
    PROVE  TypeOK'
  <1>0. sched[s] \in Records /\ now \in Times /\ sched \in [Schedules -> Records] BY DEF TypeOK
  <1>1. Owns(Last(s)) => Last(s) \in Jobs
    BY LastJob DEF Owns, Last, Owned
  <1>2. \A p \in Phases : [launch EXCEPT ![s] = p] \in [Schedules -> Phases]
    BY DEF TypeOK
  <1>3. CASE BeginLaunch(s)
    <2>1. now \in 0..MaxTime BY <1>0, Bounds DEF Times
    <2>2. [sched[s] EXCEPT !.observed = now, !.started = now] \in Records
      BY <1>0, <2>1, Zenon DEF Records
    <2>3. sched' = [sched EXCEPT ![s] = [sched[s] EXCEPT !.observed = now, !.started = now]]
      BY <1>3, Zenon DEF BeginLaunch
    <2>4. sched' \in [Schedules -> Records] /\ launch' \in [Schedules -> Phases]
      BY <1>0, <1>2, <1>3, <2>2, <2>3 DEF BeginLaunch, Advance, Phases
    <2> QED BY <1>3, <2>4, Zenon DEF BeginLaunch, TypeOK, clock, timer
  <1>4. CASE Submit(s) \/ Compile(s)
    <2>1. job' \in [Jobs -> [status : Statuses, issued : BOOLEAN]]
      <3>1. Last(s) \in Jobs /\ "review" \in Statuses /\ "awaiting" \in Statuses
        BY <1>1, <1>4, Zenon DEF Submit, Compile, SourceAuthority, Statuses
      <3>2. job' = [job EXCEPT ![Last(s)].status = "review"] \/ job' = [job EXCEPT ![Last(s)].status = "awaiting"]
        BY <1>4, Zenon DEF Submit, Compile
      <3>3. [job EXCEPT ![Last(s)].status = "review"] \in [Jobs -> [status : Statuses, issued : BOOLEAN]]
        BY <3>1, JobTypes, Zenon
      <3>4. [job EXCEPT ![Last(s)].status = "awaiting"] \in [Jobs -> [status : Statuses, issued : BOOLEAN]]
        BY <3>1, JobTypes, Zenon
      <3> QED BY <3>2, <3>3, <3>4, Zenon
    <2>2. launch' \in [Schedules -> Phases]
      BY <1>2, <1>4, Zenon DEF Submit, Compile, Advance, Phases
    <2> QED BY <1>4, <2>1, <2>2, Zenon DEF Submit, Compile, TypeOK, clock, timer
  <1>5. CASE ReserveTrigger(s)
    <2>1. Last(s) \in Jobs /\ sched[s].policy \in 1..MaxPolicies
      BY <1>0, <1>1, <1>5, Bounds DEF ReserveTrigger, Reserve, Records
    <2>2. occ' \subseteq Reservations /\ job' \in [Jobs -> [status : Statuses, issued : BOOLEAN]]
      BY <1>5, <2>1, ReserveTypes, Zenon DEF ReserveTrigger
    <2>3. launch' \in [Schedules -> Phases]
      BY <1>2, <1>5, Zenon DEF ReserveTrigger, Advance, Phases
    <2> QED BY <1>5, <2>2, <2>3, Zenon DEF ReserveTrigger, Reserve, TypeOK, clock, timer
  <1>6. CASE ExecuteTrigger(s)
    <2>1. Last(s) \in Jobs
      BY <1>6, Zenon DEF ExecuteTrigger, Start, Fence, TypeOK, Reservations
    <2>2. job' \in [Jobs -> [status : Statuses, issued : BOOLEAN]]
      <3>1. "running" \in Statuses BY DEF Statuses
      <3> QED BY <1>6, <2>1, <3>1, JobTypes, Zenon DEF ExecuteTrigger, Start
    <2>3. launch' \in [Schedules -> Phases]
      BY <1>2, <1>6 DEF ExecuteTrigger, Advance, Phases
    <2>4. UNCHANGED <<now, sets, runtime, policy, removed, sched, claim, occ, active, closing, jumped, shaken, worker, owed>>
      BY <1>6 DEF ExecuteTrigger, Start, clock, timer
    <2> QED BY <2>2, <2>3, <2>4, Zenon DEF TypeOK
  <1>7. CASE LaunchFails(s) \/ LaunchTimeout(s)
    <2>1. launch' \in [Schedules -> Phases]
      BY <1>2, <1>7, Zenon DEF LaunchFails, LaunchTimeout, Phases
    <2>2. [Interrupted(sched[s]) EXCEPT !.refusal = TRUE] \in Records
      <3>1. Interrupted(sched[s]) \in Records BY <1>0, InterruptedRecord, Zenon
      <3> QED BY <3>1, Zenon DEF Records
    <2>3. sched' \in [Schedules -> Records]
      BY <1>0, <1>7, <2>2, InterruptTypes, Zenon DEF LaunchFails, LaunchTimeout, Last
    <2> QED BY <1>7, <2>1, <2>3, Zenon DEF LaunchFails, LaunchTimeout, TypeOK, clock, timer
  <1> QED BY <1>3, <1>4, <1>5, <1>6, <1>7 DEF Launch

LEMMA StatusTypes ==
    ASSUME TypeOK, NEW j \in Jobs, Job(j)
    PROVE  TypeOK'
  <1>1. AfterCancel(j) \in Statuses
    BY DEF AfterCancel, Statuses
  <1>2. \/ \E st \in Statuses : job' = [job EXCEPT ![j].status = st]
        \/ job' = [job EXCEPT ![j].issued = TRUE]
    BY <1>1, Zenon DEF Job, IssueGrant, JobEnds, Recover, Cancel, SetStatus, Statuses
  <1>3. job' \in [Jobs -> [status : Statuses, issued : BOOLEAN]]
    <2>1. CASE job' = [job EXCEPT ![j].issued = TRUE] BY <2>1, JobTypes
    <2>2. ASSUME NEW st \in Statuses, job' = [job EXCEPT ![j].status = st]
          PROVE  job' \in [Jobs -> [status : Statuses, issued : BOOLEAN]]
      BY <2>2, JobTypes, Zenon
    <2> QED BY <1>2, <2>1, <2>2, Zenon
  <1>4. UNCHANGED <<clock, runtime, policy, removed, sched, claim, occ, timer, launch, owed>>
    BY Zenon DEF Job, IssueGrant, JobEnds, Recover, Cancel, SetStatus
  <1> QED BY <1>3, <1>4, Zenon DEF TypeOK, clock, timer

LEMMA OwnerTypes ==
    ASSUME TypeOK, Owner
    PROVE  TypeOK'
  <1>0. now \in Times /\ sched \in [Schedules -> Records] /\ policy \in Seq(Policies) /\ Len(policy) <= MaxPolicies
        /\ Len(policy) \in Nat
    BY DEF TypeOK
  <1>1. CASE ApprovePolicy
    <2>1. [approved |-> now, runtime |-> runtime, revoked |-> FALSE] \in Policies
      BY Zenon DEF Policies, TypeOK
    <2>2. policy' \in Seq(Policies) /\ Len(policy') <= MaxPolicies
      BY <1>0, <1>1, <2>1, Bounds DEF ApprovePolicy
    <2> QED BY <1>1, <2>2, Zenon DEF ApprovePolicy, TypeOK, clock, timer
  <1>2. CASE RemoveDefinition
    BY <1>2, Zenon DEF RemoveDefinition, TypeOK, clock, timer
  <1>3. CASE \E p \in DOMAIN policy : Revoke(p)
    <2>1. PICK p \in DOMAIN policy : Revoke(p) BY <1>3
    <2>2. [policy[p] EXCEPT !.revoked = TRUE] \in Policies
      <3>1. policy[p] \in Policies BY <1>0
      <3> QED BY <3>1, Zenon DEF Policies
    <2>3. policy' = [policy EXCEPT ![p] = [policy[p] EXCEPT !.revoked = TRUE]]
      BY <2>1 DEF Revoke
    <2>4. policy' \in Seq(Policies) /\ Len(policy') = Len(policy)
      BY <1>0, <2>2, <2>3
    <2> QED BY <1>0, <2>1, <2>4, Zenon DEF Revoke, TypeOK, clock, timer
  <1>4. CASE \E s \in Schedules : Enable(s)
    <2>1. PICK s \in Schedules : Enable(s) BY <1>4
    <2> DEFINE q == [NoSchedule EXCEPT !.state = "waiting", !.policy = Len(policy), !.armed = now,
                                       !.observed = now, !.due = now + Every]
    <2>2. Len(policy) \in 0..MaxPolicies /\ now \in 0..MaxTime /\ now + Every \in 0..(MaxTime + Every)
          /\ 0 \in 0..MaxTime /\ 0 \in 0..MaxRuns
      BY <1>0, Bounds DEF Times
    <2>3. q \in Records
      BY <2>2, Zenon DEF NoSchedule, Records, Live
    <2>4. sched' = [sched EXCEPT ![s] = q] /\ active' = active \cup {s}
          /\ UNCHANGED <<clock, runtime, policy, removed, claim, job, occ, closing, jumped, shaken, worker, launch, owed>>
      BY <2>1 DEF Enable
    <2> HIDE DEF q
    <2> QED BY <1>0, <2>3, <2>4, Zenon DEF TypeOK, clock
  <1>5. CASE \E s \in Schedules : Stop(s) \/ ResolveRefusal(s)
    <2>1. PICK s \in Schedules : Stop(s) \/ ResolveRefusal(s) BY <1>5
    <2>2. now \in 0..MaxTime /\ 0 \in 0..(MaxTime + Every) /\ sched[s] \in Records
      BY <1>0, Bounds DEF Times
    <2>3. /\ [sched[s] EXCEPT !.state = "stopped", !.stop = TRUE, !.observed = now, !.due = 0] \in Records
          /\ [sched[s] EXCEPT !.state = "resolved", !.resolution = TRUE, !.observed = now] \in Records
      BY <2>2, Zenon DEF Records
    <2>4. \/ sched' = [sched EXCEPT ![s] = [sched[s] EXCEPT !.state = "stopped", !.stop = TRUE, !.observed = now, !.due = 0]]
          \/ sched' = [sched EXCEPT ![s] = [sched[s] EXCEPT !.state = "resolved", !.resolution = TRUE, !.observed = now]]
      BY <2>1, Zenon DEF Stop, ResolveRefusal
    <2>5. sched' \in [Schedules -> Records]
      BY <1>0, <2>3, <2>4
    <2>6. owed' \subseteq Triggers
      BY <2>1, Zenon DEF Stop, ResolveRefusal, TypeOK
    <2> QED BY <2>1, <2>5, <2>6, Zenon DEF Stop, ResolveRefusal, Remove, TypeOK, clock
  <1>6. CASE \E t \in Triggers : StopCancels(t)
    <2>1. PICK t \in Triggers : StopCancels(t) BY <1>6
    <2>2. t \in Jobs /\ AfterCancel(t) \in Statuses BY DEF Jobs, AfterCancel, Statuses
    <2>3. job' \in [Jobs -> [status : Statuses, issued : BOOLEAN]]
      BY <2>1, <2>2, JobTypes, Zenon DEF StopCancels, TypeOK
    <2> QED BY <2>1, <2>3, Zenon DEF StopCancels, TypeOK, clock, timer
  <1>7. CASE \E m \in Manual : ReserveManual(m) \/ ExecuteManual(m)
    <2>1. PICK m \in Manual : ReserveManual(m) \/ ExecuteManual(m) BY <1>7
    <2>2. m \in Jobs /\ "running" \in Statuses BY DEF Jobs, Statuses
    <2>3. CASE ReserveManual(m)
      <3>1. Len(policy) \in 1..MaxPolicies
        BY <1>0, <2>3, Bounds DEF ReserveManual, Reserve
      <3>2. occ' \subseteq Reservations /\ job' \in [Jobs -> [status : Statuses, issued : BOOLEAN]]
        BY <2>2, <2>3, <3>1, ReserveTypes DEF ReserveManual
      <3> QED BY <2>3, <3>2, Zenon DEF ReserveManual, Reserve, TypeOK, clock, timer
    <2>4. CASE ExecuteManual(m)
      <3>1. job' \in [Jobs -> [status : Statuses, issued : BOOLEAN]]
        BY <2>2, <2>4, JobTypes, Zenon DEF ExecuteManual, Start
      <3> QED BY <2>4, <3>1, Zenon DEF ExecuteManual, Start, TypeOK, clock, timer
    <2> QED BY <2>1, <2>3, <2>4
  <1>8. CASE \E o \in occ : Archive(o)
    <2>1. PICK o \in occ : Archive(o) BY <1>8
    <2>2. occ' \subseteq Reservations
      BY <2>1, Zenon DEF Archive, Reservations, TypeOK
    <2> QED BY <2>1, <2>2, Zenon DEF Archive, TypeOK, clock, timer
  <1> QED BY <1>1, <1>2, <1>3, <1>4, <1>5, <1>6, <1>7, <1>8 DEF Owner

LEMMA ProcessTypes ==
    ASSUME TypeOK, Process
    PROVE  TypeOK'
  <1>0. \A s \in Schedules : sched[s] \in Records /\ Interrupted(sched[s]) \in Records
    BY InterruptedRecord DEF TypeOK
  <1>1. CASE Close
    BY <1>1, Zenon DEF Close, TypeOK, clock, journal
  <1>2. CASE FinishClose
    <2>1. sched' \in [Schedules -> Records]
      BY <1>0, <1>2 DEF FinishClose
    <2> QED BY <1>2, <2>1, Zenon DEF FinishClose, TypeOK, clock
  <1>3. CASE AbortLaunches
    BY <1>3, Zenon DEF AbortLaunches, TypeOK, clock, journal, timer, Phases
  <1>4. CASE Restart
    <2>1. sched' \in [Schedules -> Records]
      BY <1>0, <1>4 DEF Restart
    <2>2. job' \in [Jobs -> [status : Statuses, issued : BOOLEAN]]
      <3>1. ASSUME NEW j \in Jobs
            PROVE  /\ job[j] \in [status : Statuses, issued : BOOLEAN]
                   /\ [job[j] EXCEPT !.status = "interrupted"] \in [status : Statuses, issued : BOOLEAN]
        <4>1. job[j] \in [status : Statuses, issued : BOOLEAN] BY DEF TypeOK
        <4>2. "interrupted" \in Statuses BY DEF Statuses
        <4> QED BY <4>1, <4>2
      <3> QED BY <1>4, <3>1, Zenon DEF Restart
    <2>3. runtime' \in 1..MaxRuntimes
      BY <1>4, Bounds DEF Restart, TypeOK
    <2>4. launch' \in [Schedules -> Phases]
      BY <1>4 DEF Restart, Phases
    <2> QED BY <1>4, <2>1, <2>2, <2>3, <2>4, Zenon DEF Restart, TypeOK, clock
  <1> QED BY <1>1, <1>2, <1>3, <1>4 DEF Process

LEMMA TypeStep ==
    ASSUME TypeOK, Owned, Next
    PROVE  TypeOK'
  BY ClockTypes, WorkTypes, TimerTypes, LaunchTypes, StatusTypes, OwnerTypes, ProcessTypes DEF Next

-----------------------------------------------------------------------------
(* What a step does to the record and the claims of one schedule.          *)

SameClaims(s) == \A k \in 1..MaxRuns : claim'[<<s, k>>] = claim[<<s, k>>]

Kept(s) == sched'[s] = sched[s] /\ SameClaims(s)
Ended(s) == sched[s].state \in Live /\ sched'[s] = Interrupted(sched[s]) /\ SameClaims(s)

\* schedule_claim_due, at a moment when everything is resolved and a run is left.
Claims(s) ==
    /\ sched[s].state = "waiting" /\ ~Unclaimable(s) /\ now >= sched[s].due /\ sched[s].claimed < MaxRuns
    /\ SaveClaim(s) /\ worker # NoWork /\ worker.id = s
Exhausts(s) ==
    /\ sched[s].state = "waiting" /\ SameClaims(s)
    /\ sched' = [sched EXCEPT ![s].state = "exhausted", ![s].observed = now, ![s].due = 0]

\* schedule_settle
Settles(s) ==
    /\ sched[s].state = "inflight" /\ ResolvedClaim(<<s, sched[s].trig>>) /\ SameClaims(s)
    /\ ~(now < sched[s].observed) /\ sched' = [sched EXCEPT ![s] = Settled(s)]

\* trigger_begin_launch and trigger_record_refusal
Begins(s) ==
    /\ Owns(Last(s)) /\ now >= sched[s].observed /\ Current(s, now) /\ SameClaims(s)
    /\ sched' = [sched EXCEPT ![s].observed = now, ![s].started = now]
Refuses(s) ==
    /\ Refused(s) /\ SameClaims(s)
    /\ sched' = [sched EXCEPT ![s] = [Interrupted(@) EXCEPT !.refusal = TRUE]]

\* The owner's commands.
Enables(s) ==
    /\ sched[s] = NoSchedule /\ MayReplace /\ SameClaims(s) /\ s \in active'
    /\ Len(policy) # 0 /\ CurrentPolicy(Len(policy), now) /\ Allowance <= Left(Len(policy), now + Every)
    /\ sched' = [sched EXCEPT ![s] = [NoSchedule EXCEPT !.state = "waiting", !.policy = Len(policy), !.armed = now,
                                                      !.observed = now, !.due = now + Every]]
Stops(s) ==
    /\ sched[s].state \notin {"none", "stopped", "resolved"} /\ SameClaims(s)
    /\ sched' = [sched EXCEPT ![s].state = "stopped", ![s].stop = TRUE, ![s].observed = now, ![s].due = 0]
Resolves(s) ==
    /\ sched[s].refusal /\ ~sched[s].resolution /\ SameClaims(s)
    /\ sched[s].state \in {"interrupted", "stopped"}
    /\ sched' = [sched EXCEPT ![s].state = "resolved", ![s].resolution = TRUE, ![s].observed = now]

Moves(s) ==
    \/ Kept(s) \/ Ended(s) \/ Claims(s) \/ Exhausts(s) \/ Settles(s)
    \/ Begins(s) \/ Refuses(s) \/ Enables(s) \/ Stops(s) \/ Resolves(s)

LEMMA InterruptMoves ==
    ASSUME TypeOK, NEW s \in Schedules, NEW u \in Schedules, UNCHANGED claim
    PROVE  /\ InterruptLive(s) => Kept(u) \/ Ended(u)
           /\ \A k : InterruptTrigger(<<s, k>>) => Kept(u) \/ Ended(u)
  <1>1. SameClaims(u) BY DEF SameClaims
  <1>2. InterruptLive(s) => Kept(u) \/ Ended(u)
    BY <1>1, Zenon DEF InterruptLive, TypeOK, Kept, Ended
  <1>3. ASSUME NEW k, InterruptTrigger(<<s, k>>) PROVE Kept(u) \/ Ended(u)
    BY <1>1, <1>3, Zenon DEF InterruptTrigger, Owns, TypeOK, Kept, Ended, Live
  <1> QED BY <1>2, <1>3

\* A change of one record leaves the others alone.
LEMMA OtherKept ==
    ASSUME NEW s \in Schedules, NEW u \in Schedules, u # s, UNCHANGED claim,
           \E r : sched' = [sched EXCEPT ![s] = r]
    PROVE  TypeOK => Kept(u)
  BY DEF TypeOK, Kept, SameClaims

LEMMA WorkMoves ==
    ASSUME TypeOK, Work, NEW u \in Schedules
    PROVE  Moves(u)
  <1> DEFINE s == worker.id
  <1>0. s \in Schedules /\ now \in Times /\ worker \in Works /\ worker # NoWork
    BY Zenon DEF TypeOK, Work, Works
  <1>1. CASE ClaimDue(s)
    <2>1. CASE UNCHANGED <<now, sched, claim, launch, active>>
      BY <2>1 DEF Moves, Kept, SameClaims
    <2>2. CASE InterruptLive(s) /\ UNCHANGED claim
      BY <1>0, <2>2, InterruptMoves, Zenon DEF Moves
    <2>3. CASE FailCheckpoint(s)
      BY <1>0, <2>3, InterruptMoves, Zenon DEF Moves, FailCheckpoint
    <2>4. CASE /\ sched[s].state = "waiting" /\ UNCHANGED claim
               /\ sched' = [sched EXCEPT ![s].state = "exhausted", ![s].observed = now, ![s].due = 0]
      <3>1. CASE u = s BY <2>4, <3>1, Zenon DEF Moves, Exhausts, SameClaims
      <3>2. CASE u # s BY <2>4, <3>2, Zenon DEF Moves, Kept, SameClaims, TypeOK
      <3> QED BY <3>1, <3>2
    <2>5. CASE /\ sched[s].state = "waiting" /\ ~Unclaimable(s) /\ now >= sched[s].due
               /\ sched[s].claimed < MaxRuns /\ SaveClaim(s)
      <3>1. CASE u = s BY <1>0, <2>5, <3>1, Zenon DEF Moves, Claims
      <3>2. CASE u # s
        <4>1. sched'[u] = sched[u] BY <2>5, <3>2, Zenon DEF SaveClaim, TypeOK
        <4>2. SameClaims(u) BY <2>5, <3>2, Zenon DEF SaveClaim, TypeOK, SameClaims, Triggers
        <4> QED BY <4>1, <4>2 DEF Moves, Kept
      <3> QED BY <3>1, <3>2
    <2>6. sched[s].claimed \in Nat /\ MaxRuns \in Nat /\ sched[s].due \in Nat /\ now \in Nat
      <3>1. sched[s] \in Records BY <1>0 DEF TypeOK
      <3> QED BY <1>0, <3>1, Bounds DEF Records, Times
    <2>7. ~OutOfBudget(s, now) => sched[s].claimed < MaxRuns
      BY <2>6 DEF OutOfBudget
    <2>8. ~(now < sched[s].due) => now >= sched[s].due
      BY <2>6
    <2> QED BY <1>1, <2>1, <2>2, <2>3, <2>4, <2>5, <2>7, <2>8, Zenon DEF ClaimDue
  <1>2. CASE Settle(s)
    <2>1. CASE FailCheckpoint(s)
      BY <1>0, <2>1, InterruptMoves, Zenon DEF Moves, FailCheckpoint
    <2>2. CASE ~FailCheckpoint(s)
      <3>1. /\ sched[s].state = "inflight" /\ ResolvedClaim(<<s, sched[s].trig>>) /\ UNCHANGED claim
            /\ sched' = [sched EXCEPT ![s] = IF now < sched[s].observed \/ ~Current(s, now)
                                            THEN Interrupted(@) ELSE Settled(s)]
        BY <1>2, <2>2, Zenon DEF Settle
      <3>2. SameClaims(u) BY <3>1, Zenon DEF SameClaims
      <3>3. CASE u # s BY <3>1, <3>2, <3>3, Zenon DEF Moves, Kept, TypeOK
      <3>4. CASE u = s /\ (now < sched[s].observed \/ ~Current(s, now))
        BY <1>0, <3>1, <3>2, <3>4, Zenon DEF Moves, Ended, TypeOK, Live
      <3>5. CASE u = s /\ ~(now < sched[s].observed \/ ~Current(s, now))
        BY <1>0, <3>1, <3>2, <3>5, Zenon DEF Moves, Settles, TypeOK
      <3> QED BY <3>3, <3>4, <3>5
    <2> QED BY <2>1, <2>2
  <1>3. CASE InterruptTrigger(<<s, worker.trig>>) /\ UNCHANGED <<now, claim, launch, active>>
    BY <1>0, <1>3, InterruptMoves, Zenon DEF Moves
  <1> QED BY <1>0, <1>1, <1>2, <1>3, Zenon DEF Work, Works

LEMMA LaunchMoves ==
    ASSUME TypeOK, NEW s \in Schedules, Launch(s), NEW u \in Schedules
    PROVE  Moves(u)
  <1>0. SameClaims(u)
    BY Zenon DEF Launch, BeginLaunch, Submit, Compile, ReserveTrigger, Reserve, ExecuteTrigger, Start, LaunchFails,
           LaunchTimeout, SameClaims
  <1>1. CASE BeginLaunch(s)
    <2>1. CASE u = s BY <1>0, <1>1, <2>1, Zenon DEF BeginLaunch, Moves, Begins
    <2>2. CASE u # s BY <1>0, <1>1, <2>2, Zenon DEF BeginLaunch, Moves, Kept, TypeOK
    <2> QED BY <2>1, <2>2
  <1>2. CASE Submit(s) \/ Compile(s) \/ ReserveTrigger(s) \/ ExecuteTrigger(s)
    BY <1>0, <1>2, Zenon DEF Submit, Compile, ReserveTrigger, Reserve, ExecuteTrigger, Start, Moves, Kept
  <1>3. CASE LaunchFails(s) /\ Refused(s)
    <2>1. CASE u = s BY <1>0, <1>3, <2>1, Zenon DEF LaunchFails, Moves, Refuses
    <2>2. CASE u # s BY <1>0, <1>3, <2>2, Zenon DEF LaunchFails, Moves, Kept, TypeOK
    <2> QED BY <2>1, <2>2
  <1>4. CASE (LaunchFails(s) /\ ~Refused(s)) \/ LaunchTimeout(s)
    <2>1. InterruptTrigger(<<s, sched[s].claimed>>) /\ UNCHANGED claim
      BY <1>4, Zenon DEF LaunchFails, LaunchTimeout, Last
    <2> QED BY <2>1, InterruptMoves, Zenon DEF Moves
  <1> QED BY <1>1, <1>2, <1>3, <1>4 DEF Launch

LEMMA OwnerMoves ==
    ASSUME TypeOK, Owner, NEW u \in Schedules
    PROVE  Moves(u)
  <1>0. UNCHANGED claim
    BY Zenon DEF Owner, ApprovePolicy, RemoveDefinition, Revoke, Enable, Stop, ResolveRefusal, StopCancels,
           ReserveManual, ExecuteManual, Reserve, Start, Archive
  <1>1. SameClaims(u) BY <1>0 DEF SameClaims
  <1>2. CASE UNCHANGED sched
    BY <1>1, <1>2 DEF Moves, Kept
  <1>3. ASSUME NEW s \in Schedules, Enable(s) PROVE Moves(u)
    <2>1. CASE u = s BY <1>1, <1>3, <2>1, Zenon DEF Enable, Moves, Enables
    <2>2. CASE u # s BY <1>1, <1>3, <2>2, Zenon DEF Enable, Moves, Kept, TypeOK
    <2> QED BY <2>1, <2>2
  <1>4. ASSUME NEW s \in Schedules, Stop(s) PROVE Moves(u)
    <2>1. CASE u = s BY <1>1, <1>4, <2>1, Zenon DEF Stop, Moves, Stops
    <2>2. CASE u # s BY <1>1, <1>4, <2>2, Zenon DEF Stop, Moves, Kept, TypeOK
    <2> QED BY <2>1, <2>2
  <1>5. ASSUME NEW s \in Schedules, ResolveRefusal(s) PROVE Moves(u)
    <2>1. CASE u = s BY <1>1, <1>5, <2>1, Zenon DEF ResolveRefusal, Moves, Resolves
    <2>2. CASE u # s BY <1>1, <1>5, <2>2, Zenon DEF ResolveRefusal, Moves, Kept, TypeOK
    <2> QED BY <2>1, <2>2
  <1>6. \/ UNCHANGED sched
        \/ \E s \in Schedules : Enable(s) \/ Stop(s) \/ ResolveRefusal(s)
    BY Zenon DEF Owner, ApprovePolicy, RemoveDefinition, Revoke, StopCancels, ReserveManual, ExecuteManual, Reserve,
           Start, Archive
  <1> QED BY <1>2, <1>3, <1>4, <1>5, <1>6, Zenon

LEMMA Effect ==
    ASSUME TypeOK, Next, NEW u \in Schedules
    PROVE  Moves(u)
  <1>1. CASE Tick \/ SetClock \/ SeeJump
    BY <1>1, Zenon DEF Tick, SetClock, SeeJump, journal, Moves, Kept, SameClaims
  <1>2. ASSUME NEW s \in Schedules, Timer(s) PROVE Moves(u)
    <2>1. CASE PollShaken(s)
      BY <2>1, InterruptMoves, ZenonT(30) DEF PollShaken, Moves
    <2>2. CASE Poll(s) \/ TakeClaim(s) \/ Join(s)
      BY <2>2, Zenon DEF Poll, TakeClaim, Join, journal, Moves, Kept, SameClaims
    <2> QED BY <1>2, <2>1, <2>2 DEF Timer
  <1>3. ASSUME NEW j \in Jobs, Job(j) PROVE Moves(u)
    BY <1>3, Zenon DEF Job, IssueGrant, JobEnds, Recover, Cancel, SetStatus, Moves, Kept, SameClaims
  <1>4. CASE Process
    <2>1. SameClaims(u)
      BY <1>4, Zenon DEF Process, Close, FinishClose, AbortLaunches, Restart, journal, SameClaims
    <2>2. sched'[u] = sched[u] \/ (sched[u].state \in Live /\ sched'[u] = Interrupted(sched[u]))
      BY <1>4, Zenon DEF Process, Close, FinishClose, AbortLaunches, Restart, journal
    <2> QED BY <2>1, <2>2, Zenon DEF Moves, Kept, Ended
  <1> QED BY <1>1, <1>2, <1>3, <1>4, WorkMoves, LaunchMoves, OwnerMoves DEF Next

-----------------------------------------------------------------------------
(* The records and the claims of a schedule.                               *)

Since(s) == policy[sched[s].policy].approved
At(s, k) == claim[<<s, k>>].at

\* What validate_schedule_data asks of the flags of a record, and of its dates
\* when its policy was approved at a.  A waiting schedule is due one period
\* after it was last observed.
Flags(r) ==
    /\ r.stop => r.state \in {"stopped", "resolved"}
    /\ r.refusal => r.trig # 0 /\ r.started = 0 /\ r.state \in {"interrupted", "stopped", "resolved"}
    /\ r.resolution <=> r.state = "resolved"
    /\ r.resolution => r.refusal
    /\ r.state = "stopped" => r.stop
Dates(r, a) ==
    /\ a <= r.armed /\ r.armed < a + Valid
    /\ r.trig \in {0, r.claimed}
    /\ r.state = "waiting" => /\ r.trig = 0 /\ r.started = 0 /\ r.armed <= r.observed
                              /\ r.due = r.observed + Every /\ r.due < a + Valid
    /\ r.state = "inflight" => r.trig # 0 /\ r.due = 0 /\ r.armed <= r.observed
    /\ r.state = "exhausted" => r.trig = 0 /\ r.started = 0 /\ r.due = 0
    /\ r.state \in {"interrupted", "stopped", "resolved"} => r.due = 0

RecordOf(s) ==
    /\ sched[s].state = "none" => sched[s] = NoSchedule
    /\ sched[s].state # "none" => /\ sched[s].policy \in DOMAIN policy
                                  /\ Flags(sched[s]) /\ Dates(sched[s], Since(s))

\* The claims of a schedule are numbered without gaps, made when they were due
\* and while the policy was current, a period apart, and a live schedule has
\* observed every one of them.
ClaimOf(s, k) ==
    /\ claim[<<s, k>>].due <= At(s, k) /\ At(s, k) < claim[<<s, k>>].due + Every
    /\ sched[s].armed + Every <= claim[<<s, k>>].due /\ At(s, k) < Since(s) + Valid
    /\ sched[s].state \in Live => At(s, k) <= sched[s].observed
ClaimsOf(s) ==
    /\ \A k \in 1..MaxRuns : claim[<<s, k>>] # NoClaim <=> k <= sched[s].claimed
    /\ \A k \in 1..sched[s].claimed : ClaimOf(s, k)
    /\ \A j, k \in 1..sched[s].claimed : j < k => At(s, j) + Every <= At(s, k)
    /\ sched[s].state = "inflight" =>
          /\ sched[s].observed = IF sched[s].started = 0 THEN At(s, sched[s].claimed) ELSE sched[s].started
          /\ sched[s].started # 0 => sched[s].started < Since(s) + Valid

RecordInv == \A s \in Schedules : RecordOf(s) /\ ClaimsOf(s)

\* A definition has one live schedule, and the timer manages it.
LiveInv ==
    /\ LiveIsManaged
    /\ \A s, u \in Schedules : sched[s].state \in Live /\ sched[u].state \in Live => s = u

\* A launch works on the last claim, which nobody replaces under it: the worker
\* only has work for a schedule without a launch.  A begun launch has no job yet,
\* jobs are those of claimed triggers, and what was reserved has been compiled.
LaunchInv ==
    /\ worker # NoWork => launch[worker.id] = "idle"
    /\ \A s \in Schedules : launch[s] = "begun" => sched[s].claimed # 0 /\ job[Last(s)] = NoJob
    /\ \A s \in Schedules, k \in 1..MaxRuns : job[<<s, k>>] # NoJob => k <= sched[s].claimed
    /\ \A o \in occ : /\ o.policy \in DOMAIN policy
                      /\ job[o.job].status \notin {"none", "review", "awaiting"}
    /\ \A j \in Jobs : job[j].status \in {"none", "review", "awaiting", "approved"} => ~job[j].issued

\* Of the claims of a definition at most one is unresolved, the one in flight.
UniqueInv ==
    /\ \A t, u \in Claimed : ResolvedClaim(t) \/ ResolvedClaim(u) \/ t = u
    /\ \A s \in Schedules, t \in Claimed :
          /\ sched[s].state = "waiting" => ResolvedClaim(t)
          /\ sched[s].state = "inflight" => ResolvedClaim(t) \/ t = <<s, sched[s].trig>>

ScheduleInv ==
    TypeOK /\ RecordInv /\ LiveInv /\ LaunchInv /\ UniqueInv /\ RefusalIsTrue

\* Policies are only added, and keep the time of their approval.
LEMMA PolicyGrows ==
    ASSUME TypeOK, Next
    PROVE  \A p \in DOMAIN policy : p \in DOMAIN policy' /\ policy'[p].approved = policy[p].approved
  <1>0. policy \in Seq(Policies) BY DEF TypeOK
  <1>1. CASE UNCHANGED policy
    BY <1>1
  <1>2. CASE ApprovePolicy
    BY <1>0, <1>2 DEF ApprovePolicy
  <1>3. CASE \E p \in DOMAIN policy : Revoke(p)
    <2>1. PICK p \in DOMAIN policy : Revoke(p) BY <1>3
    <2>2. policy' = [policy EXCEPT ![p].revoked = TRUE] BY <2>1 DEF Revoke
    <2>3. \A q \in DOMAIN policy : policy[q] \in Policies BY <1>0
    <2> QED BY <1>0, <2>1, <2>2, <2>3 DEF Policies
  <1>4. UNCHANGED policy \/ ApprovePolicy \/ \E p \in DOMAIN policy : Revoke(p)
    <2>1. CASE Tick \/ SetClock \/ SeeJump \/ Work
      BY <2>1, ZenonT(30) DEF Tick, SetClock, SeeJump, Work, journal
    <2>2. CASE \E s \in Schedules : Timer(s)
      BY <2>2, Zenon DEF Timer, PollShaken, Poll, TakeClaim, Join, journal
    <2>3. CASE \E s \in Schedules : Launch(s)
      BY <2>3, Zenon DEF Launch, BeginLaunch, Submit, Compile, ReserveTrigger, Reserve, ExecuteTrigger, Start, LaunchFails, LaunchTimeout
    <2>4. CASE \E j \in Jobs : Job(j)
      BY <2>4, Zenon DEF Job, IssueGrant, JobEnds, Recover, Cancel, SetStatus
    <2>5. CASE Owner
      BY <2>5, Zenon DEF Owner, RemoveDefinition, Enable, Stop, ResolveRefusal, StopCancels, ReserveManual, ExecuteManual,
                  Reserve, Start, Archive
    <2>6. CASE Process
      BY <2>6, Zenon DEF Process, Close, FinishClose, AbortLaunches, Restart, journal
    <2> QED BY <2>1, <2>2, <2>3, <2>4, <2>5, <2>6 DEF Next
  <1> QED BY <1>1, <1>2, <1>3, <1>4

\* What a move makes of the record.
LEMMA MovedRecord ==
    ASSUME TypeOK, NEW s \in Schedules
    PROVE  /\ Ended(s) => sched'[s] = Interrupted(sched[s])
           /\ Claims(s) => sched'[s] = [sched[s] EXCEPT !.state = "inflight", !.observed = now, !.due = 0,
                                           !.trig = sched[s].claimed + 1, !.started = 0,
                                           !.claimed = sched[s].claimed + 1]
           /\ Exhausts(s) => sched'[s] = [sched[s] EXCEPT !.state = "exhausted", !.observed = now, !.due = 0]
           /\ Settles(s) => sched'[s] = Settled(s)
           /\ Begins(s) => sched'[s] = [sched[s] EXCEPT !.observed = now, !.started = now]
           /\ Refuses(s) => sched'[s] = [Interrupted(sched[s]) EXCEPT !.refusal = TRUE]
           /\ Enables(s) => sched'[s] = [NoSchedule EXCEPT !.state = "waiting", !.policy = Len(policy), !.armed = now,
                                                          !.observed = now, !.due = now + Every]
           /\ Stops(s) => sched'[s] = [sched[s] EXCEPT !.state = "stopped", !.stop = TRUE, !.observed = now, !.due = 0]
           /\ Resolves(s) => sched'[s] = [sched[s] EXCEPT !.state = "resolved", !.resolution = TRUE, !.observed = now]
  <1>0. sched \in [Schedules -> Records] /\ sched[s] \in Records BY DEF TypeOK
  <1>1. Ended(s) => sched'[s] = Interrupted(sched[s]) BY DEF Ended
  <1>2. Claims(s) => sched'[s] = [sched[s] EXCEPT !.state = "inflight", !.observed = now, !.due = 0,
                                           !.trig = sched[s].claimed + 1, !.started = 0,
                                           !.claimed = sched[s].claimed + 1]
    BY <1>0 DEF Claims, SaveClaim
  <1>3. Exhausts(s) => sched'[s] = [sched[s] EXCEPT !.state = "exhausted", !.observed = now, !.due = 0]
    BY <1>0 DEF Exhausts
  <1>4. Settles(s) => sched'[s] = Settled(s)
    BY <1>0 DEF Settles
  <1>5. Begins(s) => sched'[s] = [sched[s] EXCEPT !.observed = now, !.started = now]
    BY <1>0 DEF Begins
  <1>6. Refuses(s) => sched'[s] = [Interrupted(sched[s]) EXCEPT !.refusal = TRUE]
    BY <1>0 DEF Refuses
  <1>7. Enables(s) => sched'[s] = [NoSchedule EXCEPT !.state = "waiting", !.policy = Len(policy), !.armed = now,
                                                          !.observed = now, !.due = now + Every]
    BY <1>0 DEF Enables
  <1>8. Stops(s) => sched'[s] = [sched[s] EXCEPT !.state = "stopped", !.stop = TRUE, !.observed = now, !.due = 0]
    BY <1>0 DEF Stops
  <1>9. Resolves(s) => sched'[s] = [sched[s] EXCEPT !.state = "resolved", !.resolution = TRUE, !.observed = now]
    BY <1>0 DEF Resolves
  <1> QED BY <1>1, <1>2, <1>3, <1>4, <1>5, <1>6, <1>7, <1>8, <1>9, Zenon

\* No record leaves its states, and a move keeps its flags consistent.
LEMMA FlagsMove ==
    ASSUME TypeOK, NEW u \in Schedules, RecordOf(u), Moves(u)
    PROVE  /\ sched'[u].state = "none" => sched'[u] = NoSchedule
           /\ sched'[u].state # "none" => Flags(sched'[u])
  <1> DEFINE Good == /\ sched'[u].state = "none" => sched'[u] = NoSchedule
                     /\ sched'[u].state # "none" => Flags(sched'[u])
  <1> SUFFICES Good OBVIOUS
  <1>0. sched[u] \in Records /\ now \in Nat /\ MaxRuns \in Nat BY Bounds DEF TypeOK, Times
  <1>1. CASE Kept(u) BY <1>1 DEF Kept, RecordOf
  <1>2. CASE Ended(u)
    <2>1. sched'[u] = [sched[u] EXCEPT !.state = "interrupted", !.due = 0, !.observed = now]
      BY <1>2 DEF Ended, Interrupted
    <2> QED BY <1>0, <1>2, <2>1, Zenon DEF Ended, Live, RecordOf, Flags, Records
  <1>3. CASE Claims(u)
    <2>1. sched'[u] = [sched[u] EXCEPT !.state = "inflight", !.observed = now, !.due = 0,
                                       !.trig = sched[u].claimed + 1, !.started = 0, !.claimed = sched[u].claimed + 1]
      BY <1>3, MovedRecord, Zenon
    <2> QED BY <1>0, <1>3, <2>1 DEF Claims, RecordOf, Flags, Records
  <1>4. CASE Exhausts(u)
    <2>1. sched'[u] = [sched[u] EXCEPT !.state = "exhausted", !.observed = now, !.due = 0]
      BY <1>4, MovedRecord, Zenon
    <2>2. sched[u].state = "waiting" BY <1>4 DEF Exhausts
    <2>3. Flags(sched[u]) BY <2>2 DEF RecordOf
    <2> QED BY <1>0, <2>1, <2>2, <2>3, Zenon DEF Flags, Records
  <1>5. CASE Settles(u)
    <2>1. \/ sched'[u] = [sched[u] EXCEPT !.observed = now, !.trig = 0, !.started = 0, !.state = "exhausted"]
          \/ sched'[u] = [sched[u] EXCEPT !.observed = now, !.trig = 0, !.started = 0, !.state = "waiting", !.due = now + Every]
      BY <1>5, MovedRecord, Zenon DEF Settled
    <2>2. sched[u].state = "inflight" BY <1>5 DEF Settles
    <2>3. Flags(sched[u]) BY <2>2 DEF RecordOf
    <2> QED BY <1>0, <2>1, <2>2, <2>3, Zenon DEF Flags, Records
  <1>6. CASE Begins(u)
    <2>1. sched'[u] = [sched[u] EXCEPT !.observed = now, !.started = now] BY <1>6, MovedRecord, Zenon
    <2>2. sched[u].state = "inflight" BY <1>6 DEF Begins, Owns, Last
    <2> QED BY <1>0, <2>1, <2>2, Zenon DEF RecordOf, Flags, Records
  <1>7. CASE Refuses(u)
    <2>1. sched'[u] = [sched[u] EXCEPT !.state = "interrupted", !.due = 0, !.observed = now, !.refusal = TRUE]
      BY <1>7, MovedRecord, Zenon DEF Interrupted
    <2>2. sched[u].state = "inflight" /\ sched[u].started = 0 BY <1>7 DEF Refuses, Refused, Owns, Last
    <2>3. sched[u].trig # 0 BY <2>2, Zenon DEF RecordOf, Dates
    <2> QED BY <1>0, <2>1, <2>2, <2>3 DEF RecordOf, Flags, Records
  <1>8. CASE Enables(u)
    <2>1. sched'[u] = [NoSchedule EXCEPT !.state = "waiting", !.policy = Len(policy), !.armed = now,
                                         !.observed = now, !.due = now + Every]
      BY <1>8, MovedRecord, Zenon
    <2> QED BY <2>1 DEF NoSchedule, Flags
  <1>9. CASE Stops(u)
    <2>1. sched'[u] = [sched[u] EXCEPT !.state = "stopped", !.stop = TRUE, !.observed = now, !.due = 0]
      BY <1>9, MovedRecord, Zenon
    <2>2. sched[u].state \notin {"none", "stopped", "resolved"} BY <1>9, Zenon DEF Stops
    <2>3. Flags(sched[u]) BY <2>2 DEF RecordOf
    <2> QED BY <1>0, <2>1, <2>2, <2>3 DEF Flags, Records
  <1>10. CASE Resolves(u)
    <2>1. sched'[u] = [sched[u] EXCEPT !.state = "resolved", !.resolution = TRUE, !.observed = now]
      BY <1>10, MovedRecord, Zenon
    <2>2. sched[u].state \in {"interrupted", "stopped"} /\ sched[u].refusal BY <1>10, Zenon DEF Resolves
    <2>3. Flags(sched[u]) BY <2>2 DEF RecordOf
    <2> QED BY <1>0, <2>1, <2>2, <2>3 DEF Flags, Records
  <1> QED BY <1>1, <1>2, <1>3, <1>4, <1>5, <1>6, <1>7, <1>8, <1>9, <1>10, Zenon DEF Moves

\* The time a policy was approved at is a time.
LEMMA ApprovedType ==
    ASSUME TypeOK, NEW p \in DOMAIN policy
    PROVE  policy[p].approved \in Nat
  <1>1. policy \in Seq(Policies) BY DEF TypeOK
  <1>2. policy[p] \in Policies BY <1>1
  <1>3. policy[p].approved \in Times BY <1>2 DEF Policies
  <1> QED BY <1>3 DEF Times

\* What is left of a policy that pays for one more run at a time outlasts it.
LEMMA PaidInTime ==
    ASSUME TypeOK, NEW p \in DOMAIN policy, NEW at \in Nat, Allowance <= Left(p, at)
    PROVE  at < policy[p].approved + Valid
  <1>1. policy[p].approved \in Nat BY ApprovedType
  <1>2. Allowance \in Nat \ {0} /\ Valid \in Nat BY Bounds
  <1> QED BY <1>1, <1>2 DEF Left, Expires

\* A move keeps the dates of a record within its policy and in order.
LEMMA DatesMove ==
    ASSUME TypeOK, NEW u \in Schedules, RecordOf(u), Moves(u), sched'[u].state # "none"
    PROVE  sched'[u].policy \in DOMAIN policy /\ Dates(sched'[u], policy[sched'[u].policy].approved)
  <1> DEFINE Good == sched'[u].policy \in DOMAIN policy /\ Dates(sched'[u], policy[sched'[u].policy].approved)
             a == Since(u)
  <1> SUFFICES Good OBVIOUS
  <1>0. sched[u] \in Records /\ now \in Nat /\ now # 0 BY DEF TypeOK, Times
  <1>b. MaxRuns \in Nat /\ Every \in Nat \ {0} /\ Valid \in Nat /\ MaxTime \in Nat BY Bounds
  <1>p. \A p \in DOMAIN policy : policy[p].approved \in Nat BY ApprovedType
  <1>l. Len(policy) \in Nat /\ DOMAIN policy = 1..Len(policy) BY DEF TypeOK
  <1>r. ASSUME sched[u].state # "none"
        PROVE  sched[u].policy \in DOMAIN policy /\ Dates(sched[u], policy[sched[u].policy].approved)
    BY <1>r, Zenon DEF RecordOf, Since
  <1>n. /\ sched[u].armed \in Nat /\ sched[u].observed \in Nat /\ sched[u].due \in Nat
        /\ sched[u].claimed \in Nat /\ sched[u].trig \in Nat /\ sched[u].started \in Nat
    BY <1>0, <1>b DEF Records
  <1>1. CASE Kept(u) BY <1>1, <1>r DEF Kept
  <1>2. CASE Ended(u)
    <2>1. sched'[u] = [sched[u] EXCEPT !.state = "interrupted", !.due = 0, !.observed = now]
      BY <1>2 DEF Ended, Interrupted
    <2>2. sched[u].state # "none" BY <1>2 DEF Ended, Live
    <2> QED BY <1>0, <1>r, <2>1, <2>2, Zenon DEF Dates, Records
  <1>3. CASE Claims(u)
    <2>1. sched'[u] = [sched[u] EXCEPT !.state = "inflight", !.observed = now, !.due = 0,
                                       !.trig = sched[u].claimed + 1, !.started = 0, !.claimed = sched[u].claimed + 1]
      BY <1>3, MovedRecord, ZenonT(30)
    <2>2. sched[u].state = "waiting" /\ now >= sched[u].due BY <1>3 DEF Claims
    <2>3. sched[u].armed <= now BY <1>0, <1>b, <1>n, <1>r, <2>2 DEF Dates
    <2> QED BY <1>0, <1>b, <1>n, <1>r, <2>1, <2>2, <2>3 DEF Dates, Records
  <1>4. CASE Exhausts(u)
    <2>1. sched'[u] = [sched[u] EXCEPT !.state = "exhausted", !.observed = now, !.due = 0]
      BY <1>4, MovedRecord, Zenon
    <2>2. sched[u].state = "waiting" BY <1>4, Zenon DEF Exhausts
    <2> QED BY <1>0, <1>r, <2>1, <2>2, Zenon DEF Dates, Records
  <1>5. CASE Settles(u)
    <2>1. sched'[u] = Settled(u) BY <1>5, MovedRecord, Zenon
    <2>2. sched[u].state = "inflight" /\ ~(now < sched[u].observed) BY <1>5 DEF Settles
    <2>3. CASE OutOfBudget(u, now + Every)
      <3>1. sched'[u] = [sched[u] EXCEPT !.observed = now, !.trig = 0, !.started = 0, !.state = "exhausted"]
        BY <2>1, <2>3 DEF Settled
      <3> QED BY <1>0, <1>r, <2>2, <3>1, Zenon DEF Dates, Records
    <2>4. CASE ~OutOfBudget(u, now + Every)
      <3>1. sched'[u] = [sched[u] EXCEPT !.observed = now, !.trig = 0, !.started = 0, !.state = "waiting", !.due = now + Every]
        BY <2>1, <2>4 DEF Settled
      <3>2. now + Every \in Nat /\ Left(sched[u].policy, now + Every) \in Nat /\ Allowance \in Nat
        BY <1>0, <1>b, <1>p, <1>r, <2>2, Bounds DEF Left, Expires
      <3>3. Allowance <= Left(sched[u].policy, now + Every)
        BY <2>4, <3>2 DEF OutOfBudget
      <3>4. now + Every < policy[sched[u].policy].approved + Valid
        BY <1>r, <2>2, <3>2, <3>3, PaidInTime, Zenon
      <3>5. sched[u].armed <= now BY <1>0, <1>n, <1>r, <2>2 DEF Dates
      <3> QED BY <1>0, <1>b, <1>n, <1>r, <2>2, <3>1, <3>4, <3>5 DEF Dates, Records
    <2> QED BY <2>3, <2>4, Zenon
  <1>6. CASE Begins(u)
    <2>1. sched'[u] = [sched[u] EXCEPT !.observed = now, !.started = now] BY <1>6, MovedRecord, Zenon
    <2>2. sched[u].state = "inflight" /\ now >= sched[u].observed BY <1>6, Zenon DEF Begins, Owns, Last
    <2> QED BY <1>0, <1>n, <1>r, <2>1, <2>2 DEF Dates, Records
  <1>7. CASE Refuses(u)
    <2>1. sched'[u] = [sched[u] EXCEPT !.state = "interrupted", !.due = 0, !.observed = now, !.refusal = TRUE]
      BY <1>7, MovedRecord, Zenon DEF Interrupted
    <2>2. sched[u].state = "inflight" BY <1>7 DEF Refuses, Refused, Owns, Last
    <2> QED BY <1>0, <1>r, <2>1, <2>2, Zenon DEF Dates, Records
  <1>8. CASE Enables(u)
    <2>1. sched'[u] = [NoSchedule EXCEPT !.state = "waiting", !.policy = Len(policy), !.armed = now,
                                         !.observed = now, !.due = now + Every]
      BY <1>8, MovedRecord, Zenon
    <2>2. Len(policy) # 0 /\ policy[Len(policy)].approved <= now /\ now < policy[Len(policy)].approved + Valid
      BY <1>8 DEF Enables, CurrentPolicy, Expires
    <2>3. now + Every < policy[Len(policy)].approved + Valid
      BY <1>0, <1>b, <1>l, <1>8, <2>2, PaidInTime DEF Enables
    <2> QED BY <1>0, <1>b, <1>l, <2>1, <2>2, <2>3 DEF NoSchedule, Dates
  <1>9. CASE Stops(u)
    <2>1. sched'[u] = [sched[u] EXCEPT !.state = "stopped", !.stop = TRUE, !.observed = now, !.due = 0]
      BY <1>9, MovedRecord, Zenon
    <2>2. sched[u].state # "none" BY <1>9, Zenon DEF Stops
    <2> QED BY <1>0, <1>r, <2>1, <2>2, Zenon DEF Dates, Records
  <1>10. CASE Resolves(u)
    <2>1. sched'[u] = [sched[u] EXCEPT !.state = "resolved", !.resolution = TRUE, !.observed = now]
      BY <1>10, MovedRecord, Zenon
    <2>2. sched[u].state \in {"interrupted", "stopped"} BY <1>10, Zenon DEF Resolves
    <2> QED BY <1>0, <1>r, <2>1, <2>2, Zenon DEF Dates, Records
  <1> QED BY <1>1, <1>2, <1>3, <1>4, <1>5, <1>6, <1>7, <1>8, <1>9, <1>10, Zenon DEF Moves

LEMMA RecordKept ==
    ASSUME TypeOK, NEW u \in Schedules, RecordOf(u), Next
    PROVE  RecordOf(u)'
  <1>1. Moves(u) BY Effect
  <1>2. /\ sched'[u].state = "none" => sched'[u] = NoSchedule
        /\ sched'[u].state # "none" => Flags(sched'[u])
    BY <1>1, FlagsMove
  <1>3. ASSUME sched'[u].state # "none"
        PROVE  sched'[u].policy \in DOMAIN policy /\ Dates(sched'[u], policy[sched'[u].policy].approved)
    BY <1>1, <1>3, DatesMove, Zenon
  <1>4. ASSUME sched'[u].state # "none"
        PROVE  sched'[u].policy \in DOMAIN policy' /\ Dates(sched'[u], policy'[sched'[u].policy].approved)
    <2>1. /\ sched'[u].policy \in DOMAIN policy'
          /\ policy'[sched'[u].policy].approved = policy[sched'[u].policy].approved
      BY <1>3, <1>4, PolicyGrows, Zenon
    <2> QED BY <1>3, <1>4, <2>1, Zenon
  <1>5. Flags(sched[u])' <=> Flags(sched'[u]) BY DEF Flags
  <1>6. Dates(sched[u], Since(u))' <=> Dates(sched'[u], policy'[sched'[u].policy].approved) BY Zenon DEF Dates, Since
  <1> QED BY <1>2, <1>4, <1>5, <1>6, Zenon DEF RecordOf

\* The numbers and times the claims of a schedule are made of.
LEMMA ClaimNumbers ==
    ASSUME TypeOK, NEW s \in Schedules
    PROVE  /\ sched[s].claimed \in Nat /\ sched[s].claimed <= MaxRuns /\ MaxRuns \in Nat /\ Every \in Nat /\ Valid \in Nat
           /\ sched[s].armed \in Nat /\ sched[s].observed \in Nat /\ sched[s].due \in Nat /\ sched[s].started \in Nat
           /\ now \in Nat /\ now # 0
           /\ \A k \in 1..MaxRuns : /\ <<s, k>> \in Triggers /\ claim[<<s, k>>] \in [due : 0..MaxTime, at : 0..MaxTime]
                                    /\ At(s, k) \in Nat /\ claim[<<s, k>>].due \in Nat
  <1>1. MaxRuns \in Nat /\ Every \in Nat /\ Valid \in Nat /\ MaxTime \in Nat BY Bounds
  <1>2. sched[s] \in Records BY DEF TypeOK
  <1>3. now \in Nat /\ now # 0 BY DEF TypeOK, Times
  <1>4. ASSUME NEW k \in 1..MaxRuns
        PROVE  /\ <<s, k>> \in Triggers /\ claim[<<s, k>>] \in [due : 0..MaxTime, at : 0..MaxTime]
               /\ At(s, k) \in Nat /\ claim[<<s, k>>].due \in Nat
    <2>1. <<s, k>> \in Triggers BY DEF Triggers
    <2>2. claim[<<s, k>>] \in [due : 0..MaxTime, at : 0..MaxTime] BY <2>1 DEF TypeOK
    <2> QED BY <1>1, <2>1, <2>2 DEF At
  <1> QED BY <1>1, <1>2, <1>3, <1>4 DEF Records

\* A move that claims nothing keeps what holds of the claims, when a schedule
\* that stays live observes no earlier time.
LEMMA ClaimsStay ==
    ASSUME TypeOK, NEW u \in Schedules, RecordOf(u), ClaimsOf(u), Next, SameClaims(u),
           sched'[u].claimed = sched[u].claimed, sched'[u].armed = sched[u].armed, sched'[u].policy = sched[u].policy,
           sched'[u].observed \in Nat,
           sched'[u].state \in Live => sched[u].state \in Live /\ sched[u].observed <= sched'[u].observed,
           sched'[u].state = "inflight" =>
              /\ sched'[u].observed = IF sched'[u].started = 0 THEN At(u, sched[u].claimed) ELSE sched'[u].started
              /\ sched'[u].started # 0 => sched'[u].started < Since(u) + Valid
    PROVE  sched[u].state # "none" => ClaimsOf(u)'
  <1> HAVE sched[u].state # "none"
  <1>0. sched[u].policy \in DOMAIN policy BY Zenon DEF RecordOf
  <1>1. Since(u)' = Since(u) BY <1>0, PolicyGrows, Zenon DEF Since
  <1>2. \A k \in 1..MaxRuns : claim'[<<u, k>>] = claim[<<u, k>>] /\ At(u, k)' = At(u, k) BY Zenon DEF SameClaims, At
  <1>3. 1..sched[u].claimed \subseteq 1..MaxRuns BY ClaimNumbers
  <1>4. \A k \in 1..MaxRuns : claim'[<<u, k>>] # NoClaim <=> k <= sched'[u].claimed
    BY <1>2, Zenon DEF ClaimsOf
  <1>5. ASSUME NEW k \in 1..sched'[u].claimed PROVE ClaimOf(u, k)'
    <2>1. k \in 1..MaxRuns /\ ClaimOf(u, k) BY <1>3, <1>5, Zenon DEF ClaimsOf
    <2>2. At(u, k) \in Nat /\ sched[u].observed \in Nat BY <2>1, ClaimNumbers, ZenonT(30)
    <2>3. claim'[<<u, k>>] = claim[<<u, k>>] /\ At(u, k)' = At(u, k) BY <1>2, <2>1, Zenon
    <2>4. sched'[u].state \in Live => At(u, k)' <= sched'[u].observed
      <3>1. sched[u].state \in Live => At(u, k) <= sched[u].observed BY <2>1, Zenon DEF ClaimOf
      <3> QED BY <2>2, <2>3, <3>1
    <2>5. /\ claim[<<u, k>>].due <= At(u, k) /\ At(u, k) < claim[<<u, k>>].due + Every
          /\ sched[u].armed + Every <= claim[<<u, k>>].due /\ At(u, k) < Since(u) + Valid
      BY <2>1, Zenon DEF ClaimOf
    <2>6. /\ claim'[<<u, k>>].due <= At(u, k)' /\ At(u, k)' < claim'[<<u, k>>].due + Every
          /\ sched'[u].armed + Every <= claim'[<<u, k>>].due /\ At(u, k)' < Since(u)' + Valid
      BY <1>1, <2>3, <2>5, Zenon
    <2> QED BY <2>4, <2>6, Zenon DEF ClaimOf
  <1>6. \A j, k \in 1..sched'[u].claimed : j < k => At(u, j)' + Every <= At(u, k)'
    <2>1. \A j, k \in 1..sched[u].claimed : j < k => At(u, j) + Every <= At(u, k) BY Zenon DEF ClaimsOf
    <2>2. \A k \in 1..sched[u].claimed : At(u, k)' = At(u, k) BY <1>2, <1>3, ZenonT(30)
    <2> QED BY <2>1, <2>2, Zenon
  <1>7. sched'[u].state = "inflight" =>
           /\ sched'[u].observed = IF sched'[u].started = 0 THEN At(u, sched[u].claimed)' ELSE sched'[u].started
           /\ sched'[u].started # 0 => sched'[u].started < Since(u)' + Valid
    <2> HAVE sched'[u].state = "inflight"
    <2>1. sched[u].state # "none" /\ sched'[u].state # "none" BY Zenon
    <2>2. RecordOf(u)' BY RecordKept, Zenon
    <2>3. sched'[u].trig # 0 /\ sched'[u].trig \in {0, sched'[u].claimed} BY <2>2, ZenonT(30) DEF RecordOf, Dates
    <2>4. sched[u].claimed \in 1..MaxRuns BY <2>3, ClaimNumbers
    <2> QED BY <1>1, <1>2, <2>4, ZenonT(30)
  <1> QED BY <1>4, <1>5, <1>6, <1>7, Zenon DEF ClaimsOf

\* The claim of a due schedule is in time, within its policy and a period after
\* the one before.
LEMMA ClaimsNext ==
    ASSUME TypeOK, NEW u \in Schedules, RecordOf(u), ClaimsOf(u), Next, Claims(u)
    PROVE  ClaimsOf(u)'
  <1> DEFINE c == sched[u].claimed
             r == [sched[u] EXCEPT !.state = "inflight", !.observed = now, !.due = 0,
                                   !.trig = c + 1, !.started = 0, !.claimed = c + 1]
  <1>1. sched'[u] = r BY MovedRecord, ZenonT(30)
  <1>2. sched[u].state = "waiting" /\ now >= sched[u].due /\ c < MaxRuns /\ ~Unclaimable(u) BY DEF Claims
  <1>3. sched[u] \in Records BY DEF TypeOK
  <1>4. /\ sched'[u].state = "inflight" /\ sched'[u].observed = now /\ sched'[u].started = 0
        /\ sched'[u].claimed = c + 1 /\ sched'[u].armed = sched[u].armed /\ sched'[u].policy = sched[u].policy
    BY <1>1, <1>3 DEF Records
  <1>5. c \in Nat /\ c + 1 \in 1..MaxRuns /\ 1..c \subseteq 1..MaxRuns /\ Every \in Nat /\ Every # 0 /\ Valid \in Nat
    BY <1>2, ClaimNumbers, Bounds
  <1>6. claim' = [claim EXCEPT ![<<u, c + 1>>] = [due |-> sched[u].due, at |-> now]] BY Zenon DEF Claims, SaveClaim
  <1>7. claim'[<<u, c + 1>>] = [due |-> sched[u].due, at |-> now]
    <2>1. <<u, c + 1>> \in Triggers BY <1>5, ClaimNumbers, Zenon
    <2> QED BY <1>6, <2>1, Zenon DEF TypeOK
  <1>8. \A k \in 1..MaxRuns : k # c + 1 => claim'[<<u, k>>] = claim[<<u, k>>]
    <2> TAKE k \in 1..MaxRuns
    <2>1. <<u, k>> \in Triggers BY ClaimNumbers, Zenon
    <2> QED BY <1>6, <2>1, Zenon DEF TypeOK
  <1>9. \A k \in 1..c : At(u, k)' = At(u, k) /\ claim'[<<u, k>>] = claim[<<u, k>>]
    <2>1. \A k \in 1..c : k \in 1..MaxRuns /\ k # c + 1 BY <1>5
    <2>2. \A k \in 1..c : claim'[<<u, k>>] = claim[<<u, k>>] BY <1>8, <2>1
    <2> QED BY <2>2 DEF At
  <1>10. /\ sched[u].policy \in DOMAIN policy /\ Since(u) \in Nat
         /\ sched[u].due = sched[u].observed + Every /\ sched[u].armed <= sched[u].observed
    BY <1>2, ApprovedType, ZenonT(30) DEF RecordOf, Dates, Since
  <1>11. Since(u)' = Since(u) BY <1>4, <1>10, PolicyGrows, Zenon DEF Since
  <1>12. now < sched[u].due + Every /\ now < Since(u) + Valid
    <2>1. ~(now >= sched[u].due + Every) /\ Current(u, now) BY <1>2 DEF Unclaimable
    <2>2. now < Since(u) + Valid BY <2>1, Zenon DEF Current, CurrentPolicy, Expires, Since
    <2> QED BY <1>5, <2>1, <2>2, ClaimNumbers
  <1>13. \A k \in 1..MaxRuns : claim'[<<u, k>>] # NoClaim <=> k <= c + 1
    <2> TAKE k \in 1..MaxRuns
    <2>1. CASE k = c + 1
      <3>1. claim'[<<u, k>>].at # 0 BY <1>7, <2>1, ClaimNumbers
      <3>2. claim'[<<u, k>>] # NoClaim BY <3>1 DEF NoClaim
      <3> QED BY <1>5, <2>1, <3>2
    <2>2. CASE k # c + 1
      <3>1. claim[<<u, k>>] # NoClaim <=> k <= c BY Zenon DEF ClaimsOf
      <3> QED BY <1>5, <1>8, <2>2, <3>1
    <2> QED BY <2>1, <2>2
  <1>14. \A k \in 1..c : At(u, k) <= sched[u].observed /\ At(u, k) \in Nat
    <2> TAKE k \in 1..c
    <2>1. ClaimOf(u, k) BY Zenon DEF ClaimsOf
    <2>2. At(u, k) <= sched[u].observed BY <1>2, <2>1, Zenon DEF ClaimOf, Live
    <2> QED BY <1>5, <2>2, ClaimNumbers, ZenonT(30)
  <1>15. sched[u].observed + Every <= now /\ sched[u].observed <= now /\ sched[u].armed + Every <= sched[u].due
    BY <1>2, <1>5, <1>10, ClaimNumbers
  <1>16. ASSUME NEW k \in 1..(c + 1) PROVE ClaimOf(u, k)'
    <2>1. CASE k = c + 1
      <3>1. claim'[<<u, k>>] = [due |-> sched[u].due, at |-> now] BY <1>7, <2>1, ZenonT(30)
      <3>2. claim'[<<u, k>>].due = sched[u].due /\ claim'[<<u, k>>].at = now BY <3>1
      <3>3. At(u, k)' = now BY <3>2 DEF At
      <3>4. /\ sched[u].due <= now /\ now < sched[u].due + Every /\ now <= now
            /\ sched[u].armed + Every <= sched[u].due /\ now < Since(u)' + Valid
        BY <1>2, <1>11, <1>12, <1>15, ClaimNumbers
      <3>5. sched'[u].armed = sched[u].armed /\ sched'[u].observed = now BY <1>4
      <3> QED BY <3>2, <3>3, <3>4, <3>5, ZenonT(30) DEF ClaimOf
    <2>2. CASE k # c + 1
      <3>1. k \in 1..c BY <1>5, <1>16, <2>2
      <3>2. ClaimOf(u, k) BY <3>1, Zenon DEF ClaimsOf
      <3>3. At(u, k) <= now BY <1>14, <1>15, <3>1, ClaimNumbers
      <3> QED BY <1>4, <1>9, <1>11, <3>1, <3>2, <3>3, ZenonT(30) DEF ClaimOf
    <2> QED BY <2>1, <2>2
  <1>17. ASSUME NEW j \in 1..(c + 1), NEW k \in 1..(c + 1), j < k PROVE At(u, j)' + Every <= At(u, k)'
    <2>1. j \in 1..c BY <1>5, <1>17
    <2>2. CASE k = c + 1
      <3>1. At(u, k)' = now BY <1>7, <2>2 DEF At
      <3>2. At(u, j)' = At(u, j) /\ At(u, j) \in Nat /\ At(u, j) <= sched[u].observed BY <1>9, <1>14, <2>1, ZenonT(30)
      <3>3. At(u, j) + Every <= now BY <1>5, <1>15, <3>2, ClaimNumbers
      <3> QED BY <3>1, <3>2, <3>3
    <2>3. CASE k # c + 1
      <3>1. k \in 1..c BY <1>5, <2>3
      <3>2. At(u, j) + Every <= At(u, k) BY <1>17, <2>1, <3>1, Zenon DEF ClaimsOf
      <3> QED BY <1>9, <2>1, <3>1, <3>2, ZenonT(30)
    <2> QED BY <2>2, <2>3
  <1>18. claim'[<<u, c + 1>>].at = now BY <1>7
  <1> HIDE DEF c
  <1> QED BY <1>4, <1>13, <1>16, <1>17, <1>18, ZenonT(30) DEF ClaimsOf, At

LEMMA ClaimsKept ==
    ASSUME TypeOK, NEW u \in Schedules, RecordOf(u), ClaimsOf(u), Next
    PROVE  ClaimsOf(u)'
  <1> DEFINE Good == ClaimsOf(u)'
  <1> SUFFICES Good OBVIOUS
  <1>0. Moves(u) BY Effect
  <1>1. sched[u] \in Records /\ now \in Nat /\ now # 0 /\ sched[u].observed \in Nat BY ClaimNumbers, Zenon DEF TypeOK
  <1>2. CASE sched[u].state = "none"
    <2>1. sched[u] = NoSchedule BY <1>2 DEF RecordOf
    <2>5. NoSchedule.claimed = 0 /\ NoSchedule.state = "none" BY Zenon DEF NoSchedule
    <2>6. \A k \in 1..MaxRuns : claim[<<u, k>>] = NoClaim
      <3>1. \A k \in 1..MaxRuns : claim[<<u, k>>] # NoClaim <=> k <= sched[u].claimed BY ZenonT(30) DEF ClaimsOf
      <3>2. sched[u].claimed = 0 BY <2>1, <2>5
      <3>3. \A k \in 1..MaxRuns : ~(k <= 0) BY ClaimNumbers
      <3> QED BY <3>1, <3>2, <3>3, ZenonT(30)
    <2>7. ASSUME sched'[u].claimed = 0, sched'[u].state # "inflight", SameClaims(u) PROVE Good
      <3>1. \A k \in 1..MaxRuns : claim'[<<u, k>>] = NoClaim BY <2>6, <2>7 DEF SameClaims
      <3>2. \A k \in 1..MaxRuns : ~(k <= 0) BY ClaimNumbers
      <3>3. \A k \in 1..MaxRuns : claim'[<<u, k>>] # NoClaim <=> k <= sched'[u].claimed BY <2>7, <3>1, <3>2
      <3>4. \A k \in 1..sched'[u].claimed : FALSE BY <2>7
      <3>5. \A k \in 1..sched'[u].claimed : ClaimOf(u, k)' BY <3>4, ZenonT(30)
      <3>6. \A j, k \in 1..sched'[u].claimed : j < k => At(u, j)' + Every <= At(u, k)' BY <3>4, ZenonT(30)
      <3> QED BY <2>7, <3>3, <3>5, <3>6, ZenonT(30) DEF ClaimsOf
    <2>2. CASE Kept(u)
      <3>1. sched'[u] = sched[u] /\ SameClaims(u) BY <2>2 DEF Kept
      <3>2. sched'[u].claimed = 0 /\ sched'[u].state # "inflight" BY <2>1, <2>5, <3>1
      <3> QED BY <2>7, <3>1, <3>2
    <2>3. CASE Enables(u)
      <3>1. sched'[u] = [NoSchedule EXCEPT !.state = "waiting", !.policy = Len(policy), !.armed = now,
                                           !.observed = now, !.due = now + Every]
        BY <2>3, MovedRecord, ZenonT(30)
      <3>2. sched'[u].claimed = 0 /\ sched'[u].state # "inflight" BY <3>1 DEF NoSchedule
      <3>3. SameClaims(u) BY <2>3 DEF Enables
      <3> QED BY <2>7, <3>2, <3>3
    <2>4. Kept(u) \/ Enables(u)
      <3>1. ~Ended(u) /\ ~Claims(u) /\ ~Exhausts(u) /\ ~Settles(u) /\ ~Stops(u) /\ ~Resolves(u)
        BY <1>2 DEF Ended, Live, Claims, Exhausts, Settles, Stops, Resolves
      <3>2. ~Begins(u) /\ ~Refuses(u) BY <1>2, Zenon DEF Begins, Refuses, Refused, Owns, Last
      <3> QED BY <1>0, <3>1, <3>2, ZenonT(30) DEF Moves
    <2> QED BY <2>2, <2>3, <2>4
  <1>3. CASE sched[u].state # "none"
    <2>1. CASE Kept(u)
      <3>1. sched'[u] = sched[u] /\ SameClaims(u) BY <2>1 DEF Kept
      <3>2. sched[u].state = "inflight" =>
              /\ sched[u].observed = IF sched[u].started = 0 THEN At(u, sched[u].claimed) ELSE sched[u].started
              /\ sched[u].started # 0 => sched[u].started < Since(u) + Valid
        BY Zenon DEF ClaimsOf
      <3>3. /\ sched'[u].claimed = sched[u].claimed /\ sched'[u].armed = sched[u].armed
            /\ sched'[u].policy = sched[u].policy /\ sched'[u].state = sched[u].state
            /\ sched'[u].observed = sched[u].observed /\ sched'[u].started = sched[u].started
        BY <3>1
      <3>4. sched'[u].observed \in Nat /\ sched[u].observed <= sched'[u].observed BY <3>3, ClaimNumbers
      <3>5. sched'[u].state = "inflight" =>
              /\ sched'[u].observed = IF sched'[u].started = 0 THEN At(u, sched[u].claimed) ELSE sched'[u].started
              /\ sched'[u].started # 0 => sched'[u].started < Since(u) + Valid
        BY <3>2, <3>3, Zenon
      <3> QED BY <1>1, <1>3, <3>1, <3>3, <3>4, <3>5, ClaimsStay, ZenonT(30)
    <2>2. CASE Ended(u) \/ Exhausts(u) \/ Refuses(u) \/ Stops(u) \/ Resolves(u)
      <3>1. /\ SameClaims(u) /\ sched'[u].claimed = sched[u].claimed /\ sched'[u].armed = sched[u].armed
            /\ sched'[u].policy = sched[u].policy /\ sched'[u].observed = now
            /\ sched'[u].state \in {"interrupted", "exhausted", "stopped", "resolved"}
        <4>1. CASE Ended(u) BY <1>1, <4>1 DEF Ended, Interrupted, Records
        <4>2. CASE Exhausts(u)
          <5>1. sched'[u] = [sched[u] EXCEPT !.state = "exhausted", !.observed = now, !.due = 0] BY <4>2, MovedRecord, ZenonT(30)
          <5>2. SameClaims(u) BY <4>2 DEF Exhausts
          <5> QED BY <1>1, <5>1, <5>2 DEF Records
        <4>3. CASE Refuses(u)
          <5>1. sched'[u] = [sched[u] EXCEPT !.state = "interrupted", !.due = 0, !.observed = now, !.refusal = TRUE]
            BY <4>3, MovedRecord, ZenonT(30) DEF Interrupted
          <5>2. SameClaims(u) BY <4>3 DEF Refuses
          <5> QED BY <1>1, <5>1, <5>2 DEF Records
        <4>4. CASE Stops(u)
          <5>1. sched'[u] = [sched[u] EXCEPT !.state = "stopped", !.stop = TRUE, !.observed = now, !.due = 0]
            BY <4>4, MovedRecord, ZenonT(30)
          <5>2. SameClaims(u) BY <4>4, Zenon DEF Stops
          <5> QED BY <1>1, <5>1, <5>2 DEF Records
        <4>5. CASE Resolves(u)
          <5>1. sched'[u] = [sched[u] EXCEPT !.state = "resolved", !.resolution = TRUE, !.observed = now]
            BY <4>5, MovedRecord, ZenonT(30)
          <5>2. SameClaims(u) BY <4>5, Zenon DEF Resolves
          <5> QED BY <1>1, <5>1, <5>2 DEF Records
        <4> QED BY <2>2, <4>1, <4>2, <4>3, <4>4, <4>5, ZenonT(30)
      <3>2. sched'[u].state \notin Live /\ sched'[u].state # "inflight" BY <3>1 DEF Live
      <3> QED BY <1>1, <1>3, <3>1, <3>2, ClaimsStay, ZenonT(30)
    <2>3. CASE Claims(u) BY <2>3, ClaimsNext
    <2>4. CASE Settles(u)
      <3>1. \/ sched'[u] = [sched[u] EXCEPT !.observed = now, !.trig = 0, !.started = 0, !.state = "exhausted"]
            \/ sched'[u] = [sched[u] EXCEPT !.observed = now, !.trig = 0, !.started = 0, !.state = "waiting", !.due = now + Every]
        BY <2>4, MovedRecord, ZenonT(30) DEF Settled
      <3>2. SameClaims(u) /\ sched[u].state \in Live /\ ~(now < sched[u].observed) BY <2>4 DEF Settles, Live
      <3>3. /\ sched'[u].claimed = sched[u].claimed /\ sched'[u].armed = sched[u].armed
            /\ sched'[u].policy = sched[u].policy /\ sched'[u].observed = now /\ sched'[u].state # "inflight"
        BY <1>1, <3>1, ZenonT(30) DEF Records
      <3>4. sched[u].observed <= now BY <1>1, <3>2
      <3> QED BY <1>1, <1>3, <3>2, <3>3, <3>4, ClaimsStay, ZenonT(30)
    <2>5. CASE Begins(u)
      <3>1. sched'[u] = [sched[u] EXCEPT !.observed = now, !.started = now] BY <2>5, MovedRecord, ZenonT(30)
      <3>2. SameClaims(u) /\ sched[u].state \in Live /\ now >= sched[u].observed /\ Current(u, now)
        BY <2>5 DEF Begins, Owns, Last, Live
      <3>3. now < Since(u) + Valid BY <3>2, Zenon DEF Current, CurrentPolicy, Expires, Since
      <3>4. /\ sched'[u].claimed = sched[u].claimed /\ sched'[u].armed = sched[u].armed /\ sched'[u].started = now
            /\ sched'[u].policy = sched[u].policy /\ sched'[u].observed = now /\ sched'[u].state = sched[u].state
        BY <1>1, <3>1 DEF Records
      <3>5. sched[u].observed <= now BY <1>1, <3>2
      <3> QED BY <1>1, <1>3, <3>2, <3>3, <3>4, <3>5, ClaimsStay, ZenonT(30)
    <2>6. ~Enables(u) BY <1>3 DEF Enables, NoSchedule
    <2> QED BY <1>0, <2>1, <2>2, <2>3, <2>4, <2>5, <2>6, ZenonT(30) DEF Moves
  <1> QED BY <1>2, <1>3

\* A schedule that is live after a step was live before it or is enabled by it.
LEMMA LiveMove ==
    ASSUME TypeOK, NEW u \in Schedules, RecordOf(u), Moves(u), sched'[u].state \in Live
    PROVE  sched[u].state \in Live \/ Enables(u)
  <1>0. sched[u] \in Records BY DEF TypeOK
  <1>1. CASE Kept(u) BY <1>1 DEF Kept
  <1>2. CASE Ended(u) BY <1>2 DEF Ended
  <1>3. CASE Claims(u) BY <1>3 DEF Claims, Live
  <1>4. CASE Exhausts(u) BY <1>4, Zenon DEF Exhausts, Live
  <1>5. CASE Settles(u) BY <1>5 DEF Settles, Live
  <1>6. CASE Begins(u) BY <1>6, Zenon DEF Begins, Owns, Last, Live
  <1>7. CASE Refuses(u) BY <1>7 DEF Refuses, Refused, Owns, Last, Live
  <1>8. CASE Enables(u) BY <1>8
  <1>9. CASE Stops(u)
    <2>1. sched'[u] = [sched[u] EXCEPT !.state = "stopped", !.stop = TRUE, !.observed = now, !.due = 0]
      BY <1>9, MovedRecord, Zenon
    <2>2. sched'[u].state = "stopped" BY <1>0, <2>1 DEF Records
    <2> QED BY <2>2 DEF Live
  <1>10. CASE Resolves(u)
    <2>1. sched'[u] = [sched[u] EXCEPT !.state = "resolved", !.resolution = TRUE, !.observed = now]
      BY <1>10, MovedRecord, Zenon
    <2>2. sched'[u].state = "resolved" BY <1>0, <2>1 DEF Records
    <2> QED BY <2>2 DEF Live
  <1> QED BY <1>1, <1>2, <1>3, <1>4, <1>5, <1>6, <1>7, <1>8, <1>9, <1>10, ZenonT(30) DEF Moves

\* What InterruptLive leaves is not live.
LEMMA InterruptEnds ==
    ASSUME TypeOK, NEW s \in Schedules, InterruptLive(s)
    PROVE  sched'[s].state \notin Live /\ \A u \in Schedules \ {s} : sched'[u] = sched[u]
  <1>1. sched \in [Schedules -> Records] /\ sched[s] \in Records BY DEF TypeOK
  <1>2. Interrupted(sched[s]).state = "interrupted" BY <1>1 DEF Interrupted, Records
  <1>3. CASE sched[s].state \in Live
    <2>1. sched' = [sched EXCEPT ![s] = Interrupted(sched[s])] BY <1>3 DEF InterruptLive
    <2> QED BY <1>1, <1>2, <2>1 DEF Live
  <1>4. CASE sched[s].state \notin Live BY <1>4 DEF InterruptLive
  <1> QED BY <1>3, <1>4

LEMMA ManagedStep ==
    ASSUME TypeOK, RecordInv, LiveIsManaged, Next
    PROVE  LiveIsManaged'
  <1> SUFFICES ASSUME NEW u \in Schedules, sched'[u].state \in Live PROVE u \in active'
    BY DEF LiveIsManaged
  <1> DEFINE Good == u \in active'
  <1> SUFFICES Good OBVIOUS
  <1>0. sched \in [Schedules -> Records] BY DEF TypeOK
  <1>1. CASE Enables(u) BY <1>1 DEF Enables
  <1>2. CASE ~Enables(u)
    <2>0. u \in active
      <3>1. sched[u].state \in Live BY <1>2, Effect, LiveMove DEF RecordInv
      <3> QED BY <3>1 DEF LiveIsManaged
    <2>1. CASE active \subseteq active' BY <2>0, <2>1
    <2>2. CASE \E s \in Schedules : sched'[s].state \notin Live /\ Remove(s)
      BY <2>0, <2>2 DEF Remove
    <2>3. CASE FinishClose \/ Restart
      <3>1. sched[u] \in Records BY <1>0
      <3>2. Interrupted(sched[u]).state \notin Live BY <3>1 DEF Interrupted, Records, Live
      <3>3. sched'[u].state \notin Live BY <2>0, <2>3, <3>2, Zenon DEF FinishClose, Restart
      <3> QED BY <3>3
    <2>4. ASSUME Work PROVE Good
      <3> DEFINE s == worker.id
      <3>1. s \in Schedules /\ worker.does \in {"claim", "settle", "interrupt"} BY <2>4, Zenon DEF TypeOK, Work, Works
      <3>2. UNCHANGED active \/ FailCheckpoint(s)
        <4>1. CASE worker.does = "claim"
          <5>1. ClaimDue(s) BY <2>4, <4>1 DEF Work
          <5> QED BY <5>1, Zenon DEF ClaimDue
        <4>2. CASE worker.does = "settle"
          <5>1. Settle(s) BY <2>4, <4>2 DEF Work
          <5> QED BY <5>1, Zenon DEF Settle
        <4>3. CASE worker.does = "interrupt" BY <2>4, <4>3 DEF Work
        <4> QED BY <3>1, <4>1, <4>2, <4>3
      <3>3. FailCheckpoint(s) => sched'[s].state \notin Live /\ Remove(s) BY <3>1, InterruptEnds DEF FailCheckpoint
      <3> QED BY <2>1, <2>2, <3>1, <3>2, <3>3
    <2>5. ASSUME NEW s \in Schedules, Timer(s) PROVE Good
      <3>1. CASE PollShaken(s)
        <4>1. InterruptLive(s) /\ Remove(s) BY <3>1 DEF PollShaken
        <4> QED BY <2>2, <4>1, InterruptEnds
      <3>2. CASE Poll(s)
        <4>1. sched' = sched BY <3>2, Zenon DEF Poll, journal
        <4>2. active' = active \/ (sched[s].state \notin Live /\ Remove(s)) BY <3>2, Zenon DEF Poll
        <4> QED BY <2>1, <2>2, <4>1, <4>2
      <3>3. CASE TakeClaim(s) \/ Join(s) BY <2>1, <3>3 DEF TakeClaim, Join, timer
      <3> QED BY <2>5, <3>1, <3>2, <3>3 DEF Timer
    <2>6. CASE Owner
      <3>1. ASSUME NEW s \in Schedules, Enable(s) PROVE Good
        <4>1. active \subseteq active' BY <3>1 DEF Enable
        <4> QED BY <2>1, <4>1
      <3>2. ASSUME NEW s \in Schedules, Stop(s) PROVE Good
        <4>1. Remove(s) /\ sched' = [sched EXCEPT ![s].state = "stopped", ![s].stop = TRUE,
                                                  ![s].observed = now, ![s].due = 0]
          BY <3>2, Zenon DEF Stop
        <4>2. sched'[s].state = "stopped" BY <1>0, <4>1 DEF Records
        <4> QED BY <2>2, <4>1, <4>2, Zenon DEF Live
      <3>3. ASSUME NEW s \in Schedules, ResolveRefusal(s) PROVE Good
        <4>1. Remove(s) /\ sched' = [sched EXCEPT ![s].state = "resolved", ![s].resolution = TRUE, ![s].observed = now]
          BY <3>3, Zenon DEF ResolveRefusal
        <4>2. sched'[s].state = "resolved" BY <1>0, <4>1 DEF Records
        <4> QED BY <2>2, <4>1, <4>2, Zenon DEF Live
      <3>4. CASE UNCHANGED active BY <2>1, <3>4
      <3>5. UNCHANGED active \/ \E s \in Schedules : Enable(s) \/ Stop(s) \/ ResolveRefusal(s)
        BY <2>6, Zenon DEF Owner, ApprovePolicy, RemoveDefinition, Revoke, StopCancels, ReserveManual, ExecuteManual,
                    Reserve, Start, Archive, timer
      <3> QED BY <3>1, <3>2, <3>3, <3>4, <3>5
    <2>7. CASE Close \/ AbortLaunches BY <2>1, <2>7 DEF Close, AbortLaunches, timer
    <2>8. CASE Tick \/ SetClock \/ SeeJump BY <2>1, <2>8, Zenon DEF Tick, SetClock, SeeJump, timer
    <2>9. ASSUME NEW s \in Schedules, Launch(s) PROVE Good
      BY <2>1, <2>9, Zenon DEF Launch, BeginLaunch, Submit, Compile, ReserveTrigger, Reserve, ExecuteTrigger, Start,
                        LaunchFails, LaunchTimeout, timer
    <2>10. ASSUME NEW j \in Jobs, Job(j) PROVE Good
      BY <2>1, <2>10, Zenon DEF Job, IssueGrant, JobEnds, Recover, Cancel, SetStatus, timer
    <2> QED BY <2>3, <2>4, <2>5, <2>6, <2>7, <2>8, <2>9, <2>10 DEF Next, Process
  <1> QED BY <1>1, <1>2

\* Two schedules of a definition are never live at once.
LEMMA OneLiveStep ==
    ASSUME TypeOK, RecordInv, LiveInv, Next
    PROVE  LiveInv'
  <1>1. LiveIsManaged' BY ManagedStep DEF LiveInv
  <1>2. ASSUME NEW s \in Schedules, NEW u \in Schedules, sched'[s].state \in Live, sched'[u].state \in Live
        PROVE  s = u
    <2>0. sched \in [Schedules -> Records] BY DEF TypeOK
    <2>1. sched[s].state \in Live \/ Enables(s) BY <1>2, Effect, LiveMove DEF RecordInv
    <2>2. sched[u].state \in Live \/ Enables(u) BY <1>2, Effect, LiveMove DEF RecordInv
    <2>3. ASSUME NEW x \in Schedules, NEW y \in Schedules, Enables(x), sched'[y].state \in Live PROVE y = x
      <3>1. sched[y].state \notin Live BY <2>3 DEF Enables, MayReplace
      <3>2. y # x => sched'[y] = sched[y] BY <2>0, <2>3 DEF Enables
      <3> QED BY <2>3, <3>1, <3>2
    <2>4. CASE Enables(s) BY <1>2, <2>3, <2>4
    <2>5. CASE Enables(u) BY <1>2, <2>3, <2>5
    <2>6. CASE sched[s].state \in Live /\ sched[u].state \in Live BY <2>6 DEF LiveInv
    <2> QED BY <2>1, <2>2, <2>4, <2>5, <2>6
  <1> QED BY <1>1, <1>2 DEF LiveInv

-----------------------------------------------------------------------------
(* What a step does to one job.                                            *)

SetsTo(j, st) == job'[j] = [job[j] EXCEPT !.status = st]

Admits(j) ==
    /\ j \in Triggers /\ Owns(j) /\ job[j] = NoJob /\ SetsTo(j, "review")
    /\ launch'[j[1]] = "review" /\ UNCHANGED <<sched, claim, occ>>
Compiles(j) == j \in Triggers /\ Owns(j) /\ job[j].status = "review" /\ SetsTo(j, "awaiting")
Reserves(j) == (j \in Triggers => Owns(j)) /\ job[j].status = "awaiting" /\ SetsTo(j, "approved")
Starts(j) == Fence(j) /\ job[j].status = "approved" /\ SetsTo(j, "running")
Issues(j) == Fence(j) /\ job[j].status = "running" /\ job'[j] = [job[j] EXCEPT !.issued = TRUE]
Ends(j) ==
    /\ job[j].status \in {"review", "awaiting", "approved", "running", "stopping", "interrupted"}
    /\ \E st \in {"stopping", "interrupted", "failed", "cancelled", "completed"} : SetsTo(j, st)

JobMoves(j) ==
    job'[j] = job[j] \/ Admits(j) \/ Compiles(j) \/ Reserves(j) \/ Starts(j) \/ Issues(j) \/ Ends(j)

\* The trigger in flight is the last one claimed.
LEMMA OwnsLast ==
    ASSUME TypeOK, NEW s \in Schedules, RecordOf(s), Owns(Last(s))
    PROVE  Last(s) \in Triggers
  <1>1. sched[s].state = "inflight" /\ sched[s].trig = sched[s].claimed BY DEF Owns, Last
  <1>2. sched[s].trig # 0 BY <1>1, ZenonT(30) DEF RecordOf, Dates
  <1>3. sched[s].claimed \in 1..MaxRuns BY <1>1, <1>2, ClaimNumbers
  <1> QED BY <1>3, ClaimNumbers, Zenon DEF Last

LEMMA CancelMoves ==
    ASSUME TypeOK, NEW j \in Jobs, NEW i, CanCancel(i), job' = [job EXCEPT ![i].status = AfterCancel(i)]
    PROVE  job'[j] = job[j] \/ Ends(j)
  <1>0. job \in [Jobs -> [status : Statuses, issued : BOOLEAN]] BY DEF TypeOK
  <1>1. CASE i # j BY <1>0, <1>1
  <1>2. CASE i = j
    <2>1. job'[j] = [job[j] EXCEPT !.status = AfterCancel(j)] BY <1>0, <1>2
    <2>2. AfterCancel(j) \in {"stopping", "cancelled"} BY DEF AfterCancel
    <2>3. job[j].status \in {"review", "awaiting", "approved", "running", "stopping", "interrupted"}
      BY <1>2 DEF CanCancel
    <2> QED BY <2>1, <2>2, <2>3, Zenon DEF Ends, SetsTo
  <1> QED BY <1>1, <1>2

LEMMA StatusMoves ==
    ASSUME TypeOK, NEW j \in Jobs, NEW i \in Jobs, Job(i)
    PROVE  JobMoves(j)
  <1>0. job \in [Jobs -> [status : Statuses, issued : BOOLEAN]] BY DEF TypeOK
  <1>1. CASE IssueGrant(i)
    <2>1. Fence(i) /\ job[i].status = "running" /\ job' = [job EXCEPT ![i].issued = TRUE] BY <1>1 DEF IssueGrant
    <2>2. CASE i # j BY <1>0, <2>1, <2>2 DEF JobMoves
    <2>3. CASE i = j BY <1>0, <2>1, <2>3 DEF JobMoves, Issues
    <2> QED BY <2>2, <2>3
  <1>2. CASE JobEnds(i) \/ Recover(i)
    <2>1. PICK st \in {"stopping", "interrupted", "failed", "cancelled", "completed"} :
              job' = [job EXCEPT ![i].status = st]
      BY <1>2, Zenon DEF JobEnds, Recover, SetStatus
    <2>2. job[i].status \in {"running", "stopping", "interrupted"} BY <1>2 DEF JobEnds, Recover
    <2>3. CASE i # j BY <1>0, <2>1, <2>3 DEF JobMoves
    <2>4. CASE i = j
      <3>1. SetsTo(j, st) BY <1>0, <2>1, <2>4 DEF SetsTo
      <3> QED BY <2>2, <2>4, <3>1 DEF JobMoves, Ends
    <2> QED BY <2>3, <2>4
  <1>3. CASE Cancel(i)
    <2>1. CanCancel(i) /\ job' = [job EXCEPT ![i].status = AfterCancel(i)] BY <1>3 DEF Cancel, SetStatus
    <2> QED BY <2>1, CancelMoves, Zenon DEF JobMoves
  <1> QED BY <1>1, <1>2, <1>3 DEF Job

LEMMA ReserveMoves ==
    ASSUME TypeOK, NEW j \in Jobs, NEW i, NEW p, Reserve(i, p), i \in Triggers => Owns(i)
    PROVE  JobMoves(j)
  <1>0. job \in [Jobs -> [status : Statuses, issued : BOOLEAN]] BY DEF TypeOK
  <1>1. job[i].status = "awaiting" /\ job' = [job EXCEPT ![i].status = "approved"] BY DEF Reserve
  <1>2. CASE i # j BY <1>0, <1>1, <1>2 DEF JobMoves
  <1>3. CASE i = j BY <1>0, <1>1, <1>3 DEF JobMoves, Reserves, SetsTo
  <1> QED BY <1>2, <1>3

LEMMA StartMoves ==
    ASSUME TypeOK, NEW j \in Jobs, NEW i, Start(i)
    PROVE  JobMoves(j)
  <1>0. job \in [Jobs -> [status : Statuses, issued : BOOLEAN]] BY DEF TypeOK
  <1>1. Fence(i) /\ job[i].status = "approved" /\ job' = [job EXCEPT ![i].status = "running"] BY DEF Start
  <1>2. CASE i # j BY <1>0, <1>1, <1>2 DEF JobMoves
  <1>3. CASE i = j BY <1>0, <1>1, <1>3 DEF JobMoves, Starts, SetsTo
  <1> QED BY <1>2, <1>3

\* Each step of a launch that touches a job: admission, compilation, reservation
\* and start.
LEMMA LaunchJobs ==
    ASSUME TypeOK, RecordInv, LaunchInv, NEW j \in Jobs, NEW s \in Schedules, Launch(s)
    PROVE  JobMoves(j)
  <1>0. job \in [Jobs -> [status : Statuses, issued : BOOLEAN]] BY DEF TypeOK
  <1>1. CASE BeginLaunch(s) \/ LaunchFails(s) \/ LaunchTimeout(s)
    BY <1>1, Zenon DEF BeginLaunch, LaunchFails, LaunchTimeout, JobMoves
  <1>2. CASE Submit(s)
    <2>1. /\ Owns(Last(s)) /\ launch[s] = "begun" /\ job' = [job EXCEPT ![Last(s)].status = "review"]
          /\ launch' = [launch EXCEPT ![s] = "review"] /\ UNCHANGED <<sched, claim, occ>>
      BY <1>2 DEF Submit, SourceAuthority, Advance
    <2>2. Last(s) \in Triggers /\ job[Last(s)] = NoJob BY <2>1, OwnsLast, Zenon DEF RecordInv, LaunchInv
    <2>3. CASE Last(s) # j BY <1>0, <2>1, <2>3 DEF JobMoves
    <2>4. CASE Last(s) = j
      <3>1. SetsTo(j, "review") BY <1>0, <2>1, <2>4 DEF SetsTo
      <3>2. j[1] = s /\ launch'[s] = "review" BY <2>1, <2>4 DEF Last, TypeOK
      <3> QED BY <2>1, <2>2, <2>4, <3>1, <3>2 DEF JobMoves, Admits
    <2> QED BY <2>3, <2>4
  <1>3. CASE Compile(s)
    <2>1. /\ Owns(Last(s)) /\ job[Last(s)].status = "review" /\ job' = [job EXCEPT ![Last(s)].status = "awaiting"]
      BY <1>3 DEF Compile, SourceAuthority
    <2>2. Last(s) \in Triggers BY <2>1, OwnsLast DEF RecordInv
    <2>3. CASE Last(s) # j BY <1>0, <2>1, <2>3 DEF JobMoves
    <2>4. CASE Last(s) = j
      <3>1. SetsTo(j, "awaiting") BY <1>0, <2>1, <2>4 DEF SetsTo
      <3> QED BY <2>1, <2>2, <2>4, <3>1 DEF JobMoves, Compiles
    <2> QED BY <2>3, <2>4
  <1>4. CASE ReserveTrigger(s)
    <2>1. Owns(Last(s)) /\ Reserve(Last(s), sched[s].policy) BY <1>4 DEF ReserveTrigger
    <2> QED BY <2>1, ReserveMoves
  <1>5. CASE ExecuteTrigger(s)
    <2>1. Start(Last(s)) BY <1>5 DEF ExecuteTrigger
    <2> QED BY <2>1, StartMoves
  <1> QED BY <1>1, <1>2, <1>3, <1>4, <1>5 DEF Launch

LEMMA JobEffect ==
    ASSUME TypeOK, RecordInv, LaunchInv, Next, NEW j \in Jobs
    PROVE  JobMoves(j)
  <1>0. job \in [Jobs -> [status : Statuses, issued : BOOLEAN]] BY DEF TypeOK
  <1>1. CASE UNCHANGED job BY <1>1 DEF JobMoves
  <1>2. ASSUME NEW t \in Triggers, StopCancels(t) PROVE JobMoves(j)
    <2>1. CASE CanCancel(t)
      <3>1. job' = [job EXCEPT ![t].status = AfterCancel(t)] BY <1>2, <2>1 DEF StopCancels
      <3> QED BY <2>1, <3>1, CancelMoves, Zenon DEF JobMoves
    <2>2. CASE ~CanCancel(t) BY <1>2, <2>2 DEF StopCancels, JobMoves
    <2> QED BY <2>1, <2>2
  <1>3. ASSUME NEW m \in Manual, ReserveManual(m) \/ ExecuteManual(m) PROVE JobMoves(j)
    <2>1. m \notin Triggers BY ManualAssumption
    <2>2. Reserve(m, Len(policy)) \/ Start(m) BY <1>3 DEF ReserveManual, ExecuteManual
    <2>3. CASE Reserve(m, Len(policy)) BY <2>1, <2>3, ReserveMoves
    <2>4. CASE Start(m) BY <2>4, StartMoves
    <2> QED BY <2>2, <2>3, <2>4
  <1>4. CASE Restart
    <2>1. CASE job[j].status \in {"running", "stopping"}
      <3>1. SetsTo(j, "interrupted") BY <1>4, <2>1 DEF Restart, SetsTo
      <3> QED BY <2>1, <3>1 DEF JobMoves, Ends
    <2>2. CASE job[j].status \notin {"running", "stopping"} BY <1>4, <2>2 DEF Restart, JobMoves
    <2> QED BY <2>1, <2>2
  <1>5. ASSUME NEW s \in Schedules, Launch(s) PROVE JobMoves(j) BY <1>5, LaunchJobs
  <1>6. ASSUME NEW i \in Jobs, Job(i) PROVE JobMoves(j) BY <1>6, StatusMoves
  <1>7. CASE Tick \/ SetClock \/ SeeJump \/ Work
    BY <1>1, <1>7, Zenon DEF Tick, SetClock, SeeJump, Work, journal
  <1>8. ASSUME NEW s \in Schedules, Timer(s) PROVE JobMoves(j)
    BY <1>1, <1>8, Zenon DEF Timer, PollShaken, Poll, TakeClaim, Join, journal
  <1>9. CASE Owner
    <2>1. \/ UNCHANGED job
          \/ \E t \in Triggers : StopCancels(t)
          \/ \E m \in Manual : ReserveManual(m) \/ ExecuteManual(m)
      BY <1>9, Zenon DEF Owner, ApprovePolicy, RemoveDefinition, Revoke, Enable, Stop, ResolveRefusal, Archive
    <2> QED BY <1>1, <1>2, <1>3, <2>1
  <1>10. CASE Close \/ FinishClose \/ AbortLaunches
    BY <1>1, <1>10, Zenon DEF Close, FinishClose, AbortLaunches, journal
  <1> QED BY <1>4, <1>5, <1>6, <1>7, <1>8, <1>9, <1>10 DEF Next, Process

\* Reservations are added by a reserving checkpoint and otherwise kept.
OccMoves ==
    \/ UNCHANGED occ
    \/ \E j \in Jobs, p \in DOMAIN policy : Reserve(j, p)
    \/ \E o \in occ : Archive(o)

LEMMA OccEffect ==
    ASSUME TypeOK, RecordInv, Next
    PROVE  OccMoves
  <1>1. ASSUME NEW j \in Jobs, NEW p, Reserve(j, p) PROVE OccMoves
    <2>1. p # 0 /\ p = Len(policy) BY <1>1 DEF Reserve, CurrentPolicy
    <2>2. p \in DOMAIN policy BY <2>1 DEF TypeOK
    <2> QED BY <1>1, <2>2 DEF OccMoves
  <1>2. ASSUME NEW s \in Schedules, ReserveTrigger(s) PROVE OccMoves
    <2>1. Owns(Last(s)) /\ Reserve(Last(s), sched[s].policy) BY <1>2 DEF ReserveTrigger
    <2>2. Last(s) \in Jobs BY <2>1, OwnsLast DEF RecordInv, Jobs
    <2> QED BY <1>1, <2>1, <2>2
  <1>3. ASSUME NEW m \in Manual, ReserveManual(m) PROVE OccMoves
    <2>1. m \in Jobs /\ Reserve(m, Len(policy)) BY <1>3 DEF ReserveManual, Jobs
    <2> QED BY <1>1, <2>1
  <1>4. CASE UNCHANGED occ BY <1>4 DEF OccMoves
  <1>5. CASE \E o \in occ : Archive(o) BY <1>5 DEF OccMoves
  <1>6. CASE Tick \/ SetClock \/ SeeJump \/ Work
    BY <1>4, <1>6, Zenon DEF Tick, SetClock, SeeJump, Work, journal
  <1>7. ASSUME NEW s \in Schedules, Timer(s) PROVE OccMoves
    BY <1>4, <1>7, Zenon DEF Timer, PollShaken, Poll, TakeClaim, Join, journal
  <1>8. ASSUME NEW s \in Schedules, Launch(s) PROVE OccMoves
    <2>1. UNCHANGED occ \/ ReserveTrigger(s)
      BY <1>8, Zenon DEF Launch, BeginLaunch, Submit, Compile, ExecuteTrigger, Start, LaunchFails, LaunchTimeout
    <2> QED BY <1>2, <1>4, <2>1
  <1>9. ASSUME NEW j \in Jobs, Job(j) PROVE OccMoves
    BY <1>4, <1>9, Zenon DEF Job, IssueGrant, JobEnds, Recover, Cancel, SetStatus
  <1>10. CASE Owner
    <2>1. UNCHANGED occ \/ (\E m \in Manual : ReserveManual(m)) \/ \E o \in occ : Archive(o)
      BY <1>10, Zenon DEF Owner, ApprovePolicy, RemoveDefinition, Revoke, Enable, Stop, ResolveRefusal, StopCancels, ExecuteManual,
                   Start
    <2> QED BY <1>3, <1>4, <1>5, <2>1
  <1>11. CASE Process
    BY <1>4, <1>11, Zenon DEF Process, Close, FinishClose, AbortLaunches, Restart, journal
  <1> QED BY <1>6, <1>7, <1>8, <1>9, <1>10, <1>11 DEF Next

\* Only a claim counts a trigger, and nothing else moves the count.
LEMMA ClaimedMove ==
    ASSUME TypeOK, NEW u \in Schedules, Moves(u)
    PROVE  sched'[u].claimed = sched[u].claimed \/ (Claims(u) /\ sched'[u].claimed = sched[u].claimed + 1)
  <1>0. sched[u] \in Records BY DEF TypeOK
  <1>1. CASE Kept(u) BY <1>1 DEF Kept
  <1>2. CASE Ended(u) BY <1>0, <1>2 DEF Ended, Interrupted, Records
  <1>3. CASE Claims(u)
    <2>1. sched'[u] = [sched[u] EXCEPT !.state = "inflight", !.observed = now, !.due = 0,
                                       !.trig = sched[u].claimed + 1, !.started = 0, !.claimed = sched[u].claimed + 1]
      BY <1>3, MovedRecord, Zenon
    <2>2. sched'[u].claimed = sched[u].claimed + 1 BY <1>0, <2>1 DEF Records
    <2> QED BY <1>3, <2>2
  <1>4. CASE Exhausts(u)
    <2>1. sched'[u] = [sched[u] EXCEPT !.state = "exhausted", !.observed = now, !.due = 0] BY <1>4, MovedRecord, Zenon
    <2> QED BY <1>0, <2>1 DEF Records
  <1>5. CASE Settles(u)
    <2>1. \/ sched'[u] = [sched[u] EXCEPT !.observed = now, !.trig = 0, !.started = 0, !.state = "exhausted"]
          \/ sched'[u] = [sched[u] EXCEPT !.observed = now, !.trig = 0, !.started = 0, !.state = "waiting", !.due = now + Every]
      BY <1>5, MovedRecord, Zenon DEF Settled
    <2> QED BY <1>0, <2>1, Zenon DEF Records
  <1>6. CASE Begins(u)
    <2>1. sched'[u] = [sched[u] EXCEPT !.observed = now, !.started = now] BY <1>6, MovedRecord, Zenon
    <2> QED BY <1>0, <2>1 DEF Records
  <1>7. CASE Refuses(u)
    <2>1. sched'[u] = [sched[u] EXCEPT !.state = "interrupted", !.due = 0, !.observed = now, !.refusal = TRUE]
      BY <1>7, MovedRecord, Zenon DEF Interrupted
    <2> QED BY <1>0, <2>1 DEF Records
  <1>8. CASE Enables(u)
    <2>1. sched'[u] = [NoSchedule EXCEPT !.state = "waiting", !.policy = Len(policy), !.armed = now,
                                         !.observed = now, !.due = now + Every]
      BY <1>8, MovedRecord, Zenon
    <2>2. sched[u] = NoSchedule BY <1>8 DEF Enables
    <2> QED BY <2>1, <2>2 DEF NoSchedule
  <1>9. CASE Stops(u)
    <2>1. sched'[u] = [sched[u] EXCEPT !.state = "stopped", !.stop = TRUE, !.observed = now, !.due = 0]
      BY <1>9, MovedRecord, Zenon
    <2> QED BY <1>0, <2>1 DEF Records
  <1>10. CASE Resolves(u)
    <2>1. sched'[u] = [sched[u] EXCEPT !.state = "resolved", !.resolution = TRUE, !.observed = now]
      BY <1>10, MovedRecord, Zenon
    <2> QED BY <1>0, <2>1 DEF Records
  <1> QED BY <1>1, <1>2, <1>3, <1>4, <1>5, <1>6, <1>7, <1>8, <1>9, <1>10, ZenonT(30) DEF Moves

\* What a step does to the worker's decision and to the launches.
Unlaunched == [s \in Schedules |-> "idle"]
PhaseMoves ==
    \/ UNCHANGED <<launch, worker>>
    \/ worker' = NoWork /\ (UNCHANGED launch \/ launch' = Unlaunched \/ \E s \in Schedules : launch' = [launch EXCEPT ![s] = "claimed"])
    \/ UNCHANGED worker /\ launch' = Unlaunched
    \/ UNCHANGED worker /\ \E s \in Schedules, ph \in Phases :
          launch[s] # "idle" /\ launch' = [launch EXCEPT ![s] = ph] /\ (ph = "begun" => BeginLaunch(s))
    \/ \E s \in Schedules : Poll(s)

LEMMA PhaseEffect ==
    ASSUME TypeOK, Next
    PROVE  PhaseMoves
  <1>1. CASE Tick \/ SetClock \/ SeeJump
    BY <1>1, Zenon DEF Tick, SetClock, SeeJump, timer, PhaseMoves
  <1>2. CASE Work
    <2> DEFINE s == worker.id
    <2>1. s \in Schedules /\ worker.does \in {"claim", "settle", "interrupt"} /\ worker' = NoWork
      BY <1>2 DEF TypeOK, Work, Works
    <2>2. UNCHANGED launch \/ SaveClaim(s)
      <3>1. CASE worker.does = "claim"
        <4>1. ClaimDue(s) BY <1>2, <3>1 DEF Work
        <4> QED BY <4>1, Zenon DEF ClaimDue, FailCheckpoint
      <3>2. CASE worker.does = "settle"
        <4>1. Settle(s) BY <1>2, <3>2 DEF Work
        <4> QED BY <4>1, Zenon DEF Settle, FailCheckpoint
      <3>3. CASE worker.does = "interrupt" BY <1>2, <3>3 DEF Work
      <3> QED BY <2>1, <3>1, <3>2, <3>3
    <2>3. SaveClaim(s) => launch' = [launch EXCEPT ![s] = "claimed"] BY Zenon DEF SaveClaim
    <2> QED BY <2>1, <2>2, <2>3 DEF PhaseMoves
  <1>3. ASSUME NEW s \in Schedules, Timer(s) PROVE PhaseMoves
    <2>1. CASE PollShaken(s) BY <2>1 DEF PollShaken, PhaseMoves
    <2>2. CASE Poll(s) BY <2>2 DEF PhaseMoves
    <2>3. CASE TakeClaim(s)
      <3>1. UNCHANGED worker /\ launch[s] = "claimed" BY <2>3 DEF TakeClaim, timer
      <3>2. PICK ph \in {"idle", "preflight"} : launch' = [launch EXCEPT ![s] = ph] BY <2>3, Zenon DEF TakeClaim
      <3>3. ph \in Phases /\ ph # "begun" BY <3>2 DEF Phases
      <3> QED BY <3>1, <3>2, <3>3, Zenon DEF PhaseMoves
    <2>4. CASE Join(s)
      <3>1. UNCHANGED worker /\ launch[s] = "done" /\ launch' = [launch EXCEPT ![s] = "idle"]
        BY <2>4 DEF Join, Advance, timer
      <3> QED BY <3>1, Zenon DEF PhaseMoves, Phases
    <2> QED BY <1>3, <2>1, <2>2, <2>3, <2>4 DEF Timer
  <1>4. ASSUME NEW s \in Schedules, Launch(s) PROVE PhaseMoves
    <2>1. UNCHANGED worker /\ launch[s] # "idle"
      BY <1>4, Zenon DEF Launch, BeginLaunch, Submit, Compile, ReserveTrigger, Reserve, ExecuteTrigger, Start, LaunchFails,
                  LaunchTimeout, Advance, timer
    <2>2. \E ph \in Phases : launch' = [launch EXCEPT ![s] = ph] /\ (ph = "begun" => BeginLaunch(s))
      BY <1>4, Zenon DEF Launch, Submit, BeginLaunch, Compile, ReserveTrigger, ExecuteTrigger, LaunchFails, LaunchTimeout, Advance, Phases
    <2> QED BY <2>1, <2>2, ZenonT(30) DEF PhaseMoves
  <1>5. ASSUME NEW j \in Jobs, Job(j) PROVE PhaseMoves
    BY <1>5, Zenon DEF Job, IssueGrant, JobEnds, Recover, Cancel, SetStatus, timer, PhaseMoves
  <1>6. CASE Owner
    BY <1>6, Zenon DEF Owner, ApprovePolicy, RemoveDefinition, Revoke, Enable, Stop, ResolveRefusal, StopCancels, ReserveManual,
                ExecuteManual, Reserve, Start, Archive, timer, PhaseMoves
  <1>7. CASE Process
    BY <1>7, Zenon DEF Process, Close, FinishClose, AbortLaunches, Restart, timer, PhaseMoves, Unlaunched
  <1> QED BY <1>1, <1>2, <1>3, <1>4, <1>5, <1>6, <1>7 DEF Next

\* The worker has work only for a schedule that launches nothing.
LEMMA WorkerStep ==
    ASSUME TypeOK, LaunchInv, Next
    PROVE  worker' # NoWork => launch'[worker'.id] = "idle"
  <1> DEFINE Good == worker' # NoWork => launch'[worker'.id] = "idle"
  <1> SUFFICES Good OBVIOUS
  <1>0. /\ worker # NoWork => worker.id \in Schedules /\ launch[worker.id] = "idle"
        /\ launch \in [Schedules -> Phases]
    BY Zenon DEF LaunchInv, TypeOK, Works
  <1>1. CASE UNCHANGED <<launch, worker>> BY <1>0, <1>1
  <1>2. CASE worker' = NoWork BY <1>2
  <1>3. CASE UNCHANGED worker /\ launch' = Unlaunched BY <1>0, <1>3 DEF Unlaunched
  <1>4. CASE UNCHANGED worker /\ \E s \in Schedules, ph \in Phases :
                 launch[s] # "idle" /\ launch' = [launch EXCEPT ![s] = ph]
    BY <1>0, <1>4
  <1>5. ASSUME NEW s \in Schedules, Poll(s) PROVE Good
    <2>1. CASE sched[s].state \in Live
      <3>1. worker' = [id |-> s, does |-> Decision(s), trig |-> sched[s].trig] /\ UNCHANGED launch
        BY <1>5, <2>1, Zenon DEF Poll
      <3>2. launch[s] = "idle" BY <1>5, Zenon DEF Poll, LoopIsFree, Launching
      <3> QED BY <3>1, <3>2
    <2>2. CASE sched[s].state \notin Live BY <1>0, <1>5, <2>2, Zenon DEF Poll
    <2> QED BY <2>1, <2>2
  <1>6. PhaseMoves BY PhaseEffect
  <1> QED BY <1>1, <1>2, <1>3, <1>4, <1>5, <1>6, Zenon DEF PhaseMoves

\* A launch has begun after a step only if it had before or this step begins it.
LEMMA BegunMove ==
    ASSUME TypeOK, Next, NEW u \in Schedules, launch'[u] = "begun"
    PROVE  launch[u] = "begun" \/ BeginLaunch(u)
  <1> DEFINE Good == launch[u] = "begun" \/ BeginLaunch(u)
  <1> SUFFICES Good OBVIOUS
  <1>0. launch \in [Schedules -> Phases] BY DEF TypeOK
  <1>1. CASE UNCHANGED launch BY <1>1
  <1>2. CASE launch' = Unlaunched BY <1>2 DEF Unlaunched
  <1>3. CASE \E s \in Schedules : launch' = [launch EXCEPT ![s] = "claimed"] BY <1>0, <1>3
  <1>4. ASSUME NEW s \in Schedules, NEW ph \in Phases,
               launch' = [launch EXCEPT ![s] = ph], ph = "begun" => BeginLaunch(s)
        PROVE  Good
    <2>1. CASE u = s BY <1>0, <1>4, <2>1
    <2>2. CASE u # s BY <1>0, <1>4, <2>2
    <2> QED BY <2>1, <2>2
  <1>5. ASSUME NEW s \in Schedules, Poll(s) PROVE Good BY <1>5, Zenon DEF Poll
  <1>6. PhaseMoves BY PhaseEffect
  <1> QED BY <1>1, <1>2, <1>3, <1>4, <1>5, <1>6, ZenonT(30) DEF PhaseMoves

\* A begun launch has claimed its trigger and has no job yet.
LEMMA BegunStep ==
    ASSUME TypeOK, RecordInv, LaunchInv, Next, NEW s \in Schedules, launch'[s] = "begun"
    PROVE  sched'[s].claimed # 0 /\ job'[<<s, sched'[s].claimed>>] = NoJob
  <1>0. Moves(s) /\ sched[s] \in Records /\ launch \in [Schedules -> Phases] BY Effect, Zenon DEF TypeOK
  <1>1. CASE BeginLaunch(s)
    <2>1. /\ Owns(Last(s)) /\ job[Last(s)] = NoJob /\ UNCHANGED job
          /\ sched' = [sched EXCEPT ![s].observed = now, ![s].started = now]
      BY <1>1 DEF BeginLaunch
    <2>2. sched'[s].claimed = sched[s].claimed BY <1>0, <2>1, Zenon DEF TypeOK, Records
    <2>3. sched[s].trig = sched[s].claimed /\ sched[s].trig # 0
      BY <2>1, Zenon DEF Owns, Last, RecordInv, RecordOf, Dates
    <2> QED BY <2>1, <2>2, <2>3, Zenon DEF Last
  <1>2. CASE launch[s] = "begun"
    <2>1. sched[s].claimed # 0 /\ job[Last(s)] = NoJob BY <1>2, Zenon DEF LaunchInv
    <2>2. ~Claims(s)
      <3>1. Claims(s) => launch'[s] = "claimed" BY <1>0, Zenon DEF Claims, SaveClaim
      <3> QED BY <3>1
    <2>3. sched'[s].claimed = sched[s].claimed BY <1>0, <2>2, ClaimedMove
    <2>4. Last(s) \in Triggers
      <3>1. sched[s].claimed \in 1..MaxRuns BY <2>1, ClaimNumbers
      <3> QED BY <3>1, ClaimNumbers, Zenon DEF Last
    <2>5. JobMoves(Last(s)) BY <2>4, JobEffect DEF Jobs
    <2>6. ~Admits(Last(s))
      <3>1. Admits(Last(s)) => launch'[s] = "review" BY DEF Admits, Last
      <3> QED BY <3>1
    <2>7. job'[Last(s)] = job[Last(s)]
      BY <2>1, <2>5, <2>6 DEF JobMoves, Compiles, Reserves, Starts, Issues, Ends, NoJob
    <2> QED BY <2>1, <2>3, <2>7 DEF Last
  <1> QED BY <1>1, <1>2, BegunMove

\* Jobs are those of claimed triggers.
LEMMA JobClaimedStep ==
    ASSUME TypeOK, RecordInv, LaunchInv, Next, NEW s \in Schedules, NEW k \in 1..MaxRuns, job'[<<s, k>>] # NoJob
    PROVE  k <= sched'[s].claimed
  <1>0. Moves(s) /\ <<s, k>> \in Triggers /\ <<s, k>> \in Jobs BY Effect, ClaimNumbers, Zenon DEF Jobs
  <1>1. sched[s].claimed \in Nat /\ sched[s].claimed <= sched'[s].claimed
    <2>1. sched[s].claimed \in Nat BY ClaimNumbers, Zenon
    <2>2. sched'[s].claimed = sched[s].claimed \/ sched'[s].claimed = sched[s].claimed + 1 BY <1>0, ClaimedMove
    <2> QED BY <2>1, <2>2
  <1>2. k <= sched[s].claimed
    <2>1. CASE job[<<s, k>>] # NoJob BY <2>1, Zenon DEF LaunchInv
    <2>2. CASE job[<<s, k>>] = NoJob
      <3>1. Admits(<<s, k>>)
        <4>1. JobMoves(<<s, k>>) BY <1>0, JobEffect
        <4>2. job[<<s, k>>].status = "none" BY <2>2 DEF NoJob
        <4> QED BY <2>2, <4>1, <4>2 DEF JobMoves, Compiles, Reserves, Starts, Issues, Ends
      <3>2. sched[s].state = "inflight" /\ sched[s].trig = k BY <3>1 DEF Admits, Owns
      <3>3. k \in {0, sched[s].claimed} BY <3>2, ZenonT(30) DEF RecordInv, RecordOf, Dates
      <3> QED BY <3>3, ClaimNumbers
    <2> QED BY <2>1, <2>2
  <1>3. k \in Nat OBVIOUS
  <1>4. sched'[s].claimed \in Nat BY <1>0, <1>1, ClaimedMove
  <1> QED BY <1>1, <1>2, <1>3, <1>4

\* A job keeps what it has passed: it never becomes unreserved again.
Early == {"none", "review", "awaiting"}

LEMMA EarlyMove ==
    ASSUME TypeOK, NEW j \in Jobs, JobMoves(j)
    PROVE  /\ job[j].status \notin Early => job'[j].status \notin Early
           /\ job'[j].status \in Early \cup {"approved"} =>
                 job[j].status \in Early \cup {"approved"} /\ job'[j].issued = job[j].issued
  <1>0. job[j] \in [status : Statuses, issued : BOOLEAN] BY DEF TypeOK
  <1>1. CASE job'[j] = job[j] BY <1>1
  <1>2. CASE Admits(j) BY <1>0, <1>2 DEF Admits, SetsTo, NoJob, Early
  <1>3. CASE Compiles(j) BY <1>0, <1>3 DEF Compiles, SetsTo, Early
  <1>4. CASE Reserves(j) BY <1>0, <1>4 DEF Reserves, SetsTo, Early
  <1>5. CASE Starts(j) BY <1>0, <1>5 DEF Starts, SetsTo, Early
  <1>6. CASE Issues(j) BY <1>0, <1>6 DEF Issues, Early
  <1>7. CASE Ends(j) BY <1>0, <1>7 DEF Ends, SetsTo, Early
  <1> QED BY <1>1, <1>2, <1>3, <1>4, <1>5, <1>6, <1>7, ZenonT(30) DEF JobMoves

\* Every reservation was made under a policy, for a job compiled before.
LEMMA ReservedStep ==
    ASSUME TypeOK, RecordInv, LaunchInv, Next, NEW o \in occ'
    PROVE  o.policy \in DOMAIN policy' /\ job'[o.job].status \notin Early
  <1> DEFINE Good == o.policy \in DOMAIN policy' /\ job'[o.job].status \notin Early
  <1> SUFFICES Good OBVIOUS
  <1>0. OccMoves BY OccEffect
  <1>1. ASSUME NEW x \in occ, o.policy = x.policy, o.job = x.job PROVE Good
    <2>1. x.policy \in DOMAIN policy /\ job[x.job].status \notin Early BY Zenon DEF LaunchInv, Early
    <2>2. x.job \in Jobs BY DEF TypeOK, Reservations
    <2>3. JobMoves(x.job) BY <2>2, JobEffect
    <2>4. job'[x.job].status \notin Early BY <2>1, <2>2, <2>3, EarlyMove, Zenon
    <2> QED BY <1>1, <2>1, <2>4, PolicyGrows
  <1>2. CASE o \in occ BY <1>1, <1>2
  <1>3. ASSUME NEW j \in Jobs, NEW p \in DOMAIN policy, Reserve(j, p), o \notin occ PROVE Good
    <2>1. o = [policy |-> p, job |-> j, archived |-> FALSE] BY <1>3 DEF Reserve
    <2>2. job' = [job EXCEPT ![j].status = "approved"] BY <1>3 DEF Reserve
    <2>3. job'[j].status = "approved" BY <2>2 DEF TypeOK
    <2> QED BY <2>1, <2>3, PolicyGrows DEF Early
  <1>4. ASSUME NEW x \in occ, Archive(x), o \notin occ PROVE Good
    <2>1. o = [x EXCEPT !.archived = TRUE] BY <1>4 DEF Archive
    <2>2. x \in Reservations BY DEF TypeOK
    <2>3. o.policy = x.policy /\ o.job = x.job BY <2>1, <2>2 DEF Reservations
    <2> QED BY <1>1, <2>3
  <1> QED BY <1>0, <1>2, <1>3, <1>4, ZenonT(30) DEF OccMoves

LEMMA LaunchStep ==
    ASSUME TypeOK, RecordInv, LaunchInv, Next
    PROVE  LaunchInv'
  <1>1. worker' # NoWork => launch'[worker'.id] = "idle" BY WorkerStep
  <1>2. \A s \in Schedules : launch'[s] = "begun" => sched'[s].claimed # 0 /\ job'[<<s, sched'[s].claimed>>] = NoJob
    BY BegunStep
  <1>3. \A s \in Schedules, k \in 1..MaxRuns : job'[<<s, k>>] # NoJob => k <= sched'[s].claimed
    BY JobClaimedStep
  <1>4. \A o \in occ' : o.policy \in DOMAIN policy' /\ job'[o.job].status \notin {"none", "review", "awaiting"}
    BY ReservedStep DEF Early
  <1>5. ASSUME NEW j \in Jobs, job'[j].status \in {"none", "review", "awaiting", "approved"} PROVE ~job'[j].issued
    <2>1. job'[j].status \in Early \cup {"approved"} BY <1>5 DEF Early
    <2>2. job[j].status \in Early \cup {"approved"} /\ job'[j].issued = job[j].issued BY <2>1, EarlyMove, JobEffect
    <2> QED BY <2>2, Zenon DEF LaunchInv, Early
  <1> QED BY <1>1, <1>2, <1>3, <1>4, <1>5, Zenon DEF LaunchInv, Last

\* Only a recorded refusal sets the flag.
LEMMA RefusalMove ==
    ASSUME TypeOK, NEW u \in Schedules, Moves(u), sched'[u].refusal
    PROVE  sched[u].refusal \/ Refuses(u)
  <1>0. sched[u] \in Records BY DEF TypeOK
  <1>1. CASE Kept(u) BY <1>1 DEF Kept
  <1>2. CASE Ended(u) BY <1>0, <1>2 DEF Ended, Interrupted, Records
  <1>3. CASE Claims(u)
    <2>1. sched'[u] = [sched[u] EXCEPT !.state = "inflight", !.observed = now, !.due = 0,
                                       !.trig = sched[u].claimed + 1, !.started = 0, !.claimed = sched[u].claimed + 1]
      BY <1>3, MovedRecord, ZenonT(30)
    <2> QED BY <1>0, <2>1 DEF Records
  <1>4. CASE Exhausts(u)
    <2>1. sched'[u] = [sched[u] EXCEPT !.state = "exhausted", !.observed = now, !.due = 0] BY <1>4, MovedRecord, ZenonT(30)
    <2> QED BY <1>0, <2>1 DEF Records
  <1>5. CASE Settles(u)
    <2>1. \/ sched'[u] = [sched[u] EXCEPT !.observed = now, !.trig = 0, !.started = 0, !.state = "exhausted"]
          \/ sched'[u] = [sched[u] EXCEPT !.observed = now, !.trig = 0, !.started = 0, !.state = "waiting", !.due = now + Every]
      BY <1>5, MovedRecord, ZenonT(30) DEF Settled
    <2> QED BY <1>0, <2>1, ZenonT(30) DEF Records
  <1>6. CASE Begins(u)
    <2>1. sched'[u] = [sched[u] EXCEPT !.observed = now, !.started = now] BY <1>6, MovedRecord, ZenonT(30)
    <2> QED BY <1>0, <2>1 DEF Records
  <1>7. CASE Refuses(u) BY <1>7
  <1>8. CASE Enables(u)
    <2>1. sched'[u] = [NoSchedule EXCEPT !.state = "waiting", !.policy = Len(policy), !.armed = now,
                                         !.observed = now, !.due = now + Every]
      BY <1>8, MovedRecord, ZenonT(30)
    <2> QED BY <2>1 DEF NoSchedule
  <1>9. CASE Stops(u)
    <2>1. sched'[u] = [sched[u] EXCEPT !.state = "stopped", !.stop = TRUE, !.observed = now, !.due = 0]
      BY <1>9, MovedRecord, ZenonT(30)
    <2> QED BY <1>0, <2>1 DEF Records
  <1>10. CASE Resolves(u) BY <1>10, Zenon DEF Resolves
  <1> QED BY <1>1, <1>2, <1>3, <1>4, <1>5, <1>6, <1>7, <1>8, <1>9, <1>10, ZenonT(30) DEF Moves

LEMMA RefusalStep ==
    ASSUME TypeOK, RecordInv, LaunchInv, RefusalIsTrue, Next
    PROVE  RefusalIsTrue'
  <1> SUFFICES ASSUME NEW s \in Schedules, sched'[s].refusal
               PROVE  job'[<<s, sched'[s].claimed>>] = NoJob /\ \A o \in occ' : o.job # <<s, sched'[s].claimed>>
    BY Zenon DEF RefusalIsTrue, Last
  <1>0. Moves(s) /\ sched[s] \in Records /\ RecordOf(s) BY Effect, Zenon DEF TypeOK, RecordInv
  <1>1. /\ job[Last(s)] = NoJob /\ sched[s].state # "waiting" /\ sched[s].trig # 0 /\ sched[s].trig \in {0, sched[s].claimed}
        /\ Owns(Last(s)) => Refuses(s)
    <2>1. CASE sched[s].refusal
      <3>1. sched[s].state # "none"
        <4>1. sched[s].state = "none" => sched[s] = NoSchedule BY <1>0 DEF RecordOf
        <4>2. ~NoSchedule.refusal BY Zenon DEF NoSchedule
        <4> QED BY <2>1, <4>1, <4>2
      <3>2. /\ sched[s].trig # 0 /\ sched[s].state \in {"interrupted", "stopped", "resolved"}
            /\ sched[s].trig \in {0, sched[s].claimed}
        BY <1>0, <2>1, <3>1, ZenonT(30) DEF RecordOf, Flags, Dates
      <3> QED BY <2>1, <3>2, ZenonT(30) DEF RefusalIsTrue, Owns, Last
    <2>2. CASE ~sched[s].refusal
      <3>1. Refuses(s) BY <1>0, <2>2, RefusalMove, ZenonT(30)
      <3>2. Owns(Last(s)) /\ job[Last(s)] = NoJob /\ sched[s].state = "inflight"
        BY <3>1 DEF Refuses, Refused, Owns, Last
      <3> QED BY <1>0, <3>1, <3>2, ZenonT(30) DEF RecordOf, Dates
    <2> QED BY <2>1, <2>2, ZenonT(30)
  <1>2. sched'[s].claimed = sched[s].claimed
    <2>1. ~Claims(s) BY <1>1, Zenon DEF Claims
    <2> QED BY <1>0, <2>1, ClaimedMove
  <1>3. Last(s) \in Triggers
    <2>1. sched[s].claimed \in 1..MaxRuns BY <1>1, ClaimNumbers
    <2> QED BY <2>1, ClaimNumbers, Zenon DEF Last
  <1>4. ~Admits(Last(s))
    <2> SUFFICES ASSUME Admits(Last(s)) PROVE FALSE OBVIOUS
    <2>1. Owns(Last(s)) /\ UNCHANGED sched BY DEF Admits
    <2>2. Refuses(s) /\ sched[s].state = "inflight" BY <1>1, <2>1, Zenon DEF Owns, Last
    <2>3. sched'[s] = [sched[s] EXCEPT !.state = "interrupted", !.due = 0, !.observed = now, !.refusal = TRUE]
      BY <2>2, MovedRecord, ZenonT(30) DEF Interrupted
    <2>4. sched'[s].state = "interrupted" BY <1>0, <2>3 DEF Records
    <2> QED BY <2>1, <2>2, <2>4
  <1>5. job'[Last(s)] = NoJob
    <2>1. JobMoves(Last(s)) BY <1>3, JobEffect DEF Jobs
    <2>2. job[Last(s)].status = "none" BY <1>1 DEF NoJob
    <2> QED BY <1>1, <1>4, <2>1, <2>2 DEF JobMoves, Compiles, Reserves, Starts, Issues, Ends
  <1>6. \A o \in occ' : o.job # Last(s)
    <2> TAKE o \in occ'
    <2>1. job'[o.job].status \notin Early BY ReservedStep
    <2> QED BY <1>5, <2>1 DEF NoJob, Early
  <1> QED BY <1>2, <1>5, <1>6 DEF Last

-----------------------------------------------------------------------------
(* One claim at a time.                                                    *)

\* A resolved claim stays resolved.
LEMMA ResolvedStays ==
    ASSUME TypeOK, RecordInv, LaunchInv, Next, NEW t \in Triggers, ResolvedClaim(t)
    PROVE  ResolvedClaim(t)'
  <1>0. t[1] \in Schedules BY DEF Triggers
  <1>1. CASE Resolved(t)
    <2>1. JobMoves(t) BY JobEffect DEF Jobs
    <2>2. job[t].status \in {"completed", "cancelled"} BY <1>1 DEF Resolved
    <2>3. job'[t] = job[t]
      BY <2>1, <2>2 DEF JobMoves, Admits, Compiles, Reserves, Starts, Issues, Ends, NoJob
    <2> QED BY <1>1, <2>3, Zenon DEF Resolved, ResolvedClaim
  <1>2. CASE sched[t[1]].resolution /\ sched[t[1]].trig = t[2]
    <2> DEFINE s == t[1]
    <2>1. RecordOf(s) /\ Moves(s) BY <1>0, Effect DEF RecordInv
    <2>2. sched[s].state = "resolved"
      <3>1. sched[s].state = "none" => sched[s] = NoSchedule BY <2>1 DEF RecordOf
      <3>2. ~NoSchedule.resolution BY Zenon DEF NoSchedule
      <3>3. sched[s].state # "none" BY <1>2, <3>1, <3>2
      <3>4. Flags(sched[s]) BY <2>1, <3>3, ZenonT(30) DEF RecordOf
      <3> QED BY <1>2, <3>4, Zenon DEF Flags
    <2>3. sched'[s] = sched[s]
      <3>1. ~Ended(s) /\ ~Claims(s) /\ ~Exhausts(s) /\ ~Settles(s) /\ ~Stops(s) /\ ~Resolves(s)
        BY <1>2, <2>2 DEF Ended, Live, Claims, Exhausts, Settles, Stops, Resolves
      <3>2. ~Begins(s) /\ ~Refuses(s) BY <2>2, Zenon DEF Begins, Refuses, Refused, Owns, Last
      <3>3. ~Enables(s) BY <2>2 DEF Enables, NoSchedule
      <3> QED BY <2>1, <3>1, <3>2, <3>3, ZenonT(30) DEF Moves, Kept
    <2> QED BY <1>2, <2>3, Zenon DEF ResolvedClaim
  <1> QED BY <1>1, <1>2, Zenon DEF ResolvedClaim

\* How a schedule comes to wait or to be in flight without a claim.
LEMMA WaitMove ==
    ASSUME TypeOK, NEW u \in Schedules, Moves(u), ~Claims(u)
    PROVE  /\ sched'[u].state = "waiting" => sched[u].state = "waiting" \/ Settles(u) \/ Enables(u)
           /\ sched'[u].state = "inflight" => sched[u].state = "inflight" /\ sched'[u].trig = sched[u].trig
  <1>0. sched[u] \in Records BY DEF TypeOK
  <1>1. CASE Kept(u) BY <1>1 DEF Kept
  <1>2. CASE Ended(u) BY <1>0, <1>2 DEF Ended, Interrupted, Records
  <1>3. CASE Exhausts(u)
    <2>1. sched'[u] = [sched[u] EXCEPT !.state = "exhausted", !.observed = now, !.due = 0] BY <1>3, MovedRecord, ZenonT(30)
    <2> QED BY <1>0, <2>1 DEF Records
  <1>4. CASE Settles(u)
    <2>1. \/ sched'[u] = [sched[u] EXCEPT !.observed = now, !.trig = 0, !.started = 0, !.state = "exhausted"]
          \/ sched'[u] = [sched[u] EXCEPT !.observed = now, !.trig = 0, !.started = 0, !.state = "waiting", !.due = now + Every]
      BY <1>4, MovedRecord, Zenon DEF Settled
    <2>2. sched'[u].state # "inflight" BY <1>0, <2>1, Zenon DEF Records
    <2> QED BY <1>4, <2>2
  <1>5. CASE Begins(u)
    <2>1. sched'[u] = [sched[u] EXCEPT !.observed = now, !.started = now] BY <1>5, MovedRecord, Zenon
    <2> QED BY <1>0, <2>1 DEF Records
  <1>6. CASE Refuses(u)
    <2>1. sched'[u] = [sched[u] EXCEPT !.state = "interrupted", !.due = 0, !.observed = now, !.refusal = TRUE]
      BY <1>6, MovedRecord, ZenonT(30) DEF Interrupted
    <2> QED BY <1>0, <2>1 DEF Records
  <1>7. CASE Enables(u)
    <2>1. sched'[u] = [NoSchedule EXCEPT !.state = "waiting", !.policy = Len(policy), !.armed = now,
                                         !.observed = now, !.due = now + Every]
      BY <1>7, MovedRecord, Zenon
    <2>2. sched'[u].state # "inflight" BY <2>1 DEF NoSchedule
    <2> QED BY <1>7, <2>2
  <1>8. CASE Stops(u)
    <2>1. sched'[u] = [sched[u] EXCEPT !.state = "stopped", !.stop = TRUE, !.observed = now, !.due = 0]
      BY <1>8, MovedRecord, Zenon
    <2> QED BY <1>0, <2>1 DEF Records
  <1>9. CASE Resolves(u)
    <2>1. sched'[u] = [sched[u] EXCEPT !.state = "resolved", !.resolution = TRUE, !.observed = now]
      BY <1>9, MovedRecord, ZenonT(30)
    <2> QED BY <1>0, <2>1 DEF Records
  <1> QED BY <1>1, <1>2, <1>3, <1>4, <1>5, <1>6, <1>7, <1>8, <1>9, ZenonT(30) DEF Moves

\* A step adds at most the next trigger of the schedule it claims for.
LEMMA ClaimedGrows ==
    ASSUME TypeOK, Next, NEW t \in Claimed'
    PROVE  t \in Triggers /\ (t \in Claimed \/ (Claims(t[1]) /\ t = <<t[1], sched[t[1]].claimed + 1>>))
  <1>1. t \in Triggers /\ claim'[t] # NoClaim BY DEF Claimed, Triggers
  <1>2. PICK s \in Schedules, k \in 1..MaxRuns : t = <<s, k>> BY <1>1 DEF Triggers
  <1>3. t[1] = s BY <1>2
  <1>4. Moves(s) BY Effect
  <1>5. CASE Claims(s)
    <2>1. claim' = [claim EXCEPT ![<<s, sched[s].claimed + 1>>] = [due |-> sched[s].due, at |-> now]]
      BY <1>5, Zenon DEF Claims, SaveClaim
    <2>2. CASE t = <<s, sched[s].claimed + 1>> BY <1>1, <1>3, <1>5, <2>2
    <2>3. CASE t # <<s, sched[s].claimed + 1>>
      <3>1. claim'[t] = claim[t] BY <1>1, <2>1, <2>3, Zenon DEF TypeOK
      <3> QED BY <1>1, <3>1 DEF Claimed
    <2> QED BY <2>2, <2>3, Zenon
  <1>6. CASE ~Claims(s)
    <2>1. SameClaims(s)
      BY <1>4, <1>6, ZenonT(30) DEF Moves, Kept, Ended, Exhausts, Settles, Begins, Refuses, Enables, Stops, Resolves
    <2>2. claim'[t] = claim[t] BY <1>2, <2>1 DEF SameClaims
    <2> QED BY <1>1, <2>2 DEF Claimed
  <1> QED BY <1>5, <1>6, Zenon

LEMMA UniqueStep ==
    ASSUME TypeOK, RecordInv, LiveInv, LaunchInv, UniqueInv, Next
    PROVE  UniqueInv'
  <1>0. /\ sched \in [Schedules -> Records]
        /\ \A t \in Claimed : t \in Triggers
    BY DEF TypeOK, Claimed
  <1>1. \A t \in Claimed : ResolvedClaim(t) => ResolvedClaim(t)' BY <1>0, ResolvedStays
  <1>2. ASSUME NEW s \in Schedules, Claims(s) PROVE UniqueInv'
    <2>0. sched[s].state = "waiting" BY <1>2 DEF Claims
    <2>1. \A t \in Claimed : ResolvedClaim(t)' BY <1>1, <2>0 DEF UniqueInv
    <2>2. sched'[s] = [sched[s] EXCEPT !.state = "inflight", !.observed = now, !.due = 0,
                                       !.trig = sched[s].claimed + 1, !.started = 0, !.claimed = sched[s].claimed + 1]
      BY <1>2, MovedRecord, Zenon
    <2>3. sched'[s].state = "inflight" /\ sched'[s].trig = sched[s].claimed + 1 BY <1>0, <2>2 DEF Records
    <2>4. \A x \in Schedules \ {s} : sched'[x] = sched[x] BY <1>0, <1>2, Zenon DEF Claims, SaveClaim
    <2>5. \A x \in Schedules : sched[x].state \in Live => x = s BY <2>0 DEF LiveInv, Live
    <2>6. ASSUME NEW t \in Claimed' PROVE ResolvedClaim(t)' \/ t = <<s, sched'[s].trig>>
      <3>1. CASE t \in Claimed BY <2>1, <3>1
      <3>2. CASE Claims(t[1]) /\ t = <<t[1], sched[t[1]].claimed + 1>>
        <4>1. t[1] \in Schedules BY <2>6, ClaimedGrows DEF Triggers
        <4>2. sched[t[1]].state \in Live BY <3>2 DEF Claims, Live
        <4>3. t[1] = s BY <2>5, <4>1, <4>2
        <4> QED BY <2>3, <3>2, <4>3
      <3> QED BY <2>6, <3>1, <3>2, ClaimedGrows
    <2>7. \A x \in Schedules : sched'[x].state \in Live => x = s BY <2>4, <2>5
    <2>8. \A t, u \in Claimed' : ResolvedClaim(t)' \/ ResolvedClaim(u)' \/ t = u BY <2>6
    <2>9. ASSUME NEW x \in Schedules, NEW t \in Claimed'
          PROVE  /\ sched'[x].state = "waiting" => ResolvedClaim(t)'
                 /\ sched'[x].state = "inflight" => ResolvedClaim(t)' \/ t = <<x, sched'[x].trig>>
      <3>1. sched'[x].state # "waiting" BY <2>3, <2>7 DEF Live
      <3>2. sched'[x].state = "inflight" => x = s BY <2>7 DEF Live
      <3> QED BY <2>6, <3>1, <3>2
    <2> QED BY <2>8, <2>9, ZenonT(30) DEF UniqueInv
  <1>3. CASE \A s \in Schedules : ~Claims(s)
    <2>1. ASSUME NEW t \in Claimed' PROVE t \in Claimed
      <3>1. t[1] \in Schedules BY <2>1, ClaimedGrows DEF Triggers
      <3> QED BY <1>3, <2>1, <3>1, ClaimedGrows
    <2>2. \A t, u \in Claimed' : ResolvedClaim(t)' \/ ResolvedClaim(u)' \/ t = u
      <3>1. \A t, u \in Claimed : ResolvedClaim(t) \/ ResolvedClaim(u) \/ t = u BY DEF UniqueInv
      <3> QED BY <1>1, <2>1, <3>1
    <2>3. ASSUME NEW x \in Schedules, NEW t \in Claimed'
          PROVE  /\ sched'[x].state = "waiting" => ResolvedClaim(t)'
                 /\ sched'[x].state = "inflight" => ResolvedClaim(t)' \/ t = <<x, sched'[x].trig>>
      <3>0. t \in Claimed /\ Moves(x) BY <2>1, <2>3, Effect
      <3>1. ASSUME sched'[x].state = "waiting" PROVE ResolvedClaim(t)'
        <4>1. CASE sched[x].state = "waiting" BY <1>1, <3>0, <4>1 DEF UniqueInv
        <4>2. CASE Settles(x)
          <5>1. sched[x].state = "inflight" /\ ResolvedClaim(<<x, sched[x].trig>>) BY <4>2 DEF Settles
          <5>2. ResolvedClaim(t) \/ t = <<x, sched[x].trig>> BY <3>0, <5>1 DEF UniqueInv
          <5>3. ResolvedClaim(t) BY <5>1, <5>2
          <5> QED BY <1>1, <3>0, <5>3
        <4>3. CASE Enables(x)
          <5>1. ResolvedClaim(t) BY <3>0, <4>3 DEF Enables, MayReplace
          <5> QED BY <1>1, <3>0, <5>1
        <4> QED BY <1>3, <3>0, <3>1, <4>1, <4>2, <4>3, WaitMove
      <3>2. ASSUME sched'[x].state = "inflight" PROVE ResolvedClaim(t)' \/ t = <<x, sched'[x].trig>>
        <4>1. sched[x].state = "inflight" /\ sched'[x].trig = sched[x].trig BY <1>3, <3>0, <3>2, WaitMove
        <4>2. ResolvedClaim(t) \/ t = <<x, sched[x].trig>> BY <3>0, <4>1 DEF UniqueInv
        <4> QED BY <1>1, <3>0, <4>1, <4>2
      <3> QED BY <3>1, <3>2
    <2> QED BY <2>2, <2>3, ZenonT(30) DEF UniqueInv
  <1> QED BY <1>2, <1>3

-----------------------------------------------------------------------------
(* The invariant.                                                          *)

LEMMA ScheduleStart == Init => ScheduleInv
  <1> SUFFICES ASSUME Init PROVE ScheduleInv OBVIOUS
  <1>0. {MaxTime, MaxRuns, MaxPolicies, MaxRuntimes, MaxSets, Every} \subseteq Nat /\ MaxTime # 0 /\ MaxRuntimes # 0 BY Bounds
  <1>1. sched = [s \in Schedules |-> NoSchedule] /\ claim = [t \in Triggers |-> NoClaim] BY DEF Init
  <1>2. NoSchedule \in Records
    <2>1. 0 \in 0..MaxPolicies /\ 0 \in 0..MaxTime /\ 0 \in 0..(MaxTime + Every) /\ 0 \in 0..MaxRuns BY <1>0
    <2> QED BY <2>1, ZenonT(30) DEF NoSchedule, Records
  <1>3. NoClaim \in [due : 0..MaxTime, at : 0..MaxTime]
    <2>1. 0 \in 0..MaxTime BY <1>0
    <2> QED BY <2>1 DEF NoClaim
  <1>4. TypeOK
    <2>1. now \in Times /\ sets \in 0..MaxSets /\ runtime \in 1..MaxRuntimes BY <1>0 DEF Init, Times
    <2>2. policy \in Seq(Policies) /\ Len(policy) <= MaxPolicies /\ removed \in BOOLEAN
      <3>1. policy = <<>> /\ removed = FALSE BY DEF Init
      <3>2. policy \in Seq(Policies) /\ Len(policy) = 0 BY <3>1
      <3>3. Len(policy) <= MaxPolicies BY <1>0, <3>2
      <3> QED BY <3>1, <3>2, <3>3, ZenonT(30)
    <2>3. sched \in [Schedules -> Records] /\ claim \in [Triggers -> [due : 0..MaxTime, at : 0..MaxTime]]
      BY <1>1, <1>2, <1>3
    <2>4. job \in [Jobs -> [status : Statuses, issued : BOOLEAN]] BY ZenonT(30) DEF Init, NoJob, Statuses
    <2>5. /\ occ \subseteq Reservations /\ active \subseteq Schedules /\ shaken \subseteq Schedules
          /\ closing \in BOOLEAN /\ jumped \in BOOLEAN /\ worker \in {NoWork} \cup Works
          /\ launch \in [Schedules -> Phases] /\ owed \subseteq Triggers
      BY ZenonT(30) DEF Init, Phases
    <2> QED BY <2>1, <2>2, <2>3, <2>4, <2>5, ZenonT(30) DEF TypeOK
  <1>5. \A s \in Schedules : sched[s].state = "none" /\ sched[s] = NoSchedule /\ sched[s].claimed = 0 /\ ~sched[s].refusal
    BY <1>1, Zenon DEF NoSchedule
  <1>6. RecordInv
    <2>1. \A s \in Schedules : RecordOf(s) BY <1>5 DEF RecordOf
    <2>2. ASSUME NEW s \in Schedules PROVE ClaimsOf(s)
      <3>1. \A k \in 1..MaxRuns : claim[<<s, k>>] = NoClaim BY <1>1 DEF Triggers
      <3> QED BY <1>5, <3>1 DEF ClaimsOf
    <2> QED BY <2>1, <2>2 DEF RecordInv
  <1>7. LiveInv BY <1>5 DEF LiveInv, LiveIsManaged, Live
  <1>8. LaunchInv
    <2>1. worker = NoWork /\ (\A s \in Schedules : launch[s] = "idle") /\ occ = {} BY DEF Init
    <2>2. \A t \in Triggers : job[t] = NoJob BY ManualAssumption DEF Init, Jobs
    <2>3. \A s \in Schedules, k \in 1..MaxRuns : job[<<s, k>>] = NoJob BY <2>2 DEF Triggers
    <2>4. \A j \in Jobs : ~job[j].issued BY DEF Init, NoJob
    <2> QED BY <2>1, <2>3, <2>4 DEF LaunchInv
  <1>9. UniqueInv
    <2>1. Claimed = {} BY <1>1 DEF Claimed
    <2> QED BY <2>1 DEF UniqueInv
  <1>10. RefusalIsTrue BY <1>5 DEF RefusalIsTrue
  <1> QED BY <1>4, <1>6, <1>7, <1>8, <1>9, <1>10 DEF ScheduleInv

LEMMA ScheduleStep == ScheduleInv /\ [Next]_vars => ScheduleInv'
  <1> SUFFICES ASSUME ScheduleInv, [Next]_vars PROVE ScheduleInv' OBVIOUS
  <1>0. TypeOK /\ RecordInv /\ LiveInv /\ LaunchInv /\ UniqueInv /\ RefusalIsTrue BY DEF ScheduleInv
  <1>1. CASE Next
    <2>1. Owned BY <1>0, ZenonT(30) DEF Owned, RecordInv, RecordOf, Dates
    <2>2. TypeOK' BY <1>0, <1>1, <2>1, TypeStep
    <2>3. RecordInv' BY <1>0, <1>1, RecordKept, ClaimsKept DEF RecordInv
    <2>4. LiveInv' BY <1>0, <1>1, OneLiveStep
    <2>5. LaunchInv' BY <1>0, <1>1, LaunchStep
    <2>6. UniqueInv' BY <1>0, <1>1, UniqueStep
    <2>7. RefusalIsTrue' BY <1>0, <1>1, RefusalStep
    <2> QED BY <2>2, <2>3, <2>4, <2>5, <2>6, <2>7 DEF ScheduleInv
  <1>2. CASE UNCHANGED vars
    <2> USE <1>0, <1>2 DEF vars, clock, journal, timer
    <2>1. TypeOK' BY Zenon DEF TypeOK
    <2>2. RecordInv'
      <3>1. ASSUME NEW s \in Schedules PROVE RecordOf(s)' /\ ClaimsOf(s)'
        <4>1. RecordOf(s)' BY ZenonT(30) DEF RecordInv, RecordOf, Flags, Dates, Since
        <4>2. ClaimsOf(s)' BY ZenonT(30) DEF RecordInv, ClaimsOf, ClaimOf, At, Since
        <4> QED BY <4>1, <4>2, Zenon
      <3> QED BY <3>1, Zenon DEF RecordInv
    <2>3. LiveInv' BY Zenon DEF LiveInv, LiveIsManaged
    <2>4. LaunchInv' BY Zenon DEF LaunchInv, Last
    <2>5. UniqueInv'
      <3>1. Claimed' = Claimed BY DEF Claimed
      <3>2. \A t : ResolvedClaim(t)' <=> ResolvedClaim(t) BY Zenon DEF ResolvedClaim, Resolved
      <3> QED BY <3>1, <3>2, ZenonT(30) DEF UniqueInv
    <2>6. RefusalIsTrue' BY ZenonT(30) DEF RefusalIsTrue, Last
    <2> QED BY <2>1, <2>2, <2>3, <2>4, <2>5, <2>6 DEF ScheduleInv
  <1> QED BY <1>1, <1>2

\* The inductive invariant of fixed-delay schedules: types, each record with the dates
\* of its claims, the managed live schedule, its launch and the claim in flight.
THEOREM ScheduleInvariant == Spec => []ScheduleInv
  BY ScheduleStart, ScheduleStep, PTL DEF Spec

\* The variables keep their types, for any number of schedules, policies and runs.
THEOREM ScheduleTypes == Spec => []TypeOK
  <1>1. ScheduleInv => TypeOK BY DEF ScheduleInv
  <1> QED BY <1>1, ScheduleInvariant, PTL

\* A schedule that may still claim or launch is one the timer manages: neither a
\* failed checkpoint nor a poll, a stop or a shutdown drops a live one (Enable,
\* poll_schedule, TimerManager::close).
THEOREM LiveSchedulesManaged == Spec => []LiveIsManaged
  <1>1. ScheduleInv => LiveIsManaged BY DEF ScheduleInv, LiveInv
  <1> QED BY <1>1, ScheduleInvariant, PTL

\* Claims of a schedule are a period apart on the recorded clock, whatever the
\* clock was set to in between (schedule_settle, schedule_claim_due).
THEOREM ClaimsSpaced == Spec => []ClaimsAreSpaced
  <1>1. ScheduleInv => ClaimsAreSpaced
    <2> SUFFICES ASSUME ScheduleInv, NEW t \in Claimed, NEW u \in Claimed, t[1] = u[1], t[2] < u[2]
                 PROVE  claim[t].at + Every <= claim[u].at
      BY DEF ClaimsAreSpaced
    <2>0. TypeOK /\ RecordInv BY DEF ScheduleInv
    <2>1. PICK s \in Schedules, j \in 1..MaxRuns : t = <<s, j>> BY DEF Claimed, Triggers
    <2>2. PICK k \in 1..MaxRuns : u = <<s, k>> BY <2>1 DEF Claimed, Triggers
    <2>3. ClaimsOf(s) /\ sched[s].claimed \in Nat BY <2>0, ClaimNumbers, Zenon DEF RecordInv
    <2>4. j <= sched[s].claimed /\ k <= sched[s].claimed /\ j < k
      BY <2>1, <2>2, <2>3, Zenon DEF ClaimsOf, Claimed
    <2>5. j \in 1..sched[s].claimed /\ k \in 1..sched[s].claimed BY <2>3, <2>4
    <2>6. At(s, j) + Every <= At(s, k) BY <2>3, <2>4, <2>5, Zenon DEF ClaimsOf
    <2> QED BY <2>1, <2>2, <2>6 DEF At
  <1> QED BY <1>1, ScheduleInvariant, PTL

\* A recorded refusal stays true: its trigger never gets a job or a reservation
\* (trigger_record_refusal, validated_history).
THEOREM RefusalsTrue == Spec => []RefusalIsTrue
  <1>1. ScheduleInv => RefusalIsTrue BY DEF ScheduleInv
  <1> QED BY <1>1, ScheduleInvariant, PTL

\* A trigger whose schedule stopped, was interrupted or moved on gets nothing more:
\* no admission, compilation, reservation, start or grant, at whatever checkpoint
\* its launch stands (source_authority, reservation_link, fence).
THEOREM FencesHold == Spec => [][FenceHolds]_vars
  <1>1. ScheduleInv /\ Next => FenceHolds
    <2> SUFFICES ASSUME ScheduleInv, Next, NEW t \in Triggers, ~Owns(t)
                 PROVE  /\ job'[t].issued = job[t].issued
                        /\ job'[t].status # job[t].status =>
                              job'[t].status \in {"stopping", "interrupted", "failed", "cancelled", "completed"}
      BY DEF FenceHolds
    <2>1. JobMoves(t) BY JobEffect DEF ScheduleInv, Jobs
    <2>2. ~Admits(t) /\ ~Compiles(t) /\ ~Reserves(t) /\ ~Starts(t) /\ ~Issues(t)
      BY Zenon DEF Admits, Compiles, Reserves, Starts, Issues, Fence
    <2>3. job[t] \in [status : Statuses, issued : BOOLEAN] BY DEF ScheduleInv, TypeOK, Jobs
    <2> QED BY <2>1, <2>2, <2>3, Zenon DEF JobMoves, Ends, SetsTo
  <1> QED BY <1>1, ScheduleInvariant, PTL DEF Spec
=============================================================================
