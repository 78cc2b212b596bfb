----------------------- MODULE AutomationScheduleLimits -----------------------
(***************************************************************************)
(* What is counted in AutomationSchedule: the runs a policy pays for, the  *)
(* live schedules of a definition and its unresolved claims.  The argument *)
(* rests on the invariant of AutomationScheduleProofs.                     *)
(***************************************************************************)
EXTENDS AutomationScheduleProofs, FiniteSetTheorems

\* A set without two different elements has at most one.
LEMMA AtMostOne ==
    ASSUME NEW S, \A x, y \in S : x = y
    PROVE  Cardinality(S) <= 1
  <1>1. CASE S = {} BY <1>1, FS_EmptySet
  <1>2. CASE S # {}
    <2>1. PICK x : x \in S BY <1>2
    <2>2. S = {x} BY <2>1
    <2>3. Cardinality({x}) = 1 BY FS_Singleton, Zenon
    <2> QED BY <2>2, <2>3
  <1> QED BY <1>1, <1>2

\* No overlap: at most one claimed trigger of the definition is unresolved, over any
\* number of schedules, restarts and policies (schedule_arm, schedule_claim_due,
\* schedule_settle).
THEOREM NoOverlap == Spec => []OneUnresolvedClaim
  <1>1. ScheduleInv => OneUnresolvedClaim
    <2> SUFFICES ASSUME ScheduleInv PROVE OneUnresolvedClaim OBVIOUS
    <2>1. \A t, u \in {t \in Claimed : ~ResolvedClaim(t)} : t = u BY DEF ScheduleInv, UniqueInv
    <2> QED BY <2>1, AtMostOne DEF OneUnresolvedClaim
  <1> QED BY <1>1, ScheduleInvariant, PTL

-----------------------------------------------------------------------------
(* The history a read of the journal validates.                            *)

LEMMA RecordValid ==
    ASSUME TypeOK, NEW s \in Schedules, RecordOf(s), sched[s] # NoSchedule
    PROVE  ValidRecord(sched[s])
  <1> DEFINE r == sched[s]
  <1>1. r \in Records /\ r.state # "none" BY DEF TypeOK, RecordOf
  <1>2. Flags(r) /\ Dates(r, policy[r.policy].approved) /\ r.policy \in DOMAIN policy BY <1>1 DEF RecordOf, Since
  <1>3. /\ r.armed \in Nat /\ r.observed \in Nat /\ r.due \in Nat /\ r.claimed \in Nat /\ r.trig \in Nat
        /\ policy[r.policy].approved \in Nat /\ Every \in Nat \ {0} /\ Valid \in Nat
    <2>1. Every \in Nat \ {0} /\ Valid \in Nat /\ MaxRuns \in Nat BY Bounds
    <2>2. r.trig \in Nat BY <1>1, <2>1 DEF Records
    <2> QED BY <1>2, <2>1, <2>2, ClaimNumbers, ApprovedType
  <1>4. r.state \in {"interrupted", "stopped", "exhausted", "resolved", "waiting", "inflight"}
    BY <1>1 DEF Records, Live
  <1>5. policy[r.policy].approved <= r.armed /\ r.armed < Expires(r.policy) BY <1>2 DEF Dates, Expires
  <1>6. CASE r.state = "waiting"
    <2>1. /\ r.trig = 0 /\ r.started = 0 /\ r.observed >= r.armed
          /\ r.observed < r.due /\ r.due < Expires(r.policy)
      BY <1>2, <1>3, <1>6 DEF Dates, Expires
    <2> QED BY <1>2, <1>5, <1>6, <2>1 DEF ValidRecord, Flags
  <1>7. CASE r.state = "inflight"
    <2>1. r.trig # 0 /\ r.due = 0 /\ r.observed >= r.armed /\ r.claimed > 0 BY <1>2, <1>3, <1>7 DEF Dates
    <2> QED BY <1>2, <1>5, <1>7, <2>1 DEF ValidRecord, Flags
  <1>8. CASE r.state = "exhausted"
    <2>1. r.trig = 0 /\ r.started = 0 /\ r.due = 0 BY <1>2, <1>8 DEF Dates
    <2> QED BY <1>2, <1>5, <1>8, <2>1 DEF ValidRecord, Flags
  <1>9. CASE r.state = "stopped"
    <2>1. r.due = 0 BY <1>2, <1>9 DEF Dates
    <2> QED BY <1>2, <1>5, <1>9, <2>1 DEF ValidRecord, Flags
  <1>10. CASE r.state \in {"interrupted", "resolved"}
    <2>1. r.due = 0 BY <1>2, <1>10 DEF Dates
    <2> QED BY <1>2, <1>5, <1>10, <2>1 DEF ValidRecord, Flags
  <1> QED BY <1>4, <1>6, <1>7, <1>8, <1>9, <1>10

LEMMA OwnerValid ==
    ASSUME TypeOK, NEW s \in Schedules, RecordOf(s), ClaimsOf(s), sched[s] # NoSchedule
    PROVE  ValidOwner(s)
  <1> DEFINE c == sched[s].claimed
  <1>1. c \in Nat /\ c <= MaxRuns /\ MaxRuns \in Nat BY ClaimNumbers
  <1>2. sched[s].state # "none" BY DEF RecordOf
  <1>3. sched[s].trig \in {0, c} BY <1>2 DEF RecordOf, Dates
  <1>4. {t \in Claimed : t[1] = s} = {s} \X (1..c)
    <2>1. ASSUME NEW t \in Claimed, t[1] = s PROVE t \in {s} \X (1..c)
      <3>1. PICK k \in 1..MaxRuns : t = <<s, k>> BY <2>1 DEF Claimed, Triggers
      <3>2. k <= c BY <2>1, <3>1 DEF Claimed, ClaimsOf
      <3>3. k \in 1..c BY <1>1, <3>1, <3>2
      <3> QED BY <3>1, <3>3
    <2>2. ASSUME NEW t \in {s} \X (1..c) PROVE t \in Claimed /\ t[1] = s
      <3>1. PICK k \in 1..c : t = <<s, k>> BY <2>2
      <3>2. k \in 1..MaxRuns /\ k <= c BY <1>1, <3>1
      <3>3. claim[<<s, k>>] # NoClaim BY <3>2 DEF ClaimsOf
      <3> QED BY <3>1, <3>2, <3>3, ClaimNumbers DEF Claimed
    <2> QED BY <2>1, <2>2
  <1>5. ASSUME sched[s].state = "inflight"
        PROVE  /\ sched[s].observed = IF sched[s].started = 0 THEN claim[Last(s)].at ELSE sched[s].started
               /\ sched[s].started # 0 =>
                    claim[Last(s)].at <= sched[s].started /\ sched[s].started < Expires(sched[s].policy)
    <2>1. /\ sched[s].observed = IF sched[s].started = 0 THEN claim[Last(s)].at ELSE sched[s].started
          /\ sched[s].started # 0 => sched[s].started < Expires(sched[s].policy)
      BY <1>5 DEF ClaimsOf, At, Last, Since, Expires
    <2>2. c \in 1..c
      <3>1. sched[s].trig # 0 BY <1>5 DEF RecordOf, Dates
      <3> QED BY <1>1, <1>3, <3>1
    <2>3. ClaimOf(s, c) BY <2>2 DEF ClaimsOf
    <2>4. claim[Last(s)].at <= sched[s].observed BY <1>5, <2>3 DEF ClaimOf, Live, At, Last
    <2> QED BY <2>1, <2>4
  <1> QED BY <1>3, <1>4, <1>5 DEF ValidOwner

LEMMA ClaimValid ==
    ASSUME TypeOK, RecordInv, NEW t \in Claimed
    PROVE  ValidClaim(t)
  <1>1. PICK s \in Schedules, k \in 1..MaxRuns : t = <<s, k>> BY DEF Claimed, Triggers
  <1>2. ClaimsOf(s) /\ sched[s].claimed \in Nat BY ClaimNumbers DEF RecordInv
  <1>3. k <= sched[s].claimed BY <1>1, <1>2 DEF ClaimsOf, Claimed
  <1>4. k \in 1..sched[s].claimed BY <1>2, <1>3
  <1>5. ClaimOf(s, k) BY <1>2, <1>4 DEF ClaimsOf
  <1>6. sched[s].armed + Every <= claim[t].due /\ claim[t].due \in Nat /\ sched[s].armed + Every \in Nat
    BY <1>1, <1>5, ClaimNumbers DEF ClaimOf
  <1>7. claim[t].due >= sched[s].armed + Every BY <1>6
  <1>8. t[1] = s /\ t[2] = k BY <1>1
  <1> QED BY <1>1, <1>3, <1>5, <1>7, <1>8 DEF ValidClaim, ClaimOf, At, Since, Expires

\* Every history the code can leave passes the validation that each later read and
\* each restart applies to it (validated_history, validate_schedule_data,
\* validate_trigger_data).
THEOREM HistoriesValid == Spec => []HistoryStaysValid
  <1>1. ScheduleInv => HistoryStaysValid
    <2> SUFFICES ASSUME ScheduleInv PROVE HistoryStaysValid OBVIOUS
    <2>0. TypeOK /\ RecordInv /\ LiveInv BY DEF ScheduleInv
    <2>1. \A s \in Schedules : sched[s] # NoSchedule => ValidRecord(sched[s]) /\ ValidOwner(s)
      BY <2>0, RecordValid, OwnerValid DEF RecordInv
    <2>2. \A t \in Claimed : ValidClaim(t) BY <2>0, ClaimValid
    <2>3. Cardinality({s \in Schedules : sched[s].state \in Live}) <= 1
      <3>1. \A x, y \in {s \in Schedules : sched[s].state \in Live} : x = y BY <2>0 DEF LiveInv
      <3> QED BY <3>1, AtMostOne
    <2> QED BY <2>1, <2>2, <2>3 DEF HistoryStaysValid
  <1> QED BY <1>1, ScheduleInvariant, PTL

-----------------------------------------------------------------------------
(* The reserved budget.                                                    *)

BudgetInv == IsFiniteSet(occ) /\ BudgetKept

\* A reservation is never lost, only marked as archived.
LEMMA ReservationStays ==
    ASSUME TypeOK, RecordInv, Next, NEW o \in occ
    PROVE  \E x \in occ' : x.job = o.job
  <1>1. OccMoves BY OccEffect
  <1>2. CASE UNCHANGED occ BY <1>2
  <1>3. CASE \E j \in Jobs, p \in DOMAIN policy : Reserve(j, p)
    <2>1. occ \subseteq occ' BY <1>3 DEF Reserve
    <2> QED BY <2>1
  <1>4. CASE \E y \in occ : Archive(y)
    <2>1. PICK y \in occ : Archive(y) BY <1>4
    <2>2. occ' = (occ \ {y}) \cup {[y EXCEPT !.archived = TRUE]} BY <2>1 DEF Archive
    <2>3. CASE o = y
      <3>1. y \in Reservations BY DEF TypeOK
      <3>2. [y EXCEPT !.archived = TRUE].job = y.job BY <3>1 DEF Reservations
      <3> QED BY <2>2, <2>3, <3>2, Zenon
    <2>4. CASE o # y BY <2>2, <2>4
    <2> QED BY <2>3, <2>4
  <1> QED BY <1>1, <1>2, <1>3, <1>4 DEF OccMoves

\* The reservations of one policy when one is added, and when one is archived.
LEMMA CountReserved ==
    ASSUME TypeOK, IsFiniteSet(occ), NEW p
    PROVE  IsFiniteSet(Reserved(p)) /\ Cardinality(Reserved(p)) \in Nat
  <1>1. Reserved(p) \in SUBSET occ BY DEF Reserved
  <1>2. IsFiniteSet(Reserved(p)) BY <1>1, FS_Subset
  <1> QED BY <1>2, FS_CardinalityType

LEMMA CountReserve ==
    ASSUME TypeOK, IsFiniteSet(occ), NEW j, NEW q, Reserve(j, q), NEW p, Cardinality(Reserved(p)) <= MaxRuns
    PROVE  Cardinality(Reserved(p)') <= MaxRuns
  <1> DEFINE n == [policy |-> q, job |-> j, archived |-> FALSE]
  <1>0. occ' = occ \cup {n} /\ AllowanceAvailable(q) BY DEF Reserve
  <1>1. IsFiniteSet(Reserved(p)) /\ Cardinality(Reserved(p)) \in Nat /\ MaxRuns \in Nat BY CountReserved, Bounds
  <1>2. CASE p = q
    <2>1. Reserved(p)' = Reserved(p) \cup {n} BY <1>0, <1>2 DEF Reserved
    <2>2. Cardinality(Reserved(p) \cup {n}) = IF n \in Reserved(p) THEN Cardinality(Reserved(p)) ELSE Cardinality(Reserved(p)) + 1
      BY <1>1, FS_AddElement, Zenon
    <2>3. Cardinality(Reserved(p)) < MaxRuns BY <1>0, <1>2 DEF AllowanceAvailable
    <2> QED BY <1>1, <2>1, <2>2, <2>3
  <1>3. CASE p # q
    <2>1. Reserved(p)' = Reserved(p) BY <1>0, <1>3 DEF Reserved
    <2> QED BY <2>1
  <1> QED BY <1>2, <1>3

LEMMA CountArchive ==
    ASSUME TypeOK, IsFiniteSet(occ), NEW o \in occ, Archive(o), NEW p, Cardinality(Reserved(p)) <= MaxRuns
    PROVE  Cardinality(Reserved(p)') <= MaxRuns
  <1> DEFINE n == [o EXCEPT !.archived = TRUE]
  <1>0. occ' = (occ \ {o}) \cup {n} /\ o \in Reservations BY DEF Archive, TypeOK
  <1>1. n.policy = o.policy BY <1>0 DEF Reservations
  <1>2. IsFiniteSet(Reserved(p)) /\ Cardinality(Reserved(p)) \in Nat /\ MaxRuns \in Nat BY CountReserved, Bounds
  <1>3. CASE o.policy = p
    <2> DEFINE R == Reserved(p) \ {o}
    <2>1. o \in Reserved(p) BY <1>3 DEF Reserved
    <2>2. IsFiniteSet(R) /\ Cardinality(R) = Cardinality(Reserved(p)) - 1
      BY <1>2, <2>1, FS_RemoveElement
    <2>3. Reserved(p)' = R \cup {n} BY <1>0, <1>1, <1>3, Zenon DEF Reserved
    <2>4. Cardinality(R \cup {n}) = IF n \in R THEN Cardinality(R) ELSE Cardinality(R) + 1 BY <2>2, FS_AddElement, Zenon
    <2> QED BY <1>2, <2>2, <2>3, <2>4
  <1>4. CASE o.policy # p
    <2>1. Reserved(p)' = Reserved(p) BY <1>0, <1>1, <1>4, Zenon DEF Reserved
    <2> QED BY <2>1
  <1> QED BY <1>3, <1>4

LEMMA BudgetStep ==
    ASSUME ScheduleInv, BudgetInv, Next
    PROVE  BudgetInv'
  <1>0. TypeOK /\ RecordInv /\ LaunchInv /\ IsFiniteSet(occ) /\ OccMoves BY OccEffect DEF ScheduleInv, BudgetInv
  <1>1. IsFiniteSet(occ')
    <2>1. ASSUME NEW j \in Jobs, NEW q \in DOMAIN policy, Reserve(j, q) PROVE IsFiniteSet(occ')
      <3>1. occ' = occ \cup {[policy |-> q, job |-> j, archived |-> FALSE]} BY <2>1 DEF Reserve
      <3> QED BY <1>0, <3>1, FS_AddElement, Zenon
    <2>2. ASSUME NEW o \in occ, Archive(o) PROVE IsFiniteSet(occ')
      <3>1. occ' = (occ \ {o}) \cup {[o EXCEPT !.archived = TRUE]} BY <2>2 DEF Archive
      <3>2. IsFiniteSet(occ \ {o}) BY <1>0, FS_RemoveElement
      <3> QED BY <3>1, <3>2, FS_AddElement, Zenon
    <2> QED BY <1>0, <2>1, <2>2 DEF OccMoves
  <1>2. ASSUME NEW p \in DOMAIN policy' PROVE Cardinality(Reserved(p)') <= MaxRuns
    <2>1. Cardinality(Reserved(p)) <= MaxRuns
      <3>1. CASE p \in DOMAIN policy BY <3>1 DEF BudgetInv, BudgetKept
      <3>2. CASE p \notin DOMAIN policy
        <4>1. Reserved(p) = {} BY <1>0, <3>2 DEF LaunchInv, Reserved
        <4>2. Cardinality(Reserved(p)) = 0 /\ MaxRuns \in Nat BY <4>1, FS_EmptySet, Bounds
        <4> QED BY <4>2
      <3> QED BY <3>1, <3>2
    <2>2. CASE UNCHANGED occ
      <3>1. Reserved(p)' = Reserved(p) BY <2>2 DEF Reserved
      <3> QED BY <2>1, <3>1
    <2>3. CASE \E j \in Jobs, q \in DOMAIN policy : Reserve(j, q) BY <1>0, <2>1, <2>3, CountReserve
    <2>4. CASE \E o \in occ : Archive(o) BY <1>0, <2>1, <2>4, CountArchive
    <2> QED BY <1>0, <2>2, <2>3, <2>4 DEF OccMoves
  <1>3. ASSUME NEW j \in Jobs, job'[j].issued PROVE \E o \in occ' : o.job = j
    <2>1. JobMoves(j) BY <1>0, JobEffect
    <2>2. job[j] \in [status : Statuses, issued : BOOLEAN] BY <1>0 DEF TypeOK
    <2>3. job[j].issued \/ Issues(j)
      BY <1>3, <2>1, <2>2 DEF JobMoves, Admits, Compiles, Reserves, Starts, Ends, SetsTo
    <2>4. \E o \in occ : o.job = j
      <3>1. CASE job[j].issued BY <3>1 DEF BudgetInv, BudgetKept
      <3>2. CASE Issues(j) BY <3>2 DEF Issues, Fence
      <3> QED BY <2>3, <3>1, <3>2
    <2> QED BY <1>0, <2>4, ReservationStays
  <1> QED BY <1>1, <1>2, <1>3 DEF BudgetInv, BudgetKept

\* A policy never pays for more than max_runs occurrences, and every job that was
\* ever granted anything has its reservation on record, archived or not
\* (allowance_from_records, archives::checkpoint).
THEOREM BudgetsKept == Spec => []BudgetKept
  <1>1. Init => BudgetInv
    <2> SUFFICES ASSUME Init PROVE BudgetInv OBVIOUS
    <2>1. occ = {} /\ policy = <<>> BY DEF Init
    <2>2. \A j \in Jobs : ~job[j].issued BY DEF Init, NoJob
    <2>3. DOMAIN policy = {} BY <2>1
    <2>4. IsFiniteSet(occ) BY <2>1, FS_EmptySet
    <2> QED BY <2>2, <2>3, <2>4 DEF BudgetInv, BudgetKept
  <1>2. ScheduleInv /\ BudgetInv /\ [Next]_vars => BudgetInv'
    <2> SUFFICES ASSUME ScheduleInv, BudgetInv, [Next]_vars PROVE BudgetInv' OBVIOUS
    <2>1. CASE Next BY <2>1, BudgetStep
    <2>2. CASE UNCHANGED vars
      BY <2>2 DEF vars, journal, BudgetInv, BudgetKept, Reserved
    <2> QED BY <2>1, <2>2
  <1>3. BudgetInv => BudgetKept BY DEF BudgetInv
  <1> QED BY <1>1, <1>2, <1>3, ScheduleInvariant, PTL DEF Spec
=============================================================================
