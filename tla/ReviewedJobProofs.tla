-------------------------- MODULE ReviewedJobProofs --------------------------
(***************************************************************************)
(* Proofs of ReviewedJob's safety properties for plans of any length.      *)
(***************************************************************************)
EXTENDS ReviewedJob, TLAPS

\* Attempts exist exactly for the tasks issued so far, an attempt that does not
\* exist holds no evidence, an unfinished plan has cancelled nothing, and a plan is
\* executed from its first task on.
PlanShape(p) ==
    /\ \A i \in Tasks : p.attempt[i].state = "none" <=> i > p.len
    /\ \A i \in Tasks : p.attempt[i].state = "none" => p.attempt[i] = NoAttempt
    /\ p.status \in Live \cup {"approved", "interrupted"} =>
          \A i \in Tasks : i > p.len => p.task[i] = "pending"
    /\ p.status = "approved" => p.len = 0

GoodPlan(p) == p \in PlanType /\ PlanShape(p) /\ ValidRetained(p)

-----------------------------------------------------------------------------
TaskState == {"pending", "running", "completed", "failed", "interrupted", "cancelled"}
PlanStatus == {"approved", "interrupted"} \cup Live \cup Finished

\* A plan with some fields replaced by values of their types is a plan.
LEMMA PlanWith ==
    ASSUME NEW p \in PlanType, NEW t \in [Tasks -> TaskState],
           NEW f \in [Tasks -> AttemptType], NEW s \in PlanStatus, NEW n \in 0..N,
           NEW b \in BOOLEAN, NEW c \in BOOLEAN
    PROVE  /\ [p EXCEPT !.status = s] \in PlanType
           /\ [p EXCEPT !.task = t] \in PlanType
           /\ [p EXCEPT !.attempt = f] \in PlanType
           /\ [p EXCEPT !.attempt = f, !.task = t] \in PlanType
           /\ [p EXCEPT !.len = n, !.task = t, !.attempt = f] \in PlanType
           /\ [p EXCEPT !.stopAt = b] \in PlanType
           /\ [p EXCEPT !.status = s, !.task = t] \in PlanType
           /\ [p EXCEPT !.status = s, !.abandonment = c] \in PlanType
  BY Zenon DEF PlanType, TaskState, PlanStatus

\* CancelPending and Cancelled change tasks and status only.
LEMMA CancelFields ==
    ASSUME NEW p \in PlanType, NEW s \in PlanStatus
    PROVE  LET q == [CancelPending(p) EXCEPT !.status = s] IN
           /\ CancelPending(p) \in PlanType
           /\ q \in PlanType /\ q.status = s
           /\ q.attempt = p.attempt /\ q.len = p.len
           /\ q.stopAt = p.stopAt /\ q.abandonment = p.abandonment
           /\ \A i \in Tasks : q.task[i] =
                 IF p.task[i] = "pending" THEN "cancelled" ELSE p.task[i]
  <1>1. /\ CancelPending(p) \in PlanType
        /\ CancelPending(p).attempt = p.attempt /\ CancelPending(p).len = p.len
        /\ CancelPending(p).stopAt = p.stopAt
        /\ CancelPending(p).abandonment = p.abandonment
        /\ \A i \in Tasks : CancelPending(p).task[i] =
              IF p.task[i] = "pending" THEN "cancelled" ELSE p.task[i]
    BY DEF CancelPending, PlanType
  <1> QED
    BY <1>1 DEF PlanType, PlanStatus

\* Issue adds an attempt for the next task and runs it.
LEMMA IssueFields ==
    ASSUME NEW p \in PlanType, PlanShape(p), CanIssue(p)
    PROVE  /\ Issue(p) \in PlanType
           /\ Issue(p).status = p.status /\ Issue(p).len = p.len + 1
           /\ Issue(p).stopAt = p.stopAt /\ Issue(p).abandonment = p.abandonment
           /\ \A i \in Tasks : Issue(p).task[i] =
                 IF i = p.len + 1 THEN "running" ELSE p.task[i]
           /\ \A i \in Tasks : Issue(p).attempt[i] =
                 IF i = p.len + 1 THEN [NoAttempt EXCEPT !.state = "issued"] ELSE p.attempt[i]
  <1> DEFINE n == p.len + 1
             t == [p.task EXCEPT ![n] = "running"]
             f == [p.attempt EXCEPT ![n].state = "issued"]
  <1>1. n \in Tasks /\ n \in 0..N
    BY TaskAssumption DEF CanIssue, NextTask, PlanType, Tasks
  <1>2. p.attempt[n] = NoAttempt
    BY <1>1 DEF PlanShape, Tasks, PlanType
  <1>3. t \in [Tasks -> TaskState]
    BY <1>1 DEF PlanType, TaskState
  <1>4. f \in [Tasks -> AttemptType]
    BY <1>1 DEF PlanType, AttemptType
  <1>5. Issue(p) = [p EXCEPT !.len = n, !.task = t, !.attempt = f]
    BY <1>1 DEF Issue, PlanType, NextTask
  <1>6. f[n] = [NoAttempt EXCEPT !.state = "issued"] /\ \A i \in Tasks : i # n => f[i] = p.attempt[i]
    BY <1>1, <1>2 DEF PlanType
  <1>7. \A i \in Tasks : t[i] = IF i = n THEN "running" ELSE p.task[i]
    BY <1>1 DEF PlanType
  <1> HIDE DEF t, f
  <1>8. Issue(p) \in PlanType
    BY <1>1, <1>3, <1>4, <1>5, Zenon DEF PlanType, TaskState
  <1>9. Issue(p).task = t /\ Issue(p).attempt = f
    BY <1>5 DEF PlanType
  <1> QED
    BY <1>5, <1>6, <1>7, <1>8, <1>9 DEF PlanType

\* Of a valid plan: every attempt but the last succeeded, so only the last may be
\* unsettled or in doubt, and a live plan has recovered nothing.
LEMMA PlanFacts ==
    ASSUME NEW p, GoodPlan(p)
    PROVE  /\ p.len \in 0..N
           /\ \A i \in Tasks : p.attempt[i] \in AttemptType
           /\ \A i \in Tasks : i < p.len => /\ p.attempt[i].state = "completed"
                                          /\ FinalReport(p.attempt[i]) = "success"
                                          /\ p.task[i] = "completed"
           /\ \A i \in Tasks : p.attempt[i].state \notin {"none", "completed"} => i = p.len
           /\ \A i \in Tasks : i > p.len => /\ p.attempt[i] = NoAttempt
                                          /\ p.task[i] \in {"pending", "cancelled"}
           /\ p.status \in Live => \A i \in Tasks : p.attempt[i].recovery = "none"
  <1>1. p.len \in 0..N /\ \A i \in Tasks : p.attempt[i] \in AttemptType
    BY DEF GoodPlan, PlanType
  <1>2. ASSUME NEW i \in Tasks, i < p.len
        PROVE  /\ p.attempt[i].state = "completed"
               /\ FinalReport(p.attempt[i]) = "success"
               /\ p.task[i] = "completed"
    <2>1. i + 1 \in Issued(p) \ {1} /\ (i + 1) - 1 = i
      BY <1>1, <1>2, TaskAssumption DEF Issued, Tasks
    <2>2. p.attempt[i].state = "completed" /\ FinalReport(p.attempt[i]) = "success"
      BY <2>1 DEF GoodPlan, ValidRetained, ValidOrder
    <2>3. ValidLifecycle(p.attempt[i], p.task[i])
      BY <1>2 DEF GoodPlan, ValidRetained
    <2> QED
      BY <2>2, <2>3 DEF ValidLifecycle, TaskOf
  <1>3. ASSUME NEW i \in Tasks, i > p.len
        PROVE  p.attempt[i] = NoAttempt /\ p.task[i] \in {"pending", "cancelled"}
    <2>1. p.attempt[i] = NoAttempt
      BY <1>3 DEF GoodPlan, PlanShape
    <2>2. ValidLifecycle(p.attempt[i], p.task[i])
      BY <1>3 DEF GoodPlan, ValidRetained
    <2> QED
      BY <2>1, <2>2 DEF ValidLifecycle, NoAttempt
  <1>4. ASSUME NEW i \in Tasks, p.attempt[i].state \notin {"none", "completed"}
        PROVE  i = p.len
    <2>1. i \in Nat /\ p.len \in Nat
      BY <1>1, TaskAssumption DEF Tasks
    <2> QED
      BY <1>2, <1>3, <1>4, <2>1 DEF NoAttempt
  <1>5. p.status \in Live => \A i \in Tasks : p.attempt[i].recovery = "none"
    BY DEF GoodPlan, ValidRetained, ValidRecovery
  <1> QED
    BY <1>1, <1>2, <1>3, <1>4, <1>5

LEMMA IssueGood ==
    ASSUME NEW p, GoodPlan(p), CanIssue(p)
    PROVE  GoodPlan(Issue(p))
  <1> DEFINE q == Issue(p)
             n == p.len + 1
  <1>1. p \in PlanType /\ PlanShape(p) /\ ValidRetained(p)
    BY DEF GoodPlan
  <1>2. n \in Tasks /\ p.len \in 0..N /\ \A i \in Tasks : i \in Nat
    BY <1>1, TaskAssumption DEF CanIssue, NextTask, PlanType, Tasks
  <1>3. /\ q \in PlanType
        /\ q.status = "running" /\ q.len = n
        /\ q.stopAt = p.stopAt /\ q.abandonment = p.abandonment
        /\ \A i \in Tasks : q.task[i] = IF i = n THEN "running" ELSE p.task[i]
        /\ q.attempt[n] = [NoAttempt EXCEPT !.state = "issued"]
        /\ \A i \in Tasks : i # n => q.attempt[i] = p.attempt[i]
    BY <1>1, <1>2, IssueFields DEF CanIssue
  <1> HIDE DEF q
  <1>4. /\ q.attempt[n].state = "issued" /\ ~q.attempt[n].ack
        /\ q.attempt[n].report = "none" /\ q.attempt[n].recovery = "none"
        /\ q.attempt[n].stop = "none"
    BY <1>3 DEF NoAttempt
  <1>5. \A i \in Tasks : i < n => /\ p.attempt[i].state = "completed"
                               /\ FinalReport(p.attempt[i]) = "success"
                               /\ p.task[i] = "completed"
    <2>1. ASSUME p.len \in Tasks
          PROVE  /\ p.attempt[p.len].state = "completed"
                 /\ FinalReport(p.attempt[p.len]) = "success"
                 /\ p.task[p.len] = "completed"
      <3>1. p.attempt[p.len].report = "success" /\ p.status = "running"
        BY <1>2, <2>1, TaskAssumption DEF CanIssue, NextTask, Tasks
      <3>2. p.attempt[p.len].recovery = "none" /\ p.attempt[p.len] \in AttemptType
        BY <2>1, <3>1, PlanFacts DEF Live
      <3>3. ValidLifecycle(p.attempt[p.len], p.task[p.len]) /\ p.attempt[p.len] # NoAttempt
        BY <1>1, <2>1, <3>1 DEF ValidRetained, NoAttempt
      <3>4. p.attempt[p.len].state # "none"
        BY <1>1, <2>1, <3>3 DEF PlanShape
      <3> QED
        BY <3>1, <3>2, <3>3, <3>4 DEF ValidLifecycle, FinalReport, TaskOf, AttemptType
    <2> QED
      BY <1>2, <2>1, PlanFacts
  <1>6. \A i \in Tasks : i > n => p.attempt[i] = NoAttempt /\ p.task[i] = "pending"
    BY <1>1, <1>2, PlanFacts DEF CanIssue, PlanShape, Live
  <1>7. PlanShape(q)
    BY <1>1, <1>2, <1>3, <1>4, <1>5, <1>6 DEF PlanShape, CanIssue, NoAttempt
  <1>8. ASSUME NEW i \in Tasks
        PROVE  /\ ValidLifecycle(q.attempt[i], q.task[i])
               /\ ValidRecovery(q, i)
               /\ q.attempt[i].stop # "none" => q.stopAt
    <2>1. CASE i = n
      BY <1>2, <1>3, <1>4, <2>1, Zenon DEF ValidLifecycle, ValidRecovery
    <2>2. CASE i # n
      <3>1. p.attempt[i].recovery = "none"
        BY PlanFacts DEF CanIssue, Live
      <3> QED
        BY <1>1, <1>3, <2>2, <3>1 DEF ValidRetained, ValidRecovery
    <2> QED
      BY <2>1, <2>2
  <1>9. ValidOrder(q)
    <2> SUFFICES ASSUME NEW i \in Issued(q) \ {1}
                 PROVE  /\ q.attempt[i - 1].state = "completed"
                        /\ FinalReport(q.attempt[i - 1]) = "success"
      BY DEF ValidOrder
    <2>1. i - 1 \in Tasks /\ i - 1 < n
      BY <1>2, <1>3, TaskAssumption DEF Issued, Tasks
    <2> QED
      BY <1>2, <1>3, <1>5, <2>1
  <1>10. ValidStatus(q)
    <2>1. \A i \in Tasks : q.task[i] \notin {"interrupted", "failed"}
      BY <1>1, <1>3 DEF ValidRetained, ValidStatus, CanIssue, Live
    <2>2. \A i \in Unsettled(q) : i = n
      BY <1>2, <1>3, <1>5, <1>6 DEF Unsettled, NoAttempt
    <2> QED
      BY <1>3, <2>1, <2>2 DEF ValidStatus, Live
  <1>11. ValidAbandonment(q)
    BY <1>1, <1>3, Zenon DEF ValidRetained, ValidAbandonment, CanIssue
  <1> QED
    BY <1>3, <1>7, <1>8, <1>9, <1>10, <1>11 DEF GoodPlan, ValidRetained, q

\* A plan whose attempts are unchanged keeps its evidence, and one whose status
\* is not final has no outcome to keep.
LEMMA SameAttempts ==
    ASSUME NEW p \in PlanType, NEW q \in PlanType, q.attempt = p.attempt,
           p.stopAt => q.stopAt, p.status \notin Finished
    PROVE  Keeps(p, q)
  BY DEF Keeps

\* execute_reviewed starts an approved plan; cancel makes a live one stopping.
LEMMA StatusGood ==
    ASSUME NEW p, GoodPlan(p), NEW s \in Live, p.status \in Live \cup {"approved"}
    PROVE  LET q == [p EXCEPT !.status = s]
           IN GoodPlan(q) /\ Keeps(p, q) /\ q.len = p.len /\ q.attempt = p.attempt
                /\ q.status = s /\ q.stopAt = p.stopAt
  <1> DEFINE q == [p EXCEPT !.status = s]
  <1>1. p \in PlanType /\ PlanShape(p) /\ ValidRetained(p)
    BY DEF GoodPlan
  <1>2. /\ q \in PlanType /\ q.status = s /\ q.task = p.task
        /\ q.attempt = p.attempt /\ q.len = p.len
        /\ q.stopAt = p.stopAt /\ q.abandonment = p.abandonment
    BY <1>1 DEF PlanType, Live
  <1> HIDE DEF q
  <1>3. PlanShape(q) /\ Keeps(p, q)
    BY <1>1, <1>2, SameAttempts DEF PlanShape, Live, Finished
  <1>4. \A i \in Tasks : p.attempt[i].recovery = "none"
    BY <1>1, PlanFacts DEF PlanShape, NoAttempt, PlanType, Tasks
  <1>5. ValidStatus(q)
    <2>1. Unsettled(q) = Unsettled(p)
      BY <1>2 DEF Unsettled
    <2>2. \A i \in Tasks : p.task[i] \notin {"interrupted", "failed"}
      BY <1>1, PlanFacts DEF ValidRetained, ValidStatus, PlanShape, PlanType, Tasks
    <2> QED
      BY <1>1, <1>2, <2>1, <2>2 DEF ValidStatus, ValidRetained, Live
  <1>6. ValidOrder(q) /\ ValidAbandonment(q)
    BY <1>1, <1>2 DEF ValidRetained, ValidOrder, Issued, ValidAbandonment, Live
  <1>7. ValidRetained(q)
    BY <1>1, <1>2, <1>4, <1>5, <1>6 DEF ValidRetained, ValidRecovery
  <1> QED
    BY <1>2, <1>3, <1>7 DEF GoodPlan, q

\* cancel records that a stop was requested.
LEMMA StopAtGood ==
    ASSUME NEW p, GoodPlan(p), NEW b \in BOOLEAN, p.stopAt => b
    PROVE  LET q == [p EXCEPT !.stopAt = b]
           IN /\ GoodPlan(q) /\ q.len = p.len /\ q.attempt = p.attempt
              /\ q.status = p.status /\ q.task = p.task /\ q.stopAt = b
  <1> DEFINE q == [p EXCEPT !.stopAt = b]
  <1>1. p \in PlanType /\ PlanShape(p) /\ ValidRetained(p)
    BY DEF GoodPlan
  <1>2. /\ q \in PlanType /\ q.status = p.status /\ q.task = p.task
        /\ q.attempt = p.attempt /\ q.len = p.len
        /\ q.stopAt = b /\ q.abandonment = p.abandonment
    BY <1>1 DEF PlanType
  <1> HIDE DEF q
  <1>3. PlanShape(q)
    BY <1>1, <1>2, Zenon DEF PlanShape
  <1>4. ValidRetained(q)
    BY <1>1, <1>2 DEF ValidRetained, ValidRecovery, ValidOrder, Issued, ValidStatus,
                      Unsettled, ValidAbandonment
  <1> QED
    BY <1>2, <1>3, <1>4 DEF GoodPlan, q

\* stop_one records the delivery of the last attempt's stop and its reply.
LEMMA DeliveryGood ==
    ASSUME NEW p, GoodPlan(p), p.len > 0, p.stopAt, NEW s \in {"sent", "confirmed"},
           s = "sent" => p.attempt[p.len].stop = "none"
    PROVE  LET q == [p EXCEPT !.attempt[p.len].stop = s]
           IN /\ GoodPlan(q) /\ Keeps(p, q) /\ q.len = p.len
              /\ q.status = p.status /\ q.task = p.task /\ q.stopAt = p.stopAt
              /\ q.attempt[p.len].stop = s
              /\ \A i \in Tasks : /\ q.attempt[i].state = p.attempt[i].state
                                  /\ q.attempt[i].report = p.attempt[i].report
  <1> DEFINE q == [p EXCEPT !.attempt[p.len].stop = s]
             n == p.len
             b == [p.attempt[n] EXCEPT !.stop = s]
  <1>1. p \in PlanType /\ PlanShape(p) /\ ValidRetained(p)
    BY DEF GoodPlan
  <1>2. n \in Tasks /\ p.attempt[n] \in AttemptType /\ p.attempt[n].state # "none"
    BY <1>1, TaskAssumption DEF PlanType, Tasks, PlanShape
  <1>3. /\ b \in AttemptType
        /\ b.state = p.attempt[n].state /\ b.ack = p.attempt[n].ack
        /\ b.report = p.attempt[n].report /\ b.recovery = p.attempt[n].recovery
        /\ b.stop = s /\ FinalReport(b) = FinalReport(p.attempt[n])
        /\ [b EXCEPT !.stop = "none"] = [p.attempt[n] EXCEPT !.stop = "none"]
    BY <1>2, Zenon DEF AttemptType, FinalReport
  <1>4. q = [p EXCEPT !.attempt = [p.attempt EXCEPT ![n] = b]]
    BY <1>1, <1>2 DEF PlanType
  <1>5. [p.attempt EXCEPT ![n] = b] \in [Tasks -> AttemptType]
    BY <1>1, <1>2, <1>3 DEF PlanType
  <1>6. \A i \in Tasks : [p.attempt EXCEPT ![n] = b][i] = IF i = n THEN b ELSE p.attempt[i]
    BY <1>1, <1>2 DEF PlanType
  <1> DEFINE f == [p.attempt EXCEPT ![n] = b]
  <1> HIDE DEF b, f
  <1>7. /\ q \in PlanType /\ q.status = p.status /\ q.task = p.task
        /\ q.attempt = f /\ q.len = n
        /\ q.stopAt = p.stopAt /\ q.abandonment = p.abandonment
    BY <1>1, <1>4, <1>5, Zenon DEF PlanType, f
  <1>8. \A i \in Tasks : q.attempt[i] = IF i = n THEN b ELSE p.attempt[i]
    BY <1>6, <1>7 DEF f
  <1> HIDE DEF q
  <1>9. \A i \in Tasks : /\ q.attempt[i].state = p.attempt[i].state
                         /\ q.attempt[i].ack = p.attempt[i].ack
                         /\ q.attempt[i].report = p.attempt[i].report
                         /\ q.attempt[i].recovery = p.attempt[i].recovery
                         /\ FinalReport(q.attempt[i]) = FinalReport(p.attempt[i])
    BY <1>3, <1>8, Zenon
  <1>10. PlanShape(q)
    BY <1>1, <1>2, <1>3, <1>7, <1>8, <1>9, SMTT(30) DEF PlanShape, NoAttempt
  <1>11. ASSUME NEW i \in Tasks
         PROVE  /\ ValidLifecycle(q.attempt[i], q.task[i])
                /\ ValidRecovery(q, i)
                /\ q.attempt[i].stop # "none" => q.stopAt
    <2>1. ValidLifecycle(p.attempt[i], p.task[i]) /\ ValidRecovery(p, i)
      BY <1>1 DEF ValidRetained
    <2> QED
      BY <1>7, <1>9, <2>1 DEF ValidLifecycle, ValidRecovery
  <1>12. ValidStatus(q)
    <2>1. Unsettled(q) = Unsettled(p)
      BY <1>9 DEF Unsettled
    <2> QED
      BY <1>1, <1>7, <2>1 DEF ValidRetained, ValidStatus
  <1>13. ValidOrder(q)
    <2> SUFFICES ASSUME NEW i \in Issued(q) \ {1}
                 PROVE  /\ q.attempt[i - 1].state = "completed"
                        /\ FinalReport(q.attempt[i - 1]) = "success"
      BY DEF ValidOrder
    <2>1. i - 1 \in Tasks /\ i \in Issued(p) \ {1}
      BY <1>2, <1>7, TaskAssumption DEF Issued, Tasks
    <2> QED
      BY <1>1, <1>9, <2>1 DEF ValidRetained, ValidOrder
  <1>14. ValidAbandonment(q)
    BY <1>1, <1>2, <1>7, <1>9 DEF ValidRetained, ValidAbandonment
  <1>15. Keeps(p, q)
    <2>1. \A i \in Tasks : [p.attempt[i] EXCEPT !.stop = "none"] = [q.attempt[i] EXCEPT !.stop = "none"]
      BY <1>3, <1>8, Zenon
    <2>2. \A i \in Tasks : p.attempt[i].stop # "none" =>
             \/ q.attempt[i].stop = p.attempt[i].stop
             \/ p.attempt[i].stop = "sent" /\ q.attempt[i].stop = "confirmed"
      BY <1>2, <1>3, <1>8 DEF AttemptType
    <2> QED
      BY <1>7, <1>9, <2>1, <2>2 DEF Keeps, SameOutcome
  <1>16. q.attempt[n].stop = s
    BY <1>2, <1>3, <1>8, Zenon
  <1>17. GoodPlan(q)
    BY <1>7, <1>10, <1>11, <1>12, <1>13, <1>14 DEF GoodPlan, ValidRetained
  <1> QED
    BY <1>7, <1>9, <1>15, <1>16, <1>17, Zenon DEF q

\* Nothing in doubt and nothing under way: the rest of the plan is cancelled.
LEMMA CancelledGood ==
    ASSUME NEW p, GoodPlan(p), p.status \notin Finished,
           \A i \in Tasks : p.attempt[i].state \notin {"issued", "accepted", "unknown"}
    PROVE  /\ GoodPlan(Cancelled(p)) /\ Keeps(p, Cancelled(p))
           /\ Cancelled(p).len = p.len /\ Cancelled(p).attempt = p.attempt
           /\ Cancelled(p).status = "cancelled" /\ Cancelled(p).stopAt = p.stopAt
  <1> DEFINE q == Cancelled(p)
  <1>1. p \in PlanType /\ PlanShape(p) /\ ValidRetained(p)
    BY DEF GoodPlan
  <1>2. /\ q \in PlanType /\ q.status = "cancelled"
        /\ q.attempt = p.attempt /\ q.len = p.len
        /\ q.stopAt = p.stopAt /\ q.abandonment = p.abandonment
        /\ \A i \in Tasks : q.task[i] =
              IF p.task[i] = "pending" THEN "cancelled" ELSE p.task[i]
    <2>1. "cancelled" \in PlanStatus
      BY DEF PlanStatus, Finished
    <2> QED
      BY <1>1, <2>1, CancelFields DEF Cancelled
  <1> HIDE DEF q
  <1>3. PlanShape(q) /\ Keeps(p, q)
    BY <1>1, <1>2, SameAttempts DEF PlanShape, Live
  <1>4. \A i \in Tasks : ValidLifecycle(p.attempt[i], p.task[i])
    BY <1>1, Zenon DEF ValidRetained
  <1>5. \A i \in Tasks : ValidLifecycle(q.attempt[i], q.task[i])
    BY <1>2, <1>4 DEF ValidLifecycle, TaskOf
  <1>6. ValidStatus(q)
    <2>1. Unsettled(q) = {}
      BY <1>2 DEF Unsettled
    <2>2. \A i \in Tasks : q.task[i] \notin {"pending", "running", "interrupted"}
      BY <1>2, <1>4 DEF ValidLifecycle, TaskOf
    <2> QED
      BY <1>2, <2>1, <2>2 DEF ValidStatus, Live
  <1>7. \A i \in Tasks : ValidRecovery(q, i)
    BY <1>1, <1>2 DEF ValidRetained, ValidRecovery, Live, Finished
  <1>8. ValidOrder(q) /\ ValidAbandonment(q)
    BY <1>1, <1>2 DEF ValidRetained, ValidOrder, Issued, ValidAbandonment, Finished
  <1>9. ValidRetained(q)
    BY <1>1, <1>2, <1>5, <1>6, <1>7, <1>8 DEF ValidRetained
  <1> QED
    BY <1>2, <1>3, <1>9 DEF GoodPlan, q

\* JobStore::interrupt leaves a good plan that is no longer live.
LEMMA InterruptGood ==
    ASSUME NEW p, GoodPlan(p)
    PROVE  /\ GoodPlan(Interrupt(p)) /\ Keeps(p, Interrupt(p))
           /\ Interrupt(p).len = p.len /\ Interrupt(p).stopAt = p.stopAt
           /\ Interrupt(p).status \notin Live
           /\ Interrupt(p).status \in {p.status, "cancelled", "interrupted"}
  <1>1. p \in PlanType /\ PlanShape(p) /\ ValidRetained(p)
    BY DEF GoodPlan
  <1>2. CASE p.status \notin Live
    BY <1>2 DEF Interrupt, Keeps, SameOutcome
  <1>3. CASE StopIsSettled(p)
    <2>1. p.status = "stopping"
      BY <1>3 DEF StopIsSettled
    <2>2. ASSUME NEW i \in Tasks
          PROVE  p.attempt[i].state \notin {"issued", "accepted", "unknown"}
      <3>1. CASE i > p.len
        BY <3>1, PlanFacts DEF NoAttempt
      <3>2. CASE ~(i > p.len)
        <4>1. i \in Issued(p)
          BY <1>1, <3>2, TaskAssumption DEF Issued, Tasks, PlanType
        <4> QED
          BY <1>3, <4>1 DEF StopIsSettled
      <3> QED
        BY <3>1, <3>2
    <2>3. Interrupt(p) = Cancelled(p)
      BY <1>3, <2>1 DEF Interrupt, Live
    <2> QED
      BY <2>1, <2>2, <2>3, CancelledGood DEF Finished, Live
  <1>4. CASE p.status \in Live /\ ~StopIsSettled(p)
    <2> DEFINE q == Interrupt(p)
               f == [i \in Tasks |-> IF i \in Unsettled(p)
                        THEN [p.attempt[i] EXCEPT !.state = "unknown"] ELSE p.attempt[i]]
               t == [i \in Tasks |-> IF p.task[i] = "running" THEN "interrupted" ELSE p.task[i]]
    <2>1. f \in [Tasks -> AttemptType] /\ t \in [Tasks -> TaskState]
      BY <1>1 DEF PlanType, AttemptType, TaskState
    <2>2. Doubt(p) = [p EXCEPT !.attempt = f]
      BY <1>1 DEF Doubt, PlanType
    <2>3. Doubt(p).task = p.task
      BY <1>1, <2>2 DEF PlanType
    <2>4. q = [[p EXCEPT !.attempt = f] EXCEPT !.status = "interrupted", !.task = t]
      BY <1>1, <1>4, <2>2, <2>3 DEF Interrupt, PlanType
    <2>5. \A i \in Tasks :
             /\ f[i].ack = p.attempt[i].ack
             /\ f[i].report = p.attempt[i].report
             /\ f[i].recovery = p.attempt[i].recovery
             /\ f[i].stop = p.attempt[i].stop
             /\ f[i].state = IF p.attempt[i].state \in {"issued", "accepted"} THEN "unknown"
                             ELSE p.attempt[i].state
             /\ p.attempt[i].state \notin {"issued", "accepted"} => f[i] = p.attempt[i]
             /\ t[i] = IF p.task[i] = "running" THEN "interrupted" ELSE p.task[i]
      BY <1>1 DEF PlanType, AttemptType, Unsettled
    <2> HIDE DEF f, t
    <2>6. /\ q \in PlanType /\ q.status = "interrupted" /\ q.task = t
          /\ q.attempt = f /\ q.len = p.len
          /\ q.stopAt = p.stopAt /\ q.abandonment = p.abandonment
      BY <1>1, <2>1, <2>4, Zenon DEF PlanType, TaskState
    <2> HIDE DEF q
    <2>7. PlanShape(q) /\ Keeps(p, q)
      BY <1>1, <1>4, <2>5, <2>6 DEF PlanShape, NoAttempt, Keeps, Live, Finished
    <2>8. ASSUME NEW i \in Tasks
          PROVE  ValidLifecycle(q.attempt[i], q.task[i]) /\ ValidRecovery(q, i)
      <3>1. ValidLifecycle(p.attempt[i], p.task[i]) /\ p.attempt[i].recovery = "none"
        BY <1>1, <1>4, PlanFacts, Zenon DEF ValidRetained
      <3> QED
        BY <2>5, <2>6, <3>1 DEF ValidLifecycle, ValidRecovery, TaskOf, FinalReport
    <2>9. ValidOrder(q)
      <3> SUFFICES ASSUME NEW i \in Issued(q) \ {1}
                   PROVE  /\ q.attempt[i - 1].state = "completed"
                          /\ FinalReport(q.attempt[i - 1]) = "success"
        BY DEF ValidOrder
      <3>1. i - 1 \in Tasks /\ i \in Issued(p) \ {1}
        BY <1>1, <2>6, TaskAssumption DEF Issued, Tasks, PlanType
      <3> QED
        BY <1>1, <2>5, <2>6, <3>1 DEF ValidRetained, ValidOrder, FinalReport
    <2>10. ValidStatus(q) /\ ValidAbandonment(q)
      <3>1. Unsettled(q) = {}
        BY <2>5, <2>6, Zenon DEF Unsettled
      <3> QED
        BY <1>1, <1>4, <2>6, <3>1, Zenon DEF ValidRetained, ValidStatus, ValidAbandonment, Live
    <2>11. ValidRetained(q)
      BY <1>1, <2>5, <2>6, <2>8, <2>9, <2>10 DEF ValidRetained
    <2> QED
      BY <2>6, <2>7, <2>11 DEF GoodPlan, Live, q
  <1> QED
    BY <1>2, <1>3, <1>4

\* TaskEngine::cancel: with a runner the plan, which is live, becomes stopping;
\* without one it is cancelled where it stands.
LEMMA CancelGood ==
    ASSUME NEW p, GoodPlan(p), CanCancel(p), NEW runner \in BOOLEAN,
           runner => p.status \in Live,
           ~runner => Unsettled(p) = {}
    PROVE  LET q == CancelPlan(p, runner)
           IN /\ GoodPlan(q) /\ Keeps(p, q) /\ q.len = p.len /\ q.attempt = p.attempt
              /\ q.status = IF runner THEN "stopping" ELSE "cancelled"
              /\ q.stopAt = (p.stopAt \/ p.status # "approved")
  <1> DEFINE b == p.stopAt \/ p.status # "approved"
             m == [p EXCEPT !.stopAt = b]
             q == CancelPlan(p, runner)
  <1>1. p \in PlanType /\ PlanShape(p) /\ ValidRetained(p)
    BY DEF GoodPlan
  <1>2. b \in BOOLEAN /\ (p.stopAt => b)
    BY <1>1 DEF PlanType
  <1>3. p.status \notin Finished
    <2>1. p.status # "abandoned"
      BY <1>1, TaskAssumption DEF CanCancel, ValidRetained, ValidAbandonment, PlanType, Tasks
    <2> QED
      BY <2>1 DEF CanCancel, Finished
  <1>4. /\ GoodPlan(m) /\ m.len = p.len /\ m.attempt = p.attempt
        /\ m.status = p.status /\ m.task = p.task /\ m.stopAt = b
    <2> HIDE DEF b
    <2> QED
      BY <1>2, StopAtGood
  <1>5. q = IF runner THEN [m EXCEPT !.status = "stopping"] ELSE Cancelled(m)
    BY DEF CancelPlan
  <1> HIDE DEF b, m, q
  <1>6. CASE runner
    <2>1. "stopping" \in Live
      BY DEF Live
    <2>2. /\ GoodPlan(q) /\ q.len = p.len /\ q.attempt = p.attempt
          /\ q.status = "stopping" /\ q.stopAt = b
      BY <1>4, <1>5, <1>6, <2>1, StatusGood
    <2> QED
      BY <1>1, <1>2, <1>3, <1>6, <2>2, SameAttempts, Zenon DEF GoodPlan, b, q
  <1>7. CASE ~runner
    <2>1. \A i \in Tasks : m.attempt[i].state \notin {"issued", "accepted", "unknown"}
      BY <1>4, <1>7 DEF CanCancel, Unsettled
    <2>2. /\ GoodPlan(q) /\ q.len = p.len /\ q.attempt = p.attempt
          /\ q.status = "cancelled" /\ q.stopAt = b
      BY <1>3, <1>4, <1>5, <1>7, <2>1, CancelledGood, Zenon
    <2> QED
      BY <1>1, <1>2, <1>3, <1>7, <2>2, SameAttempts, Zenon DEF GoodPlan, b, q
  <1> QED
    BY <1>6, <1>7

\* One attempt, the last, changes its state and evidence; the rest of the plan
\* keeps its evidence, and its pending tasks may be cancelled.
LEMMA LastChanged ==
    ASSUME NEW p, GoodPlan(p), NEW q \in PlanType, NEW i \in Tasks,
           i = p.len, q.len = p.len, q.stopAt = p.stopAt,
           p.status \notin Finished, q.status # "approved",
           \A k \in Tasks : k # i => q.attempt[k] = p.attempt[k],
           q.attempt[i].state # "none", q.attempt[i].stop = p.attempt[i].stop,
           \A k \in Tasks : k # i =>
              q.task[k] = IF p.task[k] = "pending" /\ q.status \in Finished \ {"completed"}
                          THEN "cancelled" ELSE p.task[k],
           p.attempt[i].ack => q.attempt[i].ack,
           p.attempt[i].report \in {"none", q.attempt[i].report},
           p.attempt[i].recovery \in {"none", q.attempt[i].recovery},
           p.attempt[i].state = "unknown" => q.attempt[i].recovery # "none",
           ValidLifecycle(q.attempt[i], q.task[i]),
           \A k \in Tasks : ValidRecovery(q, k),
           ValidStatus(q), ValidAbandonment(q)
    PROVE  GoodPlan(q) /\ Keeps(p, q)
  <1>1. p \in PlanType /\ PlanShape(p) /\ ValidRetained(p)
    BY Zenon DEF GoodPlan
  <1>2. \A k \in Tasks : k \in Nat /\ (k > i => k # i)
    BY TaskAssumption, SMTT(30) DEF Tasks
  <1>3. PlanShape(q)
    <2>1. p.status \in Live \cup {"approved", "interrupted"}
      BY <1>1, Zenon DEF PlanType, Live, Finished
    <2>2. \A k \in Tasks : k > p.len => q.attempt[k] = p.attempt[k] /\ p.task[k] = "pending"
      BY <1>1, <1>2, <2>1, Zenon DEF PlanShape
    <2>3. q.status \in Live \cup {"approved", "interrupted"} =>
             q.status \notin Finished \ {"completed"}
      BY Zenon DEF Live, Finished
    <2>4. \A k \in Tasks : q.attempt[k].state = "none" <=> k > q.len
      BY <1>1, <1>2 DEF PlanShape
    <2> QED
      BY <1>1, <1>2, <2>2, <2>3, <2>4 DEF PlanShape
  <1>4. ASSUME NEW k \in Tasks
        PROVE  /\ ValidLifecycle(q.attempt[k], q.task[k])
               /\ q.attempt[k].stop # "none" => q.stopAt
    <2>1. ValidLifecycle(p.attempt[k], p.task[k]) /\ (p.attempt[k].stop # "none" => p.stopAt)
      BY <1>1, Zenon DEF ValidRetained
    <2>2. CASE k = i
      BY <2>1, <2>2, Zenon
    <2>3. CASE k # i
      <3>1. p.task[k] = "pending" => p.attempt[k].state = "none"
        BY <2>1, Zenon DEF ValidLifecycle, TaskOf
      <3>2. /\ q.attempt[k] = p.attempt[k]
            /\ q.task[k] = p.task[k] \/ (p.task[k] = "pending" /\ q.task[k] = "cancelled")
        BY <2>3, Zenon
      <3>3. CASE q.task[k] = p.task[k]
        BY <2>1, <3>2, <3>3, ZenonT(30)
      <3>4. CASE p.task[k] = "pending" /\ q.task[k] = "cancelled"
        BY <2>1, <3>1, <3>2, <3>4 DEF ValidLifecycle
      <3> QED
        BY <3>2, <3>3, <3>4, Zenon
    <2> QED
      BY <2>2, <2>3, Zenon
  <1>5. ValidOrder(q)
    <2> SUFFICES ASSUME NEW k \in Issued(q) \ {1}
                 PROVE  /\ q.attempt[k - 1].state = "completed"
                        /\ FinalReport(q.attempt[k - 1]) = "success"
      BY Zenon DEF ValidOrder
    <2>1. k - 1 \in Tasks /\ k - 1 # i /\ k - 1 < p.len
      BY <1>1, TaskAssumption DEF Issued, Tasks, PlanType
    <2>2. q.attempt[k - 1] = p.attempt[k - 1]
      BY <2>1, Zenon
    <2>3. /\ p.attempt[k - 1].state = "completed"
          /\ FinalReport(p.attempt[k - 1]) = "success"
      BY <2>1, PlanFacts, SMTT(30)
    <2> QED
      BY <2>2, <2>3, Zenon
  <1>6. Keeps(p, q)
    BY <1>1 DEF Keeps
  <1> QED
    BY <1>3, <1>4, <1>5, <1>6 DEF GoodPlan, ValidRetained

\* AttemptJournal::record of an acknowledgement or of a final report.
LEMMA RecordGood ==
    ASSUME NEW p, GoodPlan(p), NEW i \in Tasks, NEW r \in Reports, CanRecord(p, i, r)
    PROVE  LET q == RecordReport(p, i, r)
           IN /\ GoodPlan(q) /\ Keeps(p, q) /\ q.len = p.len /\ q.stopAt = p.stopAt
              /\ i = p.len /\ p.attempt[i].report = "none"
              /\ q.status \in Live => q.status = p.status
              /\ q.status # "approved"
              /\ q.status = "interrupted" => \E k \in Tasks : q.attempt[k].state = "unknown"
  <1> DEFINE q == RecordReport(p, i, r)
             a == p.attempt[i]
  <1>1. p \in PlanType /\ PlanShape(p) /\ ValidRetained(p)
    BY DEF GoodPlan
  <1>2. a \in AttemptType /\ ValidLifecycle(a, p.task[i]) /\ p.status \in Live
    BY <1>1, Zenon DEF PlanType, ValidRetained, CanRecord
  <1>3. /\ a.state \in {"issued", "accepted"} /\ a.report = "none" /\ p.task[i] = "running"
        /\ a.state = "accepted" => a.ack
        /\ a.state = "issued" => ~a.ack
    BY <1>2, Zenon DEF CanRecord, Fits, ValidLifecycle
  <1>4. i = p.len /\ \A k \in Tasks : p.attempt[k].recovery = "none"
    BY <1>2, <1>3, PlanFacts
  <1>5. /\ \A k \in Tasks : p.task[k] \notin {"interrupted", "failed"}
        /\ \A k \in Tasks : k # i => /\ p.attempt[k].state \in {"none", "completed"}
                                     /\ p.task[k] \in {"pending", "completed"}
        /\ ~p.abandonment
    <2>1. \A k \in Tasks : k # i => /\ p.attempt[k].state \in {"none", "completed"}
                                    /\ ValidLifecycle(p.attempt[k], p.task[k])
      BY <1>1, <1>4, PlanFacts DEF ValidRetained
    <2>2. ~p.abandonment /\ \A k \in Tasks : p.task[k] \notin {"interrupted", "failed"}
      BY <1>1, <1>2 DEF ValidRetained, ValidAbandonment, ValidStatus, PlanType, Live
    <2>3. \A k \in Tasks : k > p.len => p.task[k] = "pending"
      BY <1>1, <1>2 DEF PlanShape
    <2>4. \A k \in Tasks : k < p.len => p.task[k] = "completed"
      BY PlanFacts
    <2>5. \A k \in Tasks : k \in Nat /\ p.len \in Nat
      BY <1>1, TaskAssumption DEF Tasks, PlanType
    <2> QED
      BY <1>4, <2>1, <2>2, <2>3, <2>4, <2>5
  <1>6. p.status \notin Finished
    BY <1>2, Zenon DEF Live, Finished
  <1>7. CASE r = "accepted"
    <2> DEFINE b == [a EXCEPT !.state = "accepted", !.ack = TRUE]
               f == [p.attempt EXCEPT ![i] = b]
    <2>1. /\ b \in AttemptType /\ b.state = "accepted" /\ b.ack = TRUE /\ b.stop = a.stop
          /\ b.report = a.report /\ b.recovery = a.recovery
      BY <1>2, Zenon DEF AttemptType
    <2>2. f \in [Tasks -> AttemptType] /\ \A k \in Tasks : f[k] = IF k = i THEN b ELSE p.attempt[k]
      BY <1>1, <2>1 DEF PlanType
    <2>3. q = [p EXCEPT !.attempt = f]
      BY <1>1, <1>7 DEF RecordReport, PlanType
    <2> HIDE DEF b, f
    <2>4. /\ q \in PlanType /\ q.status = p.status /\ q.len = p.len /\ q.task = p.task
          /\ q.stopAt = p.stopAt /\ q.abandonment = p.abandonment /\ q.attempt = f
      BY <1>1, <2>2, <2>3, Zenon DEF PlanType
    <2> HIDE DEF q
    <2>5. ValidLifecycle(q.attempt[i], q.task[i]) /\ \A k \in Tasks : ValidRecovery(q, k)
      BY <1>3, <1>4, <2>1, <2>2, <2>4 DEF ValidLifecycle, ValidRecovery
    <2>6. ValidStatus(q)
      <3>1. Unsettled(q) = Unsettled(p)
        BY <1>3, <2>1, <2>2, <2>4 DEF Unsettled
      <3> QED
        BY <1>1, <1>2, <2>4, <3>1 DEF ValidRetained, ValidStatus
    <2>7. ValidAbandonment(q) /\ q.status # "approved"
      BY <1>1, <1>2, <1>5, <2>4, Zenon DEF ValidRetained, ValidAbandonment, Live
    <2>8. GoodPlan(q) /\ Keeps(p, q)
      <3>1. /\ q.attempt[i].state = "accepted" /\ q.attempt[i].stop = p.attempt[i].stop
            /\ q.attempt[i].ack /\ p.attempt[i].report = "none"
            /\ p.attempt[i].recovery = "none" /\ p.attempt[i].state # "unknown"
        BY <1>3, <1>4, <2>1, <2>2, <2>4, Zenon
      <3>2. \A k \in Tasks : k # i => q.attempt[k] = p.attempt[k] /\ q.task[k] = p.task[k]
        BY <2>2, <2>4
      <3>3. q.status \notin Finished
        BY <1>6, <2>4, Zenon
      <3> QED
        BY <1>4, <1>6, <2>4, <2>5, <2>6, <2>7, <3>1, <3>2, <3>3, LastChanged
    <2> QED
      BY <1>2, <1>3, <1>4, <2>4, <2>8 DEF Live, q
  <1>8. CASE r # "accepted"
    <2> DEFINE b == [a EXCEPT !.state = StateOf(r), !.report = r]
               m == [p EXCEPT !.attempt[i] = b, !.task[i] = TaskOf(r)]
    <2>1. /\ b \in AttemptType /\ b.state = StateOf(r) /\ b.ack = a.ack /\ b.stop = a.stop
          /\ b.report = r /\ b.recovery = "none" /\ TaskOf(r) \in TaskState
      <3>1. StateOf(r) \in {"completed", "rejected", "unknown"} /\ TaskOf(r) \in TaskState
        BY DEF StateOf, TaskOf, TaskState
      <3>2. r \in {"success", "failure", "rejected", "unknown"} /\ a.recovery = "none"
        BY <1>4, <1>8 DEF Reports
      <3> QED
        BY <1>2, <3>1, <3>2, Zenon DEF AttemptType
    <2>2. q = Settle(m, r)
      BY <1>8, Zenon DEF RecordReport
    <2> HIDE DEF b, q
    <2>3. /\ m \in PlanType /\ m.status = p.status /\ m.len = p.len
          /\ m.stopAt = p.stopAt /\ m.abandonment = p.abandonment
          /\ \A k \in Tasks : m.attempt[k] = IF k = i THEN b ELSE p.attempt[k]
          /\ \A k \in Tasks : m.task[k] = IF k = i THEN TaskOf(r) ELSE p.task[k]
      <3> DEFINE u == TaskOf(r)
                 f == [p.attempt EXCEPT ![i] = b]
                 t == [p.task EXCEPT ![i] = u]
      <3>1. b \in AttemptType /\ u \in TaskState
        BY <2>1
      <3> HIDE DEF u
      <3>2. f \in [Tasks -> AttemptType] /\ t \in [Tasks -> TaskState]
        BY <1>1, <3>1 DEF PlanType, TaskState
      <3>3. \A k \in Tasks : /\ f[k] = IF k = i THEN b ELSE p.attempt[k]
                             /\ t[k] = IF k = i THEN u ELSE p.task[k]
        BY <1>1 DEF PlanType
      <3>4. m = [p EXCEPT !.attempt = f, !.task = t]
        BY <1>1 DEF PlanType, u
      <3> HIDE DEF f, t
      <3>5. /\ m \in PlanType /\ m.status = p.status /\ m.len = p.len
            /\ m.stopAt = p.stopAt /\ m.abandonment = p.abandonment
            /\ m.attempt = f /\ m.task = t
        BY <1>1, <3>2, <3>4, Zenon DEF PlanType, TaskState
      <3> HIDE DEF m
      <3> QED
        BY <3>3, <3>5 DEF u
    <2> HIDE DEF m
    <2>4. /\ r \in {"success", "failure", "rejected", "unknown"}
          /\ r \in {"success", "failure", "unknown"} => a.ack
          /\ r = "rejected" => ~a.ack
      BY <1>2, <1>3, <1>8, Zenon DEF Reports, CanRecord, Fits, AttemptType
    <2> DEFINE drop == r \notin {"unknown", "success"} \/ (r = "success" /\ p.status = "stopping")
               all == \A k \in Tasks : m.task[k] = "completed"
    <2>5. /\ q \in PlanType /\ q.len = p.len /\ q.attempt = m.attempt
          /\ q.stopAt = p.stopAt /\ q.abandonment = p.abandonment
          /\ q.status = IF r = "unknown" THEN "interrupted"
                        ELSE IF r # "success" THEN "failed"
                        ELSE IF p.status = "stopping" THEN "cancelled"
                        ELSE IF all THEN "completed" ELSE "running"
          /\ \A k \in Tasks : q.task[k] = IF drop /\ m.task[k] = "pending" THEN "cancelled"
                                          ELSE m.task[k]
      <3>1. {"failed", "cancelled", "interrupted", "completed"} \subseteq PlanStatus
        BY DEF PlanStatus, Finished
      <3>2. CASE r = "unknown"
        BY <2>2, <2>3, <3>2 DEF Settle, PlanType
      <3>3. CASE r \notin {"unknown", "success"}
        BY <2>2, <2>3, <3>1, <3>3, CancelFields DEF Settle
      <3>4. CASE r = "success" /\ p.status = "stopping"
        BY <2>2, <2>3, <3>1, <3>4, CancelFields DEF Settle, Cancelled
      <3>5. CASE r = "success" /\ p.status = "running" /\ all
        BY <2>2, <2>3, <3>5 DEF Settle, PlanType, Finished
      <3>6. CASE r = "success" /\ p.status = "running" /\ ~all
        BY <2>2, <2>3, <3>6 DEF Settle
      <3> QED
        BY <1>2, <3>2, <3>3, <3>4, <3>5, <3>6 DEF Live
    <2>6. /\ TaskOf(r) # "pending"
          /\ \A k \in Tasks : q.attempt[k] = IF k = i THEN b ELSE p.attempt[k]
          /\ \A k \in Tasks : q.task[k] = IF k = i THEN TaskOf(r)
                ELSE IF drop /\ p.task[k] = "pending" THEN "cancelled" ELSE p.task[k]
      BY <2>3, <2>5 DEF TaskOf
    <2>7. drop <=> q.status \in Finished \ {"completed"}
      BY <1>2, <2>4, <2>5 DEF Live, Finished
    <2>8. ValidLifecycle(q.attempt[i], q.task[i])
      BY <2>1, <2>4, <2>6, Zenon DEF ValidLifecycle, StateOf, TaskOf, FinalReport
    <2>9. \A k \in Tasks : ValidRecovery(q, k)
      BY <1>4, <2>1, <2>6 DEF ValidRecovery
    <2>10. ValidStatus(q)
      <3>1. Unsettled(q) = {}
        BY <1>5, <2>1, <2>4, <2>6 DEF Unsettled, StateOf
      <3>2. q.status = "completed" => \A k \in Tasks : q.task[k] = "completed"
        BY <2>5
      <3>3. q.status = "failed" => q.task[i] = "failed"
        BY <1>2, <2>4, <2>5, <2>6 DEF TaskOf, Live
      <3>4. q.status = "cancelled" =>
              \A k \in Tasks : q.task[k] \notin {"pending", "running", "interrupted"}
        BY <1>5, <2>4, <2>5, <2>6 DEF TaskOf
      <3>5. q.status \in Live => \A k \in Tasks : q.task[k] \notin {"interrupted", "failed"}
        BY <1>5, <2>4, <2>5, <2>6 DEF TaskOf, Live
      <3> QED
        BY <3>1, <3>2, <3>3, <3>4, <3>5 DEF ValidStatus
    <2>11. ValidAbandonment(q) /\ q.status # "approved"
      BY <1>5, <2>5, ZenonT(30) DEF ValidAbandonment, PlanType
    <2>12. GoodPlan(q) /\ Keeps(p, q)
      <3>1. q.attempt[i].state # "none"
        BY <2>1, <2>4, <2>6, Zenon DEF StateOf
      <3> HIDE DEF drop
      <3>2. \A k \in Tasks : k # i =>
              q.task[k] = IF p.task[k] = "pending" /\ q.status \in Finished \ {"completed"}
                          THEN "cancelled" ELSE p.task[k]
        BY <2>6, <2>7, Zenon
      <3>3. /\ q.attempt[i].stop = p.attempt[i].stop
            /\ p.attempt[i].ack => q.attempt[i].ack
            /\ p.attempt[i].report = "none" /\ p.attempt[i].recovery = "none"
            /\ p.attempt[i].state # "unknown"
        BY <1>3, <1>4, <2>1, <2>6, Zenon
      <3>4. /\ q \in PlanType /\ q.len = p.len /\ q.stopAt = p.stopAt /\ i = p.len
            /\ p.status \notin Finished /\ q.status # "approved"
        BY <1>4, <1>6, <2>5, <2>11, Zenon
      <3>5. \A k \in Tasks : k # i => q.attempt[k] = p.attempt[k]
        BY <2>6
      <3> QED
        BY <2>8, <2>9, <2>10, <2>11, <3>1, <3>2, <3>3, <3>4, <3>5, LastChanged
    <2>13. q.status = "interrupted" => q.attempt[i].state = "unknown"
      BY <2>1, <2>4, <2>5, <2>6 DEF StateOf
    <2>14. q.status \in Live => q.status = p.status
      BY <1>2, <2>5, Zenon DEF Live
    <2> QED
      BY <1>3, <1>4, <2>5, <2>11, <2>12, <2>13, <2>14 DEF q
  <1> QED
    BY <1>7, <1>8

\* An interrupted plan in doubt: the last attempt is the one in doubt, everything
\* before it completed, everything after it is pending, nothing is recovered.
LEMMA DoubtFacts ==
    ASSUME NEW p, GoodPlan(p), NEW i \in Tasks,
           p.status = "interrupted", p.attempt[i].state = "unknown"
    PROVE  /\ i = p.len /\ i > 0 /\ ~p.abandonment /\ p.status \notin Finished
           /\ p.task[i] = "interrupted"
           /\ p.attempt[i].report = "none" \/ (p.attempt[i].report = "unknown" /\ p.attempt[i].ack)
           /\ \A k \in Tasks : p.attempt[k].recovery = "none"
           /\ \A k \in Tasks : k # i => /\ p.task[k] \in {"pending", "completed"}
                                        /\ p.attempt[k].state \in {"none", "completed"}
  <1>1. p \in PlanType /\ PlanShape(p) /\ ValidRetained(p)
    BY DEF GoodPlan
  <1>2. i = p.len
    BY PlanFacts
  <1>3. \A k \in Tasks : k \in Nat /\ k > 0
    BY TaskAssumption DEF Tasks
  <1>4. \A k \in Tasks : /\ k < p.len => p.task[k] = "completed" /\ p.attempt[k].state = "completed"
                         /\ k > p.len => p.task[k] = "pending" /\ p.attempt[k].state = "none"
    BY <1>1, PlanFacts DEF PlanShape, NoAttempt
  <1>5. ValidLifecycle(p.attempt[i], p.task[i]) /\ \A k \in Tasks : ValidRecovery(p, k)
    BY <1>1 DEF ValidRetained
  <1>6. \A k \in Tasks : p.attempt[k].recovery = "none"
    BY <1>2, <1>5 DEF ValidRecovery
  <1>7. ~p.abandonment
    BY <1>1, Zenon DEF ValidRetained, ValidAbandonment, PlanType
  <1> QED
    BY <1>2, <1>3, <1>4, <1>5, <1>6, <1>7 DEF ValidLifecycle, Finished

\* request_recovery::apply settles the attempt in doubt by the retained report.
LEMMA RecoverGood ==
    ASSUME NEW p, GoodPlan(p), NEW i \in Tasks, NEW r \in {"success", "failure"},
           CanRecover(p, i)
    PROVE  LET q == RecoverPlan(p, i, r)
           IN /\ GoodPlan(q) /\ Keeps(p, q) /\ q.len = p.len /\ q.stopAt = p.stopAt
              /\ q.status \notin Live \cup {"approved"}
  <1> DEFINE q == RecoverPlan(p, i, r)
             a == p.attempt[i]
             b == [a EXCEPT !.state = "completed", !.recovery = r]
             u == TaskOf(r)
             m == [p EXCEPT !.attempt[i] = b, !.task[i] = u]
             all == \A k \in Tasks : m.task[k] = "completed"
  <1>1. p \in PlanType /\ PlanShape(p) /\ ValidRetained(p)
    BY DEF GoodPlan
  <1>2. p.status = "interrupted" /\ a.state = "unknown" /\ a \in AttemptType
    BY <1>1 DEF CanRecover, PlanType
  <1>3. /\ i = p.len /\ ~p.abandonment /\ p.status \notin Finished
        /\ a.report = "none" \/ (a.report = "unknown" /\ a.ack)
        /\ \A k \in Tasks : p.attempt[k].recovery = "none"
        /\ \A k \in Tasks : k # i => /\ p.task[k] \in {"pending", "completed"}
                                     /\ p.attempt[k].state \in {"none", "completed"}
    BY <1>2, DoubtFacts
  <1>4. /\ b \in AttemptType /\ b.state = "completed" /\ b.recovery = r
        /\ b.ack = a.ack /\ b.report = a.report /\ b.stop = a.stop
        /\ u = IF r = "success" THEN "completed" ELSE "failed"
    BY <1>2, Zenon DEF AttemptType, TaskOf
  <1>5. q = IF r = "failure" THEN [CancelPending(m) EXCEPT !.status = "failed"]
            ELSE IF all THEN [m EXCEPT !.status = "completed"] ELSE m
    BY DEF RecoverPlan
  <1> HIDE DEF q, a, b, u
  <1>6. /\ m \in PlanType /\ m.status = p.status /\ m.len = p.len
        /\ m.stopAt = p.stopAt /\ m.abandonment = p.abandonment
        /\ \A k \in Tasks : m.attempt[k] = IF k = i THEN b ELSE p.attempt[k]
        /\ \A k \in Tasks : m.task[k] = IF k = i THEN u ELSE p.task[k]
    <2>1. b \in AttemptType
      BY <1>4
    <2>2. u \in TaskState
      BY <1>4 DEF TaskState
    <2> DEFINE f == [p.attempt EXCEPT ![i] = b]
               t == [p.task EXCEPT ![i] = u]
    <2>3. f \in [Tasks -> AttemptType] /\ t \in [Tasks -> TaskState]
      BY <1>1, <2>1, <2>2 DEF PlanType, TaskState
    <2>4. \A k \in Tasks : /\ f[k] = IF k = i THEN b ELSE p.attempt[k]
                           /\ t[k] = IF k = i THEN u ELSE p.task[k]
      BY <1>1 DEF PlanType
    <2>5. m = [p EXCEPT !.attempt = f, !.task = t]
      BY <1>1 DEF PlanType
    <2> HIDE DEF f, t
    <2>6. /\ m \in PlanType /\ m.status = p.status /\ m.len = p.len
          /\ m.stopAt = p.stopAt /\ m.abandonment = p.abandonment
          /\ m.attempt = f /\ m.task = t
      BY <1>1, <2>3, <2>5, Zenon DEF PlanType, TaskState
    <2> HIDE DEF m
    <2> QED
      BY <2>4, <2>6
  <1> HIDE DEF m
  <1>7. /\ q \in PlanType /\ q.len = p.len /\ q.attempt = m.attempt
        /\ q.stopAt = p.stopAt /\ q.abandonment = p.abandonment
        /\ q.status = IF r = "failure" THEN "failed"
                      ELSE IF all THEN "completed" ELSE "interrupted"
        /\ \A k \in Tasks : q.task[k] = IF r = "failure" /\ m.task[k] = "pending"
                                        THEN "cancelled" ELSE m.task[k]
    <2>1. CASE r = "failure"
      <3>1. "failed" \in PlanStatus
        BY DEF PlanStatus, Finished
      <3> QED
        BY <1>5, <1>6, <2>1, <3>1, CancelFields
    <2>2. CASE r = "success" /\ all
      BY <1>5, <1>6, <2>2 DEF PlanType, Finished
    <2>3. CASE r = "success" /\ ~all
      BY <1>2, <1>5, <1>6, <2>3, Zenon
    <2> QED
      BY <2>1, <2>2, <2>3
  <1>8. /\ \A k \in Tasks : q.attempt[k] = IF k = i THEN b ELSE p.attempt[k]
        /\ \A k \in Tasks : q.task[k] = IF k = i THEN u
              ELSE IF r = "failure" /\ p.task[k] = "pending" THEN "cancelled" ELSE p.task[k]
    BY <1>4, <1>6, <1>7, SMTT(30)
  <1>9. ValidLifecycle(q.attempt[i], q.task[i])
    BY <1>4, <1>8 DEF ValidLifecycle, FinalReport, u
  <1>10. /\ (\A k \in Tasks : q.task[k] = "completed") => q.status = "completed"
         /\ (\E k \in Tasks : q.task[k] = "failed") => q.status = "failed"
         /\ q.status = "completed" => \A k \in Tasks : q.task[k] = "completed"
         /\ q.status = "failed" => q.task[i] = "failed"
         /\ q.status \notin Live \cup {"abandoned", "approved", "cancelled"}
    <2>1. CASE r = "failure"
      BY <1>4, <1>7, <1>8, <2>1, Zenon DEF Live
    <2>2. CASE r = "success"
      BY <1>3, <1>4, <1>6, <1>7, <1>8, <2>2 DEF Live
    <2> QED
      BY <2>1, <2>2
  <1>11. \A k \in Tasks : ValidRecovery(q, k)
    <2> HIDE DEF all
    <2> SUFFICES ASSUME NEW k \in Tasks, q.attempt[k].recovery # "none" PROVE ValidRecovery(q, k)
      BY DEF ValidRecovery
    <2>1. k = i /\ q.attempt[k] = b
      BY <1>3, <1>8
    <2> QED
      BY <1>3, <1>4, <1>7, <1>10, <2>1 DEF ValidRecovery
  <1>12. ValidStatus(q) /\ ValidAbandonment(q)
    <2>1. Unsettled(q) = {}
      BY <1>3, <1>4, <1>8 DEF Unsettled
    <2>2. ValidStatus(q)
      BY <1>10, <2>1 DEF ValidStatus
    <2> QED
      BY <1>1, <1>3, <1>7, <1>10, <2>2 DEF ValidAbandonment, PlanType
  <1>13. \A k \in Tasks : k # i =>
            q.task[k] = IF p.task[k] = "pending" /\ q.status \in Finished \ {"completed"}
                        THEN "cancelled" ELSE p.task[k]
    BY <1>3, <1>7, <1>8, SMTT(30) DEF Finished
  <1>14. GoodPlan(q) /\ Keeps(p, q)
    <2> HIDE DEF all
    <2>1. /\ q.attempt[i].state # "none" /\ q.attempt[i].stop = p.attempt[i].stop
          /\ q.attempt[i].ack = p.attempt[i].ack /\ q.attempt[i].report = p.attempt[i].report
          /\ q.attempt[i].recovery # "none"
      BY <1>4, <1>8, Zenon DEF a
    <2>2. /\ q \in PlanType /\ q.status # "approved" /\ q.len = p.len /\ q.stopAt = p.stopAt
          /\ i = p.len /\ p.status \notin Finished /\ p.attempt[i].recovery = "none"
      BY <1>3, <1>7, <1>10
    <2>3. \A k \in Tasks : k # i => q.attempt[k] = p.attempt[k]
      BY <1>8, Zenon
    <2> QED
      BY <1>9, <1>11, <1>12, <1>13, <2>1, <2>2, <2>3, LastChanged
  <1> QED
    BY <1>7, <1>10, <1>14 DEF q

\* request_execution::abandon gives up an attempt in doubt and what would follow.
LEMMA AbandonGood ==
    ASSUME NEW p, GoodPlan(p), NEW i \in Tasks, CanAbandon(p, i)
    PROVE  LET q == AbandonPlan(p)
           IN /\ GoodPlan(q) /\ Keeps(p, q) /\ q.len = p.len /\ q.stopAt = p.stopAt
              /\ q.status = "abandoned" /\ q.attempt = p.attempt
  <1> DEFINE q == AbandonPlan(p)
             m == CancelPending(p)
  <1>1. p \in PlanType /\ PlanShape(p) /\ ValidRetained(p)
    BY DEF GoodPlan
  <1>2. /\ i = p.len /\ i > 0 /\ ~p.abandonment /\ p.status \notin Finished
        /\ p.task[i] = "interrupted" /\ p.attempt[i].state = "unknown"
        /\ \A k \in Tasks : p.attempt[k].recovery = "none"
        /\ \A k \in Tasks : k # i => /\ p.task[k] \in {"pending", "completed"}
                                     /\ p.attempt[k].state \in {"none", "completed"}
    BY DoubtFacts DEF CanAbandon
  <1>3. /\ m \in PlanType /\ m.attempt = p.attempt /\ m.len = p.len /\ m.stopAt = p.stopAt
        /\ \A k \in Tasks : m.task[k] =
              IF p.task[k] = "pending" THEN "cancelled" ELSE p.task[k]
    BY <1>1 DEF CancelPending, PlanType
  <1>4. q = [m EXCEPT !.status = "abandoned", !.abandonment = TRUE]
    BY DEF AbandonPlan
  <1> HIDE DEF m, q
  <1>5. /\ q \in PlanType /\ q.attempt = p.attempt /\ q.len = p.len
        /\ q.stopAt = p.stopAt /\ q.task = m.task
        /\ q.status = "abandoned" /\ q.abandonment = TRUE
    BY <1>3, <1>4, Zenon DEF PlanType, Finished
  <1>6. PlanShape(q) /\ Keeps(p, q)
    BY <1>1, <1>2, <1>5, SameAttempts DEF PlanShape, Live
  <1>7. \A k \in Tasks : /\ ValidLifecycle(q.attempt[k], q.task[k])
                         /\ q.attempt[k].stop # "none" => q.stopAt
    BY <1>1, <1>3, <1>5 DEF ValidRetained, ValidLifecycle, TaskOf
  <1>8. ValidStatus(q)
    <2>1. Unsettled(q) = {}
      BY <1>2, <1>5 DEF Unsettled
    <2> QED
      BY <1>5, <2>1 DEF ValidStatus, Live
  <1>9. ValidOrder(q) /\ \A k \in Tasks : ValidRecovery(q, k)
    <2>1. ValidOrder(q)
      BY <1>1, <1>5, Zenon DEF ValidRetained, ValidOrder, Issued
    <2>2. \A k \in Tasks : q.attempt[k].recovery = "none"
      BY <1>2, <1>5
    <2>3. \A k \in Tasks : ValidRecovery(q, k)
      BY <2>2 DEF ValidRecovery
    <2> QED
      BY <2>1, <2>3, Zenon
  <1>10. ValidAbandonment(q)
    <2>1. \A k \in Tasks : m.task[k] \notin {"pending", "running", "failed"}
      BY <1>2, <1>3
    <2>2. \A k \in Tasks : q.task[k] \notin {"pending", "running", "failed"}
      BY <1>5, <2>1
    <2>3. q.len > 0 /\ q.attempt[q.len].state = "unknown"
      BY <1>2, <1>5, Zenon
    <2> QED
      BY <1>5, <2>2, <2>3, Zenon DEF ValidAbandonment
  <1> QED
    BY <1>5, <1>6, <1>7, <1>8, <1>9, <1>10 DEF GoodPlan, ValidRetained, q

-----------------------------------------------------------------------------
(* The inductive invariant.                                                *)

Waiting == {"subscribe", "check", "select", "deliver", "sent", "refuse", "refused"}

\* Where the runner is tells what the plan it left behind holds: while it waits
\* an attempt exists, between two attempts the last one has reported, a revision
\* fence that still holds has found a task to issue, a stop is settled only while
\* the plan is stopping, a delivery awaited is on record; an interrupted
\* plan that still has its runner has an attempt in doubt, and a plan that runs
\* has no stop request.
RunnerInv ==
    /\ active <=> pc # "none"
    /\ pc \in Waiting => plan.len > 0
    /\ pc \in {"top", "session", "settle"} =>
          plan.len = 0 \/ plan.attempt[plan.len].report # "none"
    /\ pc = "session" /\ fresh => plan.status = "running" /\ plan.len < N
    /\ pc = "settle" => plan.status = "stopping"
    /\ pc \in {"sent", "refused"} => plan.attempt[plan.len].stop # "none"
    /\ pc \in {"deliver", "refuse"} => plan.stopAt
    /\ active => plan.status # "approved"
    /\ plan.status \in {"approved", "running"} => ~plan.stopAt
    /\ active /\ plan.status = "interrupted" =>
          \E i \in Tasks : plan.attempt[i].state = "unknown"

JobInv ==
    /\ TypeOK
    /\ GoodPlan(plan)
    /\ RunnerInv
    /\ LiveHasRunner
    /\ StopIsNotMissed

\* What an edit of the journal by somebody else leaves of what the runner knows.
LEMMA KeptForRunner ==
    ASSUME NEW p, NEW q, GoodPlan(p), Keeps(p, q), q.len = p.len
    PROVE  /\ p.stopAt => q.stopAt
           /\ p.len > 0 /\ p.attempt[p.len].report # "none" => q.attempt[p.len].report # "none"
           /\ p.len > 0 /\ p.attempt[p.len].stop # "none" => q.attempt[p.len].stop # "none"
  <1>1. p.len > 0 => p.len \in Tasks
    BY TaskAssumption DEF GoodPlan, PlanType, Tasks
  <1> QED
    BY <1>1 DEF Keeps

LEMMA InitGood == Init => JobInv
  <1> SUFFICES ASSUME Init PROVE JobInv
    OBVIOUS
  <1>1. /\ plan \in PlanType /\ plan.status = "approved" /\ plan.len = 0
        /\ ~plan.stopAt /\ ~plan.abandonment
        /\ \A i \in Tasks : plan.task[i] = "pending" /\ plan.attempt[i] = NoAttempt
    BY TaskAssumption DEF Init, PlanType, AttemptType, NoAttempt
  <1>2. TypeOK
    <2>1. /\ active = FALSE /\ closing = FALSE /\ pc = "none" /\ fresh = FALSE /\ owed = 0
          /\ wake = FALSE /\ dispatched = {} /\ stranded = FALSE /\ lapsed = FALSE
      BY DEF Init
    <2>2. /\ active \in BOOLEAN /\ closing \in BOOLEAN /\ fresh \in BOOLEAN
          /\ wake \in BOOLEAN /\ stranded \in BOOLEAN /\ lapsed \in BOOLEAN
      BY <2>1, Zenon
    <2>3. owed \in 0..MaxOwed
      BY <2>1 DEF MaxOwed
    <2>4. dispatched \in SUBSET Tasks
      BY <2>1
    <2>5. pc \in {"none", "top", "settle", "session", "subscribe", "check", "select",
                  "deliver", "sent", "refuse", "refused", "retire"}
      BY <2>1
    <2> QED
      BY <1>1, <2>2, <2>3, <2>4, <2>5 DEF TypeOK
  <1>3. PlanShape(plan)
    BY <1>1, TaskAssumption DEF PlanShape, NoAttempt, Tasks
  <1>4. ValidRetained(plan)
    <2>1. ValidOrder(plan) /\ ValidAbandonment(plan)
      BY <1>1 DEF ValidOrder, Issued, ValidAbandonment, PlanType
    <2>2. Unsettled(plan) = {}
      BY <1>1 DEF Unsettled, NoAttempt
    <2>3. ValidStatus(plan)
      BY <1>1, <2>2, Zenon DEF ValidStatus, Live
    <2>4. \A i \in Tasks : ValidRecovery(plan, i) /\ ValidLifecycle(plan.attempt[i], plan.task[i])
                           /\ plan.attempt[i].stop = "none"
      BY <1>1 DEF ValidRecovery, ValidLifecycle, NoAttempt
    <2> QED
      BY <2>1, <2>3, <2>4 DEF ValidRetained
  <1>5. RunnerInv /\ LiveHasRunner /\ StopIsNotMissed
    BY <1>1 DEF Init, RunnerInv, LiveHasRunner, StopIsNotMissed, Live, Waiting
  <1> QED
    BY <1>1, <1>2, <1>3, <1>4, <1>5 DEF JobInv, GoodPlan

\* The runner's own steps.
LEMMA RunnerStep == JobInv /\ Runner => JobInv'
  <1> SUFFICES ASSUME JobInv, Runner PROVE JobInv'
    OBVIOUS
  <1>0. /\ GoodPlan(plan) /\ plan \in PlanType /\ plan.len \in 0..N
        /\ plan.len > 0 => plan.len \in Tasks
    BY TaskAssumption DEF JobInv, GoodPlan, PlanType, Tasks
  <1> USE DEF JobInv, Goto, Current
  <1>1. CASE ReadPlan
    <2>1. /\ plan' = plan /\ active' = active /\ stranded' = stranded /\ pc = "top" /\ fresh' = TRUE
          /\ pc' \in {"settle", "session", "retire"}
          /\ pc' = "settle" => plan.status = "stopping"
          /\ pc' = "session" => plan.status = "running" /\ plan.len + 1 <= N
      BY <1>1 DEF ReadPlan, NextTask
    <2>2. TypeOK'
      BY <1>1, <2>1, Zenon DEF ReadPlan, TypeOK
    <2>3. RunnerInv'
      BY <1>0, <2>1, TaskAssumption DEF RunnerInv, Waiting
    <2> QED
      BY <2>1, <2>2, <2>3 DEF LiveHasRunner, StopIsNotMissed
  <1>2. CASE SettleStop
    <2>1. plan.status = "stopping" /\ plan.status \notin Finished
      BY <1>2 DEF SettleStop, RunnerInv, Finished
    <2>2. ASSUME NEW i \in Tasks
          PROVE  plan.attempt[i].state \notin {"issued", "accepted", "unknown"}
      <3>1. ValidLifecycle(plan.attempt[i], plan.task[i]) /\ plan.task[i] \notin {"interrupted", "failed"}
        BY <1>0, <2>1, Zenon DEF GoodPlan, ValidRetained, ValidStatus, Live
      <3>2. CASE i = plan.len
        <4>1. plan.attempt[i].report # "none"
          BY <1>0, <1>2, <3>2, TaskAssumption DEF SettleStop, RunnerInv, Tasks
        <4> QED
          BY <3>1, <4>1, Zenon DEF ValidLifecycle
      <3>3. CASE i # plan.len
        BY <1>0, <3>3, PlanFacts, Zenon
      <3> QED
        BY <3>2, <3>3, Zenon
    <2>3. /\ GoodPlan(plan') /\ plan'.len = plan.len /\ plan'.status = "cancelled"
          /\ plan' \in PlanType
      BY <1>0, <1>2, <2>1, <2>2, CancelledGood, Zenon DEF SettleStop, Save, GoodPlan
    <2> QED
      BY <1>2, <2>3, Zenon DEF SettleStop, Save, TypeOK, RunnerInv, LiveHasRunner, StopIsNotMissed, Waiting, Live
  <1>3. CASE IssueGrant
    <2>1. /\ GoodPlan(plan') /\ plan'.len = plan.len + 1 /\ plan'.status = "running"
          /\ plan' \in PlanType /\ plan'.stopAt = plan.stopAt
      <3>1. plan.status = "running" /\ CanIssue(plan) /\ plan' = Issue(plan)
        BY <1>3 DEF IssueGrant, Save, CanIssue
      <3> QED
        BY <1>0, <3>1, IssueGood, IssueFields DEF GoodPlan
    <2>2. /\ pc' = "subscribe" /\ active' = active /\ stranded' = stranded /\ fresh' = FALSE
          /\ pc = "session" /\ plan.status = "running"
      BY <1>3 DEF IssueGrant, Save, CanIssue
    <2>3. TypeOK'
      BY <1>3, <2>1, <2>2, Zenon DEF IssueGrant, TypeOK
    <2>4. RunnerInv'
      BY <1>0, <2>1, <2>2 DEF RunnerInv, Waiting
    <2> QED
      BY <2>1, <2>2, <2>3, <2>4 DEF LiveHasRunner, StopIsNotMissed, RunnerInv
  <1>4. CASE Subscribe \/ CheckStop \/ Wake \/ Dispatch \/ Confirmed \/ Unconfirmed
             \/ SkipDelivery \/ DeliveryUnsaved \/ Bail \/ Abort
    <2>1. plan' = plan /\ active' = active /\ stranded' = stranded /\ fresh' = fresh
      BY <1>4 DEF Subscribe, CheckStop, Wake, Dispatch, Confirmed, Unconfirmed,
                  SkipDelivery, DeliveryUnsaved, Bail, Abort
    <2>2. TypeOK'
      BY <1>0, <1>4, <2>1, Zenon DEF TypeOK, RunnerInv, Waiting, Subscribe, CheckStop, Wake, Dispatch,
                  Confirmed, Unconfirmed, SkipDelivery, DeliveryUnsaved, Bail, Abort, AfterStop
    <2>3. RunnerInv'
      BY <1>0, <1>4, <2>1, Zenon DEF TypeOK, RunnerInv, Waiting, Subscribe, CheckStop, Wake, Dispatch,
                  Confirmed, Unconfirmed, SkipDelivery, DeliveryUnsaved, Bail, Abort, AfterStop
    <2>4. StopIsNotMissed'
      BY <1>0, <1>4, <2>1 DEF TypeOK, RunnerInv, StopIsNotMissed, Waiting, Subscribe, CheckStop,
                  Wake, Dispatch, Confirmed, Unconfirmed, SkipDelivery, DeliveryUnsaved, Bail,
                  Abort, AfterStop
    <2> QED
      BY <2>1, <2>2, <2>3, <2>4, Zenon DEF LiveHasRunner
  <1>5. CASE SaveDelivery
    <2>1. plan.len > 0 /\ plan.stopAt /\ plan.attempt[plan.len].stop = "none"
      BY <1>5 DEF SaveDelivery, RunnerInv, Waiting
    <2>2. /\ GoodPlan(plan') /\ plan'.len = plan.len /\ plan'.status = plan.status
          /\ plan'.stopAt = plan.stopAt /\ plan'.attempt[plan.len].stop = "sent"
          /\ \A i \in Tasks : /\ plan'.attempt[i].state = plan.attempt[i].state
                               /\ plan'.attempt[i].report = plan.attempt[i].report
      BY <1>0, <1>5, <2>1, DeliveryGood, Zenon DEF SaveDelivery, Save
    <2>3. plan' \in PlanType
      BY <2>2 DEF GoodPlan
    <2> QED
      BY <1>0, <1>5, <2>1, <2>2, <2>3, ZenonT(30) DEF SaveDelivery, Save, TypeOK, RunnerInv, LiveHasRunner,
              StopIsNotMissed, Waiting, AwaitStop
  <1>6. CASE StopReplied
    <2>1. plan.len > 0 /\ plan.stopAt /\ plan.attempt[plan.len].stop # "none"
      BY <1>0, <1>6 DEF StopReplied, RunnerInv, Waiting, GoodPlan, ValidRetained
    <2>2. /\ GoodPlan(plan') /\ plan'.len = plan.len /\ plan'.status = plan.status
          /\ plan'.stopAt = plan.stopAt /\ plan'.attempt[plan.len].stop # "none"
          /\ \A i \in Tasks : /\ plan'.attempt[i].state = plan.attempt[i].state
                               /\ plan'.attempt[i].report = plan.attempt[i].report
          /\ fresh' \in BOOLEAN
      <3>1. CASE UNCHANGED <<plan, fresh>>
        BY <1>0, <2>1, <3>1, Zenon DEF TypeOK
      <3>2. CASE Save([plan EXCEPT !.attempt[Current].stop = "confirmed"])
        <4>1. plan' = [plan EXCEPT !.attempt[plan.len].stop = "confirmed"] /\ fresh' = FALSE
          BY <3>2 DEF Save
        <4>2. "confirmed" \in {"sent", "confirmed"} /\ "confirmed" # "sent"
          OBVIOUS
        <4> DEFINE q == [plan EXCEPT !.attempt[plan.len].stop = "confirmed"]
        <4>3. /\ GoodPlan(q) /\ Keeps(plan, q) /\ q.len = plan.len
              /\ q.status = plan.status /\ q.task = plan.task /\ q.stopAt = plan.stopAt
              /\ q.attempt[plan.len].stop = "confirmed"
              /\ \A i \in Tasks : /\ q.attempt[i].state = plan.attempt[i].state
                                  /\ q.attempt[i].report = plan.attempt[i].report
          BY <1>0, <2>1, <4>2, DeliveryGood, Zenon
        <4>4. plan' = q
          BY <4>1
        <4> HIDE DEF q
        <4> QED
          BY <4>1, <4>3, <4>4, Zenon
      <3> QED
        BY <1>6, <3>1, <3>2 DEF StopReplied
    <2>3. plan' \in PlanType
      BY <2>2 DEF GoodPlan
    <2> QED
      BY <1>0, <1>6, <2>1, <2>2, <2>3 DEF StopReplied, TypeOK, RunnerInv, LiveHasRunner,
              StopIsNotMissed, Waiting, AfterStop
  <1>7. CASE Retire
    <2>1. /\ GoodPlan(plan') /\ plan'.len = plan.len /\ plan'.stopAt = plan.stopAt
          /\ plan'.status \in {plan.status, "cancelled", "interrupted"}
          /\ plan'.status \notin Live \/ stranded'
          /\ fresh' \in BOOLEAN /\ stranded' \in BOOLEAN
      BY <1>0, <1>7, InterruptGood, Zenon DEF Retire, Save, TypeOK
    <2>2. plan' \in PlanType
      BY <2>1 DEF GoodPlan
    <2> QED
      BY <1>7, <2>1, <2>2, Zenon DEF Retire, TypeOK, RunnerInv, LiveHasRunner, StopIsNotMissed, Waiting, Live
  <1> QED
    BY <1>1, <1>2, <1>3, <1>4, <1>5, <1>6, <1>7 DEF Runner

\* With a runner, what cancel may still stop is live; without one, the journal
\* accepts the cancellation only if nothing is under way.
LEMMA CancelIsGood ==
    ASSUME JobInv, CanCancel(plan), active \/ Unsettled(plan) = {}
    PROVE  LET q == CancelPlan(plan, active)
           IN /\ GoodPlan(q) /\ Keeps(plan, q) /\ q.len = plan.len /\ q.attempt = plan.attempt
              /\ q.status = IF active THEN "stopping" ELSE "cancelled"
              /\ q.stopAt = (plan.stopAt \/ plan.status # "approved")
  <1>1. GoodPlan(plan) /\ active \in BOOLEAN
    BY DEF JobInv, TypeOK
  <1>2. active => plan.status \in Live
    <2>1. \A i \in Tasks : plan.attempt[i].state # "unknown"
      BY DEF CanCancel
    <2>2. plan.status # "abandoned"
      BY <1>1, <2>1, TaskAssumption DEF GoodPlan, ValidRetained, ValidAbandonment, PlanType, Tasks
    <2>3. active => plan.status \notin {"approved", "interrupted"}
      BY <2>1, ZenonT(30) DEF JobInv, RunnerInv
    <2> QED
      BY <1>1, <2>2, <2>3 DEF CanCancel, GoodPlan, PlanType, Live, Finished
  <1> QED
    BY <1>1, <1>2, CancelGood

LEMMA SavedCancelSettled ==
    ASSUME GoodPlan(plan), ValidRetained(CancelPlan(plan, FALSE))
    PROVE  Unsettled(plan) = {}
  <1> DEFINE b == plan.stopAt \/ plan.status # "approved"
             m == [plan EXCEPT !.stopAt = b]
             q == CancelPlan(plan, FALSE)
  <1>1. b \in BOOLEAN /\ plan \in PlanType
    BY DEF GoodPlan, PlanType
  <1>2. m \in PlanType /\ m.attempt = plan.attempt
    <2> HIDE DEF b
    <2> QED
      BY <1>1 DEF PlanType
  <1>3. q = [CancelPending(m) EXCEPT !.status = "cancelled"]
    BY DEF CancelPlan, Cancelled
  <1> HIDE DEF m, q
  <1>4. q.attempt = plan.attempt /\ q.status = "cancelled"
    <2>1. "cancelled" \in PlanStatus
      BY DEF PlanStatus, Finished
    <2> QED
      BY <1>2, <1>3, <2>1, CancelFields
  <1>5. Unsettled(q) = Unsettled(plan)
    BY <1>4 DEF Unsettled
  <1>6. ValidRetained(q)
    BY Zenon DEF q
  <1> QED
    BY <1>4, <1>5, <1>6 DEF ValidRetained, ValidStatus, Live

\* The steps of the owner, of the gateway's callbacks and of the process.
LEMMA OtherStep ==
    ASSUME JobInv, Next, ~Runner
    PROVE  JobInv'
  <1>0. /\ GoodPlan(plan) /\ plan \in PlanType /\ plan.len \in 0..N
        /\ plan.len > 0 => plan.len \in Tasks
    BY TaskAssumption DEF JobInv, GoodPlan, PlanType, Tasks
  <1> USE DEF JobInv, Goto, Current
  <1>1. CASE Execute
    <2>1. /\ GoodPlan(plan') /\ plan'.len = plan.len /\ plan'.attempt = plan.attempt
          /\ plan'.status = "running" /\ plan'.stopAt = plan.stopAt
      <3>1. "running" \in Live
        BY DEF Live
      <3> QED
        BY <1>0, <1>1, <3>1, StatusGood DEF Execute, Save
    <2>2. /\ pc' = "top" /\ active' = TRUE /\ fresh' = FALSE /\ plan.len = 0 /\ ~plan.stopAt
      BY <1>0, <1>1 DEF Execute, Save, GoodPlan, PlanShape, RunnerInv
    <2>3. TypeOK'
      BY <1>1, <2>1, <2>2, Zenon DEF Execute, TypeOK, GoodPlan
    <2>4. RunnerInv'
      BY <2>1, <2>2 DEF RunnerInv, Waiting
    <2> QED
      BY <2>1, <2>2, <2>3, <2>4 DEF LiveHasRunner, StopIsNotMissed
  <1>2. CASE Cancel
    <2>0. active \in BOOLEAN /\ owed \in 0..MaxOwed
      BY DEF TypeOK
    <2>1. active \/ Unsettled(plan) = {}
      <3>1. ValidRetained(CancelPlan(plan, active))
        BY <1>2 DEF Cancel, Save
      <3>2. CASE active = FALSE
        BY <1>0, <3>1, <3>2, SavedCancelSettled, Zenon
      <3> QED
        BY <2>0, <3>2, Zenon
    <2>2. CanCancel(plan) /\ plan' = CancelPlan(plan, active)
      BY <1>2 DEF Cancel, Save
    <2>3. /\ GoodPlan(plan') /\ plan'.len = plan.len /\ plan'.attempt = plan.attempt
          /\ plan'.status = IF active THEN "stopping" ELSE "cancelled"
          /\ plan'.stopAt = (plan.stopAt \/ plan.status # "approved")
      BY <2>1, <2>2, CancelIsGood
    <2>4. /\ pc' = pc /\ active' = active /\ fresh' = FALSE /\ owed' = owed + 1 /\ owed < MaxOwed
      BY <1>2 DEF Cancel, Save
    <2>5. TypeOK'
      <3>1. owed' \in 0..MaxOwed
        BY <2>0, <2>4 DEF MaxOwed
      <3>2. plan' \in PlanType /\ fresh' \in BOOLEAN
        BY <2>3, <2>4, Zenon DEF GoodPlan
      <3> QED
        BY <1>2, <2>4, <3>1, <3>2 DEF Cancel, TypeOK
    <2>6. RunnerInv'
      <3>1. plan.stopAt => plan'.stopAt
        BY <2>3, Zenon
      <3>2. active => plan.status # "approved"
        BY DEF RunnerInv
      <3>3. pc \in {"deliver", "refuse"} => plan'.stopAt
        BY <3>1 DEF RunnerInv
      <3>4. active <=> pc # "none"
        BY DEF RunnerInv
      <3>5. plan'.status \notin {"approved", "running", "interrupted"} /\ (active => plan'.status = "stopping")
        BY <2>3
      <3> QED
        BY <2>3, <2>4, <3>3, <3>4, <3>5 DEF RunnerInv
    <2>7. StopIsNotMissed'
      BY <2>0, <2>4 DEF StopIsNotMissed, MaxOwed
    <2>8. LiveHasRunner'
      BY <2>3, <2>4 DEF LiveHasRunner, Live
    <2> QED
      BY <2>3, <2>5, <2>6, <2>7, <2>8
  <1>3. CASE Notify \/ Shutdown
    <2>1. /\ plan' = plan /\ active' = active /\ pc' = pc /\ fresh' = fresh
          /\ stranded' = stranded /\ lapsed' = lapsed
      BY <1>3 DEF Notify, Shutdown
    <2>2. TypeOK' /\ StopIsNotMissed'
      <3>0. owed \in 0..MaxOwed
        BY DEF TypeOK
      <3>1. owed' \in 0..MaxOwed
        BY <1>3, <3>0 DEF Notify, Shutdown, MaxOwed
      <3>4. wake' \/ (owed' = owed /\ wake' = wake)
        BY <1>3 DEF Notify, Shutdown
      <3>2. wake' \in BOOLEAN /\ closing' \in BOOLEAN /\ dispatched' = dispatched
        BY <1>3, Zenon DEF Notify, Shutdown, TypeOK
      <3>3. TypeOK'
        BY <2>1, <3>1, <3>2, Zenon DEF TypeOK
      <3> QED
        BY <2>1, <3>3, <3>4 DEF StopIsNotMissed
    <2>3. RunnerInv' /\ LiveHasRunner'
      BY <2>1, Zenon DEF RunnerInv, LiveHasRunner
    <2> QED
      BY <2>1, <2>2, <2>3
  <1>4. CASE Restart
    <2>1. /\ GoodPlan(plan') /\ plan'.len = plan.len /\ plan'.stopAt = plan.stopAt
          /\ plan'.status \in {plan.status, "cancelled", "interrupted"}
          /\ plan'.status \notin Live
      BY <1>0, <1>4, InterruptGood DEF Restart, Save
    <2>2. active' = FALSE /\ pc' = "none" /\ fresh' = FALSE /\ owed' = 0
      BY <1>4 DEF Restart, Save
    <2>3. TypeOK'
      <3>1. owed' \in 0..MaxOwed
        BY <2>2 DEF MaxOwed
      <3>2. /\ closing' \in BOOLEAN /\ wake' \in BOOLEAN /\ stranded' \in BOOLEAN
            /\ lapsed' \in BOOLEAN /\ active' \in BOOLEAN /\ fresh' \in BOOLEAN
        BY <1>4, <2>2, Zenon DEF Restart
      <3>3. dispatched' = dispatched /\ plan' \in PlanType
        BY <1>4, <2>1, Zenon DEF Restart, GoodPlan
      <3> QED
        BY <2>2, <3>1, <3>2, <3>3 DEF TypeOK
    <2> QED
      BY <2>1, <2>2, <2>3 DEF RunnerInv, LiveHasRunner, StopIsNotMissed, Waiting
  <1>5. ASSUME NEW i \in Tasks, Abandon(i) PROVE JobInv'
    <2>1. /\ GoodPlan(plan') /\ plan'.len = plan.len /\ plan'.status = "abandoned"
      BY <1>0, <1>5, AbandonGood DEF Abandon, Save
    <2>2. ~active /\ active' = active /\ pc' = pc /\ fresh' = FALSE
      BY <1>5 DEF Abandon, Save
    <2>3. TypeOK'
      BY <1>5, <2>1, <2>2, ZenonT(30) DEF Abandon, TypeOK, GoodPlan
    <2> QED
      BY <2>1, <2>2, <2>3 DEF RunnerInv, LiveHasRunner, StopIsNotMissed, Waiting, Live
  <1>6. ASSUME NEW i \in Tasks, NEW r \in {"success", "failure"}, Recover(i, r) PROVE JobInv'
    <2>1. GoodPlan(plan') /\ plan'.len = plan.len /\ plan'.status \notin Live \cup {"approved"}
      BY <1>0, <1>6, RecoverGood DEF Recover, Save
    <2>2. ~active /\ active' = active /\ pc' = pc /\ fresh' = FALSE
      BY <1>6 DEF Recover, Save
    <2>3. TypeOK'
      BY <1>6, <2>1, <2>2, Zenon DEF Recover, TypeOK, GoodPlan
    <2> QED
      BY <2>1, <2>2, <2>3 DEF RunnerInv, LiveHasRunner, StopIsNotMissed, Waiting, Live
  <1>7. ASSUME NEW i \in Tasks, NEW r \in Reports, Record(i, r) PROVE JobInv'
    <2>1. /\ GoodPlan(plan') /\ Keeps(plan, plan') /\ plan'.len = plan.len
          /\ plan'.stopAt = plan.stopAt
          /\ i = plan.len /\ plan.attempt[i].report = "none"
          /\ plan'.status \in Live => plan'.status = plan.status
          /\ plan'.status # "approved"
          /\ plan'.status = "interrupted" => \E k \in Tasks : plan'.attempt[k].state = "unknown"
          /\ plan.status \in Live
      <3>1. CanRecord(plan, i, r) /\ plan' = RecordReport(plan, i, r)
        BY <1>7 DEF Record, Save
      <3>2. plan.status \in Live
        BY <3>1 DEF CanRecord
      <3> QED
        BY <1>0, <3>1, <3>2, RecordGood
    <2>2. /\ active' = active /\ pc' = pc /\ fresh' = FALSE /\ stranded' = stranded
          /\ wake' = wake /\ owed' = owed /\ lapsed' = lapsed
      BY <1>7, Zenon DEF Record, Save
    <2>3. TypeOK'
      BY <1>7, <2>1, <2>2, Zenon DEF Record, TypeOK, GoodPlan
    <2>4. i > 0
      BY TaskAssumption, SMTT(30) DEF Tasks
    <2>5. /\ plan.attempt[plan.len].stop # "none" => plan'.attempt[plan.len].stop # "none"
      BY <1>0, <2>1, <2>4, KeptForRunner, Zenon
    <2>6. pc \notin {"top", "session", "settle"}
      BY <2>1, <2>4, SMTT(30) DEF RunnerInv
    <2>7. RunnerInv'
      BY <2>1, <2>2, <2>5, <2>6 DEF RunnerInv, Live
    <2> QED
      BY <2>1, <2>2, <2>3, <2>5, <2>7, Zenon DEF LiveHasRunner, StopIsNotMissed
  <1> QED
    BY <1>1, <1>2, <1>3, <1>4, <1>5, <1>6, <1>7 DEF Next, Owner, TypeOK

-----------------------------------------------------------------------------
(* The theorems.                                                           *)

\* Every step keeps the invariant.
LEMMA JobStep == JobInv /\ [Next]_jobvars => JobInv'
  <1> SUFFICES ASSUME JobInv, [Next]_jobvars PROVE JobInv'
    BY Zenon
  <1>1. CASE UNCHANGED jobvars
    BY <1>1 DEF JobInv, TypeOK, RunnerInv, LiveHasRunner, StopIsNotMissed, Waiting, Current,
                jobvars, coordinator
  <1>2. CASE Next /\ Runner
    BY <1>2, RunnerStep
  <1>3. CASE Next /\ ~Runner
    BY <1>3, OtherStep
  <1> QED
    BY <1>1, <1>2, <1>3

\* The journal and the runner never leave the inductive invariant, whatever the
\* plan's length and however stops, reports, recoveries, shutdowns and restarts
\* interleave with Driver::drive.
THEOREM JobInvariant == Spec => []JobInv
  BY InitGood, JobStep, PTL DEF Spec

\* Type correctness of the journal record and the runner's state.
THEOREM TypeCorrect == Spec => []TypeOK
  <1>1. JobInv => TypeOK
    BY Zenon DEF JobInv
  <1> QED
    BY <1>1, JobInvariant, PTL

\* Validation (validate_retained) never refuses an edit its own guard admits.
THEOREM EditsAccepted == Spec => []EditsAreAccepted
  <1>1. JobInv => EditsAreAccepted
    <2> SUFFICES ASSUME JobInv PROVE EditsAreAccepted
      OBVIOUS
    <2>0. /\ GoodPlan(plan) /\ plan \in PlanType /\ plan.len \in 0..N
          /\ plan.len > 0 => plan.len \in Tasks
      BY TaskAssumption DEF JobInv, GoodPlan, PlanType, Tasks
    <2>1. ValidRetained(plan) /\ ValidRetained(Interrupt(plan))
      BY <2>0, InterruptGood, Zenon DEF GoodPlan
    <2>2. ASSUME NEW i \in Tasks, NEW r \in Reports, CanRecord(plan, i, r)
          PROVE  ValidRetained(RecordReport(plan, i, r))
      BY <2>0, <2>2, RecordGood DEF GoodPlan
    <2>3. ASSUME pc = "session", fresh
          PROVE  CanIssue(plan) /\ ValidRetained(Issue(plan))
      <3>1. /\ plan.status = "running" /\ plan.len < N
            /\ plan.len = 0 \/ plan.attempt[plan.len].report # "none"
        BY <2>3, Zenon DEF JobInv, RunnerInv
      <3>2. plan.len + 1 \in Tasks /\ plan.task[plan.len + 1] = "pending"
        BY <2>0, <3>1, TaskAssumption DEF GoodPlan, PlanShape, Tasks, Live
      <3>3. plan.len > 0 => plan.attempt[plan.len].report = "success"
        <4> SUFFICES ASSUME plan.len > 0 PROVE plan.attempt[plan.len].report = "success"
          BY Zenon
        <4>1. /\ ValidLifecycle(plan.attempt[plan.len], plan.task[plan.len])
              /\ plan.task[plan.len] \notin {"interrupted", "failed"}
              /\ plan.attempt[plan.len].state # "none"
          <5>1. plan.len \in Tasks /\ plan.status \in Live /\ ~(plan.len > plan.len)
            BY <2>0, <3>1, SMTT(30) DEF Live
          <5>2. ValidRetained(plan) /\ ValidStatus(plan) /\ PlanShape(plan)
            BY <2>0, Zenon DEF GoodPlan, ValidRetained
          <5>3. plan.task[plan.len] \notin {"interrupted", "failed"}
            BY <5>1, <5>2, Zenon DEF ValidStatus
          <5>4. plan.attempt[plan.len].state # "none"
            BY <5>1, <5>2, Zenon DEF PlanShape
          <5> QED
            BY <5>1, <5>2, <5>3, <5>4 DEF ValidRetained
        <4>2. plan.attempt[plan.len].recovery = "none"
          BY <2>0, <3>1, PlanFacts DEF Live
        <4> QED
          BY <3>1, <4>1, <4>2 DEF ValidLifecycle, FinalReport, TaskOf
      <3>4. CanIssue(plan)
        <4>1. /\ (plan.len + 1) - 1 = plan.len /\ plan.len + 1 <= N
              /\ plan.len + 1 > 1 => plan.len > 0
          BY <2>0, <3>1, TaskAssumption, SMTT(30)
        <4> QED
          BY <3>1, <3>2, <3>3, <4>1, Zenon DEF CanIssue, NextTask
      <3> QED
        BY <2>0, <3>4, IssueGood, Zenon DEF GoodPlan
    <2>4. ASSUME pc = "settle" PROVE ValidRetained(Cancelled(plan))
      <3>1. /\ plan.status = "stopping"
            /\ plan.len = 0 \/ plan.attempt[plan.len].report # "none"
        BY <2>4 DEF JobInv, RunnerInv
      <3>2. ASSUME NEW i \in Tasks
            PROVE  plan.attempt[i].state \notin {"issued", "accepted", "unknown"}
        <4>1. /\ ValidLifecycle(plan.attempt[i], plan.task[i])
              /\ plan.task[i] \notin {"interrupted", "failed"}
          BY <2>0, <3>1, Zenon DEF GoodPlan, ValidRetained, ValidStatus, Live
        <4>2. CASE i = plan.len
          <5>1. plan.attempt[i].report # "none"
            BY <3>1, <4>2, TaskAssumption DEF Tasks
          <5> QED
            BY <4>1, <5>1 DEF ValidLifecycle
        <4>3. CASE i # plan.len
          BY <2>0, <4>3, PlanFacts, Zenon
        <4> QED
          BY <4>2, <4>3, ZenonT(30)
      <3> QED
        BY <2>0, <3>1, <3>2, CancelledGood, Zenon DEF GoodPlan, Finished
    <2>5. ASSUME CanCancel(plan), active \/ Unsettled(plan) = {}
          PROVE  ValidRetained(CancelPlan(plan, active))
      BY <2>5, CancelIsGood, Zenon DEF GoodPlan
    <2>6. ASSUME NEW i \in Tasks, CanAbandon(plan, i) PROVE ValidRetained(AbandonPlan(plan))
      BY <2>0, <2>6, AbandonGood DEF GoodPlan
    <2>7. ASSUME NEW i \in Tasks, CanRecover(plan, i), NEW r \in {"success", "failure"}
          PROVE  ValidRetained(RecoverPlan(plan, i, r))
      BY <2>0, <2>7, RecoverGood DEF GoodPlan
    <2> QED
      BY <2>1, <2>2, <2>3, <2>4, <2>5, <2>6, <2>7 DEF EditsAreAccepted
  <1> QED
    BY <1>1, JobInvariant, PTL

\* A live plan has a runner unless that runner's checkpoint failed: cancel, claim
\* and ActiveJob::drop cannot race past one another.
THEOREM LiveKeepsRunner == Spec => []LiveHasRunner
  <1>1. JobInv => LiveHasRunner
    BY DEF JobInv
  <1> QED
    BY <1>1, JobInvariant, PTL

\* No stop request is lost between wait_with_stop's subscription, its check and
\* its select, however often the owner repeats it.
THEOREM StopReachesRunner == Spec => []StopIsNotMissed
  <1>1. JobInv => StopIsNotMissed
    BY Zenon DEF JobInv
  <1> QED
    BY <1>1, JobInvariant, PTL

\* What one step does to the plan: it keeps the evidence, and only IssueGrant
\* adds an attempt.
LEMMA PlanStep ==
    ASSUME JobInv, Next
    PROVE  Keeps(plan, plan') /\ (plan'.len = plan.len \/ IssueGrant)
  <1>0. /\ GoodPlan(plan) /\ plan \in PlanType /\ plan.len \in 0..N
        /\ plan.len > 0 => plan.len \in Tasks
    BY TaskAssumption DEF JobInv, GoodPlan, PlanType, Tasks
  <1> USE DEF Current
  <1>1. ASSUME plan' = plan
        PROVE  Keeps(plan, plan') /\ plan'.len = plan.len
    BY <1>1 DEF Keeps, SameOutcome
  <1>2. CASE SettleStop
    <2>1. pc = "settle" /\ plan' = Cancelled(plan) /\ plan.status = "stopping"
      BY <1>2, Zenon DEF SettleStop, Save, JobInv, RunnerInv
    <2>2. plan.status \in PlanStatus /\ plan.status \notin Finished /\ "cancelled" \in PlanStatus
      BY <2>1 DEF PlanStatus, Finished, Live
    <2>3. /\ plan' \in PlanType /\ plan'.attempt = plan.attempt /\ plan'.len = plan.len
          /\ plan'.stopAt = plan.stopAt
      BY <1>0, <2>1, <2>2, CancelFields, Zenon DEF Cancelled
    <2> QED
      BY <1>0, <2>2, <2>3, SameAttempts, ZenonT(30)
  <1>3. CASE IssueGrant
    <2>1. plan.status = "running" /\ CanIssue(plan) /\ plan' = Issue(plan) /\ PlanShape(plan)
      BY <1>0, <1>3 DEF IssueGrant, Save, CanIssue, GoodPlan
    <2>2. /\ plan'.stopAt = plan.stopAt
          /\ \A i \in Tasks : i # plan.len + 1 => plan'.attempt[i] = plan.attempt[i]
      BY <1>0, <2>1, IssueFields, Zenon
    <2>3. \A i \in Tasks : i = plan.len + 1 => plan.attempt[i] = NoAttempt
      BY <1>0, PlanFacts
    <2>4. \A i \in Tasks : \/ plan'.attempt[i] = plan.attempt[i]
                           \/ /\ ~plan.attempt[i].ack /\ plan.attempt[i].report = "none"
                              /\ plan.attempt[i].recovery = "none" /\ plan.attempt[i].stop = "none"
                              /\ plan.attempt[i].state = "none"
      BY <2>2, <2>3 DEF NoAttempt
    <2>5. plan.status \notin Finished
      BY <2>1 DEF Finished
    <2> QED
      BY <1>3, <2>2, <2>4, <2>5, ZenonT(30) DEF Keeps
  <1>4. CASE SaveDelivery
    BY <1>0, <1>4, DeliveryGood, Zenon DEF SaveDelivery, Save, JobInv, RunnerInv, Waiting
  <1>5. CASE StopReplied
    <2>1. plan.len > 0 /\ plan.stopAt
      BY <1>0, <1>5 DEF StopReplied, JobInv, RunnerInv, Waiting, GoodPlan, ValidRetained
    <2>2. CASE Save([plan EXCEPT !.attempt[Current].stop = "confirmed"])
      BY <1>0, <2>1, <2>2, DeliveryGood, Zenon DEF Save
    <2> QED
      BY <1>1, <1>5, <2>2 DEF StopReplied
  <1>6. CASE Retire \/ Restart
    BY <1>0, <1>1, <1>6, InterruptGood DEF Retire, Restart, Save
  <1>7. CASE Execute
    <2>1. "running" \in Live
      BY DEF Live
    <2> QED
      BY <1>0, <1>7, <2>1, StatusGood DEF Execute, Save
  <1>8. CASE Cancel
    <2>1. CanCancel(plan) /\ plan' = CancelPlan(plan, active) /\ ValidRetained(CancelPlan(plan, active))
      BY <1>8 DEF Cancel, Save
    <2>2. active \in BOOLEAN
      BY Zenon DEF JobInv, TypeOK
    <2>3. CASE active = FALSE
      <3>1. Unsettled(plan) = {}
        BY <1>0, <2>1, <2>3, SavedCancelSettled, Zenon
      <3> QED
        BY <2>1, <3>1, CancelIsGood
    <2>4. CASE active = TRUE
      BY <2>1, <2>4, CancelIsGood, Zenon
    <2> QED
      BY <2>2, <2>3, <2>4, Zenon
  <1>9. ASSUME NEW i \in Tasks, Abandon(i) PROVE Keeps(plan, plan') /\ plan'.len = plan.len
    BY <1>0, <1>9, AbandonGood, Zenon DEF Abandon, Save
  <1>10. ASSUME NEW i \in Tasks, NEW r \in {"success", "failure"}, Recover(i, r)
         PROVE  Keeps(plan, plan') /\ plan'.len = plan.len
    BY <1>0, <1>10, RecoverGood, Zenon DEF Recover, Save
  <1>11. ASSUME NEW i \in Tasks, NEW r \in Reports, Record(i, r)
         PROVE  Keeps(plan, plan') /\ plan'.len = plan.len
    BY <1>0, <1>11, RecordGood DEF Record, Save
  <1>12. CASE ReadPlan \/ Subscribe \/ CheckStop \/ Wake \/ Dispatch \/ Confirmed \/ Unconfirmed
              \/ SkipDelivery \/ DeliveryUnsaved \/ Bail \/ Abort \/ Notify \/ Shutdown
    <2>1. plan' = plan
      BY <1>12 DEF ReadPlan, Subscribe, CheckStop, Wake, Dispatch, Confirmed, Unconfirmed,
                   SkipDelivery, DeliveryUnsaved, Bail, Abort, Notify, Shutdown
    <2> QED
      BY <1>1, <2>1
  <1>13. dispatched \subseteq Tasks
    BY DEF JobInv, TypeOK
  <1> QED
    BY <1>2, <1>3, <1>4, <1>5, <1>6, <1>7, <1>8, <1>9, <1>10, <1>11, <1>12, <1>13
       DEF Next, Runner, Owner

\* Evidence is never rewritten, whatever arrives late: outcome of a finished plan,
\* saved reports, acknowledgements, recoveries, stop deliveries and requests.
THEOREM JournalKept == Spec => JournalIsKept
  <1>1. JobInv /\ [Next]_jobvars => [Keeps(plan, plan')]_jobvars
    BY PlanStep
  <1> QED
    BY <1>1, JobInvariant, PTL DEF Spec, JournalIsKept

\* No grant is issued after a stop request, in a closing coordinator, or before
\* the previous task's success is on record (issue, and its fence in drive).
THEOREM IssuanceOrdered == Spec => IssuanceIsOrdered
  <1>1. ASSUME JobInv, JobInv', Next PROVE IssuesInOrder
    <2> SUFFICES ASSUME NEW i \in Tasks, plan.attempt[i].state = "none",
                        plan'.attempt[i].state # "none"
                 PROVE  /\ active /\ ~closing /\ ~plan.stopAt
                        /\ plan.status = "running"
                        /\ \A k \in 1..(i - 1) : plan.attempt[k].report = "success"
      BY DEF IssuesInOrder
    <2>0. GoodPlan(plan) /\ PlanShape(plan) /\ plan \in PlanType /\ PlanShape(plan') /\ i \in Nat
      BY <1>1, TaskAssumption DEF JobInv, GoodPlan, Tasks
    <2>1. IssueGrant
      BY <1>1, <2>0, PlanStep, Zenon DEF PlanShape
    <2>2. plan.status = "running" /\ CanIssue(plan) /\ plan' = Issue(plan) /\ ~closing /\ pc = "session"
      BY <2>1, Zenon DEF IssueGrant, Save, CanIssue
    <2>3. active /\ ~plan.stopAt
      BY <1>1, <2>2 DEF JobInv, RunnerInv
    <2>4. plan'.len = plan.len + 1 /\ plan.len \in 0..N
      BY <2>0, <2>2, IssueFields, Zenon DEF PlanType
    <2>5. i = plan.len + 1
      BY <2>0, <2>4, SMTT(30) DEF PlanShape
    <2>6. ASSUME NEW k \in 1..(i - 1) PROVE plan.attempt[k].report = "success"
      <3>1. k \in Tasks /\ k <= plan.len
        BY <2>4, <2>5, TaskAssumption DEF Tasks
      <3>2. CASE k = plan.len
        BY <2>2, <2>4, <3>1, <3>2, TaskAssumption, SMTT(30) DEF CanIssue, NextTask, Tasks
      <3>3. CASE k < plan.len
        BY <2>0, <2>2, <3>1, <3>3, PlanFacts DEF FinalReport, Live
      <3> QED
        BY <2>4, <3>1, <3>2, <3>3
    <2> QED
      BY <2>2, <2>3, <2>6
  <1>2. JobInv /\ JobInv' /\ [Next]_jobvars => [IssuesInOrder]_jobvars
    BY <1>1, Zenon
  <1> QED
    BY <1>2, JobInvariant, PTL DEF Spec, IssuanceIsOrdered

-----------------------------------------------------------------------------
(* What the edits do to the evidence, for the composition with the nodes.  *)

SameEvidence(a, b) ==
    /\ b.ack = a.ack /\ b.report = a.report /\ b.recovery = a.recovery
    /\ b.state \in {"completed", "rejected"} => a.state = b.state

\* JobStore::interrupt settles no attempt: it only marks doubt.
LEMMA InterruptEvidence ==
    ASSUME NEW p, GoodPlan(p), NEW i \in Tasks
    PROVE  SameEvidence(p.attempt[i], Interrupt(p).attempt[i])
  <1>1. p \in PlanType
    BY DEF GoodPlan
  <1>2. CASE p.status \notin Live
    BY <1>2, Zenon DEF Interrupt, SameEvidence
  <1>3. CASE p.status \in Live /\ StopIsSettled(p)
    <2>1. Interrupt(p) = Cancelled(p) /\ "cancelled" \in PlanStatus
      BY <1>3 DEF Interrupt, PlanStatus, Finished
    <2>2. Cancelled(p).attempt = p.attempt
      BY <1>1, <2>1, CancelFields DEF Cancelled
    <2> QED
      BY <2>1, <2>2 DEF SameEvidence
  <1>4. CASE p.status \in Live /\ ~StopIsSettled(p)
    <2> DEFINE f == [k \in Tasks |-> IF k \in Unsettled(p)
                        THEN [p.attempt[k] EXCEPT !.state = "unknown"] ELSE p.attempt[k]]
    <2>1. Doubt(p) = [p EXCEPT !.attempt = f]
      BY <1>1 DEF Doubt, PlanType
    <2>2. Interrupt(p).attempt = Doubt(p).attempt
      BY <1>1, <1>4, <2>1 DEF Interrupt, PlanType
    <2>3. Doubt(p).attempt = f
      BY <1>1, <2>1 DEF PlanType
    <2>4. SameEvidence(p.attempt[i], f[i])
      BY <1>1, SMTT(30) DEF SameEvidence, PlanType, AttemptType, Unsettled
    <2> QED
      BY <2>2, <2>3, <2>4
  <1> QED
    BY <1>2, <1>3, <1>4

\* Of all edits only those of Record and of Recover add evidence.
LEMMA QuietStep ==
    ASSUME JobInv, Runner \/ Owner, NEW i \in Tasks
    PROVE  SameEvidence(plan.attempt[i], plan'.attempt[i])
  <1>0. /\ GoodPlan(plan) /\ plan \in PlanType /\ PlanShape(plan) /\ plan.len \in 0..N
        /\ plan.len > 0 => plan.len \in Tasks
    BY TaskAssumption DEF JobInv, GoodPlan, PlanType, Tasks
  <1> USE DEF Current
  <1>1. ASSUME plan'.attempt = plan.attempt
        PROVE  SameEvidence(plan.attempt[i], plan'.attempt[i])
    BY <1>1 DEF SameEvidence
  <1>2. CASE SettleStop
    <2>1. plan' = Cancelled(plan) /\ "cancelled" \in PlanStatus
      BY <1>2 DEF SettleStop, Save, PlanStatus, Finished
    <2> QED
      BY <1>0, <1>1, <2>1, CancelFields DEF Cancelled
  <1>3. CASE IssueGrant
    <2>1. CanIssue(plan) /\ plan' = Issue(plan)
      BY <1>3 DEF IssueGrant, Save
    <2>2. plan'.attempt[i] = IF i = plan.len + 1 THEN [NoAttempt EXCEPT !.state = "issued"]
                             ELSE plan.attempt[i]
      BY <1>0, <2>1, IssueFields
    <2>3. i = plan.len + 1 => plan.attempt[i] = NoAttempt
      BY <1>0, PlanFacts
    <2> QED
      BY <2>2, <2>3, Zenon DEF SameEvidence, NoAttempt
  <1>4. ASSUME NEW s, plan.len > 0, plan' = [plan EXCEPT !.attempt[plan.len].stop = s]
        PROVE  SameEvidence(plan.attempt[i], plan'.attempt[i])
    <2>1. plan'.attempt = [plan.attempt EXCEPT ![plan.len] = [plan.attempt[plan.len] EXCEPT !.stop = s]]
      BY <1>0, <1>4 DEF PlanType
    <2>2. plan'.attempt[i] = IF i = plan.len THEN [plan.attempt[plan.len] EXCEPT !.stop = s]
                             ELSE plan.attempt[i]
      BY <1>0, <2>1, Zenon DEF PlanType
    <2>3. plan.attempt[i] \in AttemptType
      BY <1>0, PlanFacts
    <2> QED
      BY <2>2, <2>3 DEF SameEvidence, AttemptType
  <1>5. CASE SaveDelivery
    BY <1>4, <1>5 DEF SaveDelivery, Save, JobInv, RunnerInv, Waiting
  <1>6. CASE StopReplied
    <2>1. plan.len > 0
      BY <1>6, Zenon DEF StopReplied, JobInv, RunnerInv, Waiting
    <2> QED
      BY <1>1, <1>4, <1>6, <2>1 DEF StopReplied, Save
  <1>7. CASE Retire \/ Restart
    BY <1>0, <1>1, <1>7, InterruptEvidence DEF Retire, Restart, Save
  <1>8. CASE Execute
    BY <1>0, <1>1, <1>8 DEF Execute, Save, PlanType
  <1>9. CASE Cancel
    <2> DEFINE q == [plan EXCEPT !.stopAt = @ \/ plan.status # "approved"]
    <2>1. plan' = CancelPlan(plan, active) /\ active \in BOOLEAN
      BY <1>9 DEF Cancel, Save, JobInv, TypeOK
    <2>2. q \in PlanType /\ q.attempt = plan.attempt
      BY <1>0, Zenon DEF PlanType
    <2>3. CancelPlan(plan, active) = IF active THEN [q EXCEPT !.status = "stopping"] ELSE Cancelled(q)
      BY DEF CancelPlan
    <2> HIDE DEF q
    <2>4. [q EXCEPT !.status = "stopping"].attempt = q.attempt
      BY <2>2 DEF PlanType
    <2>5. Cancelled(q).attempt = q.attempt
      <3>1. "cancelled" \in PlanStatus
        BY DEF PlanStatus, Finished
      <3> QED
        BY <2>2, <3>1, CancelFields, Zenon DEF Cancelled
    <2> QED
      BY <1>1, <2>1, <2>2, <2>3, <2>4, <2>5, Zenon
  <1>10. ASSUME NEW k \in Tasks, Abandon(k) PROVE SameEvidence(plan.attempt[i], plan'.attempt[i])
    <2> DEFINE m == CancelPending(plan)
    <2>1. plan' = [m EXCEPT !.status = "abandoned", !.abandonment = TRUE]
      BY <1>10 DEF Abandon, Save, AbandonPlan
    <2>2. m \in PlanType /\ m.attempt = plan.attempt
      BY <1>0 DEF CancelPending, PlanType
    <2> HIDE DEF m
    <2> QED
      BY <1>1, <2>1, <2>2 DEF PlanType
  <1>11. CASE ReadPlan \/ Subscribe \/ CheckStop \/ Wake \/ Dispatch \/ Confirmed \/ Unconfirmed
              \/ SkipDelivery \/ DeliveryUnsaved \/ Bail \/ Abort \/ Notify \/ Shutdown
    <2>1. plan' = plan
      BY <1>11, ZenonT(30) DEF ReadPlan, Subscribe, CheckStop, Wake, Dispatch, Confirmed, Unconfirmed,
                   SkipDelivery, DeliveryUnsaved, Bail, Abort, Notify, Shutdown
    <2> QED
      BY <1>1, <2>1
  <1> QED
    BY <1>2, <1>3, <1>5, <1>6, <1>7, <1>8, <1>9, <1>10, <1>11, Zenon DEF Runner, Owner

\* Only Dispatch marks a grant as sent, and only while the runner waits.
LEMMA DispatchStep ==
    ASSUME JobInv, Next
    PROVE  \/ dispatched' = dispatched
           \/ /\ dispatched' = dispatched \cup {plan.len} /\ plan' = plan
              /\ plan.len \in Tasks /\ plan.attempt[plan.len].state # "none"
  <1>1. CASE Dispatch
    <2>1. GoodPlan(plan) /\ plan.len > 0
      BY <1>1, Zenon DEF Dispatch, JobInv, RunnerInv, Waiting
    <2>2. plan.len \in Tasks /\ plan.attempt[plan.len].state # "none"
      BY <2>1, TaskAssumption DEF GoodPlan, PlanShape, PlanType, Tasks
    <2> QED
      BY <1>1, <2>2, Zenon DEF Dispatch, Current
  <1>2. CASE ReadPlan \/ SettleStop \/ IssueGrant \/ Subscribe \/ CheckStop \/ Wake
             \/ Confirmed \/ Unconfirmed \/ SaveDelivery \/ SkipDelivery \/ DeliveryUnsaved
    BY <1>2 DEF ReadPlan, SettleStop, IssueGrant, Subscribe, CheckStop, Wake,
                Confirmed, Unconfirmed, SaveDelivery, SkipDelivery, DeliveryUnsaved
  <1>3. CASE StopReplied \/ Bail \/ Abort \/ Retire \/ Execute \/ Cancel \/ Notify \/ Shutdown
             \/ Restart
    BY <1>3 DEF StopReplied, Bail, Abort, Retire, Execute, Cancel, Notify, Shutdown, Restart
  <1>4. ASSUME NEW i, NEW r, Abandon(i) \/ Recover(i, r) \/ Record(i, r)
        PROVE  dispatched' = dispatched
    BY <1>4, ZenonT(30) DEF Abandon, Recover, Record
  <1> QED
    BY <1>1, <1>2, <1>3, <1>4, Zenon DEF Next, Runner, Owner

\* A saved report changes its own attempt, the last one, to what the report says.
LEMMA RecordEvidence ==
    ASSUME JobInv, NEW i \in Tasks, NEW r \in Reports, Record(i, r)
    PROVE  /\ i = plan.len
           /\ \A k \in Tasks : k # i => plan'.attempt[k] = plan.attempt[k]
           /\ r = "accepted" => /\ plan'.attempt[i].state = "accepted"
                                /\ plan'.attempt[i].report = plan.attempt[i].report
           /\ r # "accepted" => /\ plan'.attempt[i].state = StateOf(r)
                                /\ plan'.attempt[i].report = r
                                /\ plan'.attempt[i].ack = plan.attempt[i].ack
           /\ plan'.attempt[i].recovery = "none"
  <1> DEFINE a == plan.attempt[i]
             c == [a EXCEPT !.state = "accepted", !.ack = TRUE]
             b == [a EXCEPT !.state = StateOf(r), !.report = r]
             m == [plan EXCEPT !.attempt[i] = b, !.task[i] = TaskOf(r)]
  <1>1. GoodPlan(plan) /\ plan \in PlanType
    BY DEF JobInv, GoodPlan
  <1>2. CanRecord(plan, i, r) /\ plan' = RecordReport(plan, i, r)
    BY Zenon DEF Record, Save
  <1>3. i = plan.len
    BY <1>1, <1>2, RecordGood, Zenon
  <1>4. a \in AttemptType /\ a.recovery = "none"
    <2>1. /\ \A k \in Tasks : plan.attempt[k] \in AttemptType
          /\ plan.status \in Live => \A k \in Tasks : plan.attempt[k].recovery = "none"
      BY <1>1, PlanFacts, ZenonT(30)
    <2>2. plan.status \in Live
      BY <1>2, Zenon DEF CanRecord
    <2> QED
      BY <2>1, <2>2, Zenon
  <1>5. CASE r = "accepted"
    <2>1. c.state = "accepted" /\ c.report = a.report /\ c.recovery = a.recovery
      BY <1>4 DEF AttemptType
    <2>2. plan' = [plan EXCEPT !.attempt[i] = c]
      BY <1>2, <1>5 DEF RecordReport
    <2> HIDE DEF c, a
    <2>3. plan'.attempt = [plan.attempt EXCEPT ![i] = c]
      BY <1>1, <2>2, Zenon DEF PlanType
    <2>4. \A k \in Tasks : plan'.attempt[k] = IF k = i THEN c ELSE plan.attempt[k]
      BY <1>1, <2>3, ZenonT(30) DEF PlanType
    <2> QED
      BY <1>3, <1>4, <1>5, <2>1, <2>4 DEF a
  <1>6. CASE r # "accepted"
    <2>1. /\ b \in AttemptType /\ b.state = StateOf(r) /\ b.ack = a.ack
          /\ b.report = r /\ b.recovery = "none"
      <3>1. StateOf(r) \in {"completed", "rejected", "unknown"}
        BY DEF StateOf
      <3>2. r \in {"success", "failure", "rejected", "unknown"}
        BY <1>6 DEF Reports
      <3> QED
        BY <1>4, <3>1, <3>2, Zenon DEF AttemptType
    <2>2. plan' = Settle(m, r)
      BY <1>2, <1>6 DEF RecordReport
    <2> HIDE DEF b
    <2>3. m \in PlanType /\ \A k \in Tasks : m.attempt[k] = IF k = i THEN b ELSE plan.attempt[k]
      <3> DEFINE u == TaskOf(r)
                 f == [plan.attempt EXCEPT ![i] = b]
                 t == [plan.task EXCEPT ![i] = u]
      <3>1. u \in TaskState
        BY DEF TaskOf, TaskState
      <3> HIDE DEF u
      <3>2. f \in [Tasks -> AttemptType] /\ t \in [Tasks -> TaskState]
        BY <1>1, <2>1, <3>1 DEF PlanType, TaskState
      <3>3. \A k \in Tasks : f[k] = IF k = i THEN b ELSE plan.attempt[k]
        BY <1>1 DEF PlanType
      <3>4. m = [plan EXCEPT !.attempt = f, !.task = t]
        BY <1>1 DEF PlanType, u
      <3> HIDE DEF f, t
      <3>5. m \in PlanType /\ m.attempt = f
        BY <1>1, <3>2, <3>4, Zenon DEF PlanType, TaskState
      <3> HIDE DEF m
      <3> QED
        BY <3>3, <3>5
    <2> HIDE DEF m
    <2>4. plan'.attempt = m.attempt
      <3>1. {"failed", "cancelled", "interrupted", "completed"} \subseteq PlanStatus
        BY DEF PlanStatus, Finished
      <3>2. CASE r = "unknown"
        BY <2>2, <2>3, <3>2 DEF Settle, PlanType
      <3>3. CASE r \notin {"unknown", "success"}
        BY <2>2, <2>3, <3>1, <3>3, CancelFields DEF Settle
      <3>4. CASE r = "success" /\ m.status = "stopping"
        BY <2>2, <2>3, <3>1, <3>4, CancelFields DEF Settle, Cancelled
      <3>5. CASE r = "success" /\ m.status # "stopping"
        BY <2>2, <2>3, <3>5 DEF Settle, PlanType
      <3> QED
        BY <3>2, <3>3, <3>4, <3>5
    <2> QED
      BY <1>3, <1>6, <2>1, <2>3, <2>4
  <1> QED
    BY <1>5, <1>6

\* A recovery completes its own attempt with the result it was given.
LEMMA RecoverEvidence ==
    ASSUME JobInv, NEW i \in Tasks, NEW r \in {"success", "failure"}, Recover(i, r)
    PROVE  /\ \A k \in Tasks : k # i => plan'.attempt[k] = plan.attempt[k]
           /\ plan'.attempt[i].state = "completed" /\ plan'.attempt[i].recovery = r
           /\ plan'.attempt[i].ack = plan.attempt[i].ack
           /\ plan'.attempt[i].report = plan.attempt[i].report
  <1> DEFINE a == plan.attempt[i]
             b == [a EXCEPT !.state = "completed", !.recovery = r]
             u == TaskOf(r)
             m == [plan EXCEPT !.attempt[i] = b, !.task[i] = u]
             all == \A k \in Tasks : m.task[k] = "completed"
  <1>1. GoodPlan(plan) /\ plan \in PlanType /\ a \in AttemptType
    BY PlanFacts, Zenon DEF JobInv, GoodPlan
  <1>2. plan' = RecoverPlan(plan, i, r)
    BY DEF Recover, Save
  <1>3. plan' = IF r = "failure" THEN [CancelPending(m) EXCEPT !.status = "failed"]
                ELSE IF all THEN [m EXCEPT !.status = "completed"] ELSE m
    BY <1>2 DEF RecoverPlan
  <1>4. /\ b \in AttemptType /\ b.state = "completed" /\ b.recovery = r
        /\ b.ack = a.ack /\ b.report = a.report
        /\ u \in TaskState
    BY <1>1, Zenon DEF AttemptType, TaskOf, TaskState
  <1> HIDE DEF a, b, u
  <1>5. m \in PlanType /\ \A k \in Tasks : m.attempt[k] = IF k = i THEN b ELSE plan.attempt[k]
    <2> DEFINE f == [plan.attempt EXCEPT ![i] = b]
               t == [plan.task EXCEPT ![i] = u]
    <2>1. f \in [Tasks -> AttemptType] /\ t \in [Tasks -> TaskState]
      BY <1>1, <1>4, Zenon DEF PlanType, TaskState
    <2>2. \A k \in Tasks : f[k] = IF k = i THEN b ELSE plan.attempt[k]
      BY <1>1 DEF PlanType
    <2>3. m = [plan EXCEPT !.attempt = f, !.task = t]
      BY <1>1 DEF PlanType
    <2> HIDE DEF f, t
    <2>4. m \in PlanType /\ m.attempt = f
      BY <1>1, <2>1, <2>3, Zenon DEF PlanType, TaskState
    <2> HIDE DEF m
    <2> QED
      BY <2>2, <2>4, Zenon
  <1> HIDE DEF m
  <1>6. plan'.attempt = m.attempt
    <2>1. CASE r = "failure"
      <3>1. "failed" \in PlanStatus
        BY DEF PlanStatus, Finished
      <3> QED
        BY <1>3, <1>5, <2>1, <3>1, CancelFields
    <2>2. CASE r = "success"
      BY <1>3, <1>5, <2>2 DEF PlanType
    <2> QED
      BY <2>1, <2>2
  <1> QED
    BY <1>4, <1>5, <1>6, ZenonT(30) DEF a
=============================================================================
