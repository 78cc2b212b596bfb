-------------------------- MODULE GrantSystemProofs --------------------------
(***************************************************************************)
(* Proofs about a plan executed end to end: what the coordinator's journal *)
(* says of its nodes is true, for plans of any length and any number of    *)
(* sessions, and the composed system follows the journal's specification.  *)
(***************************************************************************)
EXTENDS GrantSystem, TLAPS

JP == INSTANCE ReviewedJobProofs

Reports == {"accepted", "success", "failure", "rejected", "unknown"}

\* The node is done with the grant and never ran its operation.
NeverRuns(i) == i \notin started /\ at[i] = "over"

\* What a report says holds at its node, now and from now on.
Holds(m, sent, rec, ret, run, where) ==
    /\ m \in Tasks \X Reports
    /\ m[1] \in sent
    /\ m[2] = "accepted" => rec[m[1]] # "none"
    /\ m[2] \in {"success", "failure"} => rec[m[1]] = "completed" /\ ret[m[1]] = m[2]
    /\ m[2] = "rejected" => m[1] \notin run /\ where[m[1]] = "over"

Truthful(m) == Holds(m, dispatched, record, retained, started, at)

\* A node acts only on grants that were dispatched, and dispatched grants are
\* issued attempts; its evidence goes before what it does and what it sends.
NodeInv ==
    /\ record \in [Tasks -> {"none", "accepted", "completed", "unknown"}]
    /\ retained \in [Tasks -> {"none", "success", "failure"}]
    /\ at \in [Tasks -> {"idle", "lease", "proved", "claimed", "running", "over"}]
    /\ started \subseteq Tasks
    /\ \A i \in dispatched : plan.attempt[i].state # "none"
    /\ \A i \in Tasks : <<"grant", i>> \in down => i \in dispatched
    /\ \A i \in Tasks :
         /\ at[i] # "idle" => i \in dispatched
         /\ at[i] \in {"claimed", "running"} => record[i] # "none"
         /\ i \in started => at[i] \in {"running", "over"}
         /\ record[i] = "completed" => retained[i] # "none"

\* Reports on the wire and in the hands of workers are truthful.
ReportInv ==
    /\ up \in Seq(Tasks \X Reports)
    /\ \A k \in 1..Len(up) : Truthful(up[k])
    /\ \A m \in saving : Truthful(m)
    /\ busy \in saving \cup {Idle}

\* A waiter exists only while the runner waits, and what confirms it is saved.
Held == {"select", "deliver", "sent"}
WaiterInv ==
    /\ pending # "none" => pc \in Held
    /\ busy # Idle => pc \in Held \cup {"retire", "none"}
    /\ reply = "saved" =>
          /\ pending = "none" /\ busy = Idle
          /\ pc \in Held \cup {"retire"}
          /\ Current \in dispatched
          /\ plan.attempt[Current].report # "none"

\* JournalIsTrue, and a rejected grant will not run either.
EvidenceInv ==
    \A i \in Tasks :
        /\ plan.attempt[i].state = "completed" =>
              record[i] = "completed" /\ retained[i] = JP!FinalReport(plan.attempt[i])
        /\ plan.attempt[i].ack => record[i] # "none"
        /\ plan.attempt[i].state = "rejected" => NeverRuns(i)

SystemInv == JP!JobInv /\ NodeInv /\ ReportInv /\ WaiterInv /\ EvidenceInv

-----------------------------------------------------------------------------
(* The journal's operators are the same in ReviewedJob and in the module of *)
(* its proofs.                                                              *)

LEMMA SameEdits ==
    /\ \A a : Job!FinalReport(a) = JP!FinalReport(a)
    /\ \A p : Job!Cancelled(p) = JP!Cancelled(p)
    /\ \A p : Job!Interrupt(p) = JP!Interrupt(p)
    /\ \A p : Job!Issue(p) = JP!Issue(p)
    /\ \A p : Job!CanIssue(p) <=> JP!CanIssue(p)
    /\ \A p, b : Job!CancelPlan(p, b) = JP!CancelPlan(p, b)
    /\ \A p : Job!CanCancel(p) <=> JP!CanCancel(p)
    /\ \A p, i, r : Job!RecordReport(p, i, r) = JP!RecordReport(p, i, r)
    /\ \A p, i, r : Job!CanRecord(p, i, r) <=> JP!CanRecord(p, i, r)
    /\ \A p, i, r : Job!RecoverPlan(p, i, r) = JP!RecoverPlan(p, i, r)
    /\ \A p, i : Job!CanRecover(p, i) <=> JP!CanRecover(p, i)
    /\ \A p : Job!AbandonPlan(p) = JP!AbandonPlan(p)
    /\ \A p, i : Job!CanAbandon(p, i) <=> JP!CanAbandon(p, i)
    /\ \A p : Job!ValidRetained(p) <=> JP!ValidRetained(p)
  <1>1. \A a : Job!FinalReport(a) = JP!FinalReport(a)
    BY DEF Job!FinalReport, JP!FinalReport
  <1>2. \A p : Job!Cancelled(p) = JP!Cancelled(p)
    BY DEF Job!Cancelled, JP!Cancelled, Job!CancelPending, JP!CancelPending,
           Job!Tasks, JP!Tasks
  <1>3. \A p : Job!Interrupt(p) = JP!Interrupt(p)
    BY DEF Job!Interrupt, JP!Interrupt, Job!Live, JP!Live, Job!StopIsSettled,
           JP!StopIsSettled, Job!Issued, JP!Issued, Job!Cancelled, JP!Cancelled,
           Job!CancelPending, JP!CancelPending, Job!Doubt, JP!Doubt, Job!Unsettled,
           JP!Unsettled, Job!Tasks, JP!Tasks
  <1>4. \A p : Job!Issue(p) = JP!Issue(p)
    BY DEF Job!Issue, JP!Issue, Job!NextTask, JP!NextTask
  <1>5. \A p : Job!CanIssue(p) <=> JP!CanIssue(p)
    BY DEF Job!CanIssue, JP!CanIssue, Job!NextTask, JP!NextTask
  <1>6. \A p, b : Job!CancelPlan(p, b) = JP!CancelPlan(p, b)
    BY DEF Job!CancelPlan, JP!CancelPlan, Job!Cancelled, JP!Cancelled,
           Job!CancelPending, JP!CancelPending, Job!Tasks, JP!Tasks
  <1>7. \A p : Job!CanCancel(p) <=> JP!CanCancel(p)
    BY DEF Job!CanCancel, JP!CanCancel, Job!Tasks, JP!Tasks
  <1>8. \A p, i, r : Job!RecordReport(p, i, r) = JP!RecordReport(p, i, r)
    BY DEF Job!RecordReport, JP!RecordReport, Job!Settle, JP!Settle, Job!StateOf,
           JP!StateOf, Job!TaskOf, JP!TaskOf, Job!CancelPending, JP!CancelPending,
           Job!Cancelled, JP!Cancelled, Job!Tasks, JP!Tasks
  <1>9. \A p, i, r : Job!CanRecord(p, i, r) <=> JP!CanRecord(p, i, r)
    BY DEF Job!CanRecord, JP!CanRecord, Job!Issued, JP!Issued, Job!Saved, JP!Saved,
           Job!Live, JP!Live, Job!Fits, JP!Fits
  <1>10. \A p, i, r : Job!RecoverPlan(p, i, r) = JP!RecoverPlan(p, i, r)
    BY DEF Job!RecoverPlan, JP!RecoverPlan, Job!TaskOf, JP!TaskOf, Job!CancelPending,
           JP!CancelPending, Job!Tasks, JP!Tasks
  <1>11. \A p, i : Job!CanRecover(p, i) <=> JP!CanRecover(p, i)
    BY DEF Job!CanRecover, JP!CanRecover
  <1>12. \A p : Job!AbandonPlan(p) = JP!AbandonPlan(p)
    BY DEF Job!AbandonPlan, JP!AbandonPlan, Job!CancelPending, JP!CancelPending,
           Job!Tasks, JP!Tasks
  <1>13. \A p, i : Job!CanAbandon(p, i) <=> JP!CanAbandon(p, i)
    BY DEF Job!CanAbandon, JP!CanAbandon
  <1>14. \A p : Job!ValidRetained(p) <=> JP!ValidRetained(p)
    BY DEF Job!ValidRetained, JP!ValidRetained, Job!ValidLifecycle,
           JP!ValidLifecycle, Job!ValidOrder, JP!ValidOrder, Job!ValidStatus,
           JP!ValidStatus, Job!ValidRecovery, JP!ValidRecovery, Job!ValidAbandonment,
           JP!ValidAbandonment, Job!FinalReport, JP!FinalReport, Job!TaskOf,
           JP!TaskOf, Job!Issued, JP!Issued, Job!Unsettled, JP!Unsettled, Job!Live,
           JP!Live, Job!Finished, JP!Finished, Job!Tasks, JP!Tasks
  <1> QED
    BY <1>1, <1>2, <1>3, <1>4, <1>5, <1>6, <1>7, <1>8, <1>9, <1>10, <1>11, <1>12, <1>13, <1>14, SMTT(30)

LEMMA SameSave == \A p : Job!Save(p) <=> JP!Save(p)
  BY SameEdits DEF Job!Save, JP!Save

LEMMA SameActions ==
    /\ Job!Init <=> JP!Init
    /\ Job!jobvars = JP!jobvars
    /\ Job!ReadPlan <=> JP!ReadPlan
    /\ Job!SettleStop <=> JP!SettleStop
    /\ Job!IssueGrant <=> JP!IssueGrant
    /\ Job!Subscribe <=> JP!Subscribe
    /\ Job!CheckStop <=> JP!CheckStop
    /\ Job!Wake <=> JP!Wake
    /\ Job!Dispatch <=> JP!Dispatch
    /\ Job!Confirmed <=> JP!Confirmed
    /\ Job!Unconfirmed <=> JP!Unconfirmed
    /\ Job!SaveDelivery <=> JP!SaveDelivery
    /\ Job!SkipDelivery <=> JP!SkipDelivery
    /\ Job!DeliveryUnsaved <=> JP!DeliveryUnsaved
    /\ Job!StopReplied <=> JP!StopReplied
    /\ Job!Bail <=> JP!Bail
    /\ Job!Abort <=> JP!Abort
    /\ Job!Retire <=> JP!Retire
    /\ Job!Execute <=> JP!Execute
    /\ Job!Cancel <=> JP!Cancel
    /\ Job!Notify <=> JP!Notify
    /\ Job!Shutdown <=> JP!Shutdown
    /\ Job!Restart <=> JP!Restart
    /\ \A i : Job!Abandon(i) <=> JP!Abandon(i)
    /\ \A i, r : Job!Recover(i, r) <=> JP!Recover(i, r)
    /\ \A i, r : Job!Record(i, r) <=> JP!Record(i, r)
  <1>1. Job!Init <=> JP!Init
    BY DEF Job!Init, JP!Init, Job!Tasks, JP!Tasks, Job!NoAttempt, JP!NoAttempt
  <1>2. Job!jobvars = JP!jobvars
    BY DEF Job!jobvars, JP!jobvars, Job!coordinator, JP!coordinator
  <1>3. Job!ReadPlan <=> JP!ReadPlan
    BY SameEdits, SameSave, Zenon DEF Job!ReadPlan, JP!ReadPlan, Job!Current, JP!Current, Job!Goto, JP!Goto,
           Job!NextTask, JP!NextTask
  <1>4. Job!SettleStop <=> JP!SettleStop
    BY SameEdits, SameSave, Zenon DEF Job!SettleStop, JP!SettleStop, Job!Current, JP!Current, Job!Goto, JP!Goto
  <1>5. Job!IssueGrant <=> JP!IssueGrant
    BY SameEdits, SameSave, Zenon DEF Job!IssueGrant, JP!IssueGrant, Job!Current, JP!Current, Job!Goto, JP!Goto
  <1>6. Job!Subscribe <=> JP!Subscribe
    BY SameEdits, SameSave, Zenon DEF Job!Subscribe, JP!Subscribe, Job!Current, JP!Current, Job!Goto, JP!Goto
  <1>7. Job!CheckStop <=> JP!CheckStop
    BY SameEdits, SameSave, Zenon DEF Job!CheckStop, JP!CheckStop, Job!Current, JP!Current, Job!Goto, JP!Goto
  <1>8. Job!Wake <=> JP!Wake
    BY SameEdits, SameSave, Zenon DEF Job!Wake, JP!Wake, Job!Current, JP!Current, Job!Goto, JP!Goto
  <1>9. Job!Dispatch <=> JP!Dispatch
    BY SameEdits, SameSave, Zenon DEF Job!Dispatch, JP!Dispatch, Job!Current, JP!Current, Job!Goto, JP!Goto
  <1>10. Job!Confirmed <=> JP!Confirmed
    BY SameEdits, SameSave, Zenon DEF Job!Confirmed, JP!Confirmed, Job!Current, JP!Current, Job!Goto, JP!Goto
  <1>11. Job!Unconfirmed <=> JP!Unconfirmed
    BY SameEdits, SameSave, Zenon DEF Job!Unconfirmed, JP!Unconfirmed, Job!Current, JP!Current, Job!Goto,
           JP!Goto
  <1>12. Job!SaveDelivery <=> JP!SaveDelivery
    BY SameEdits, SameSave DEF Job!SaveDelivery, JP!SaveDelivery, Job!AwaitStop, JP!AwaitStop,
           Job!Current, JP!Current, Job!Goto, JP!Goto
  <1>13. Job!SkipDelivery <=> JP!SkipDelivery
    BY SameEdits, SameSave, Zenon DEF Job!SkipDelivery, JP!SkipDelivery, Job!AfterStop, JP!AfterStop,
           Job!Current, JP!Current, Job!Goto, JP!Goto
  <1>14. Job!DeliveryUnsaved <=> JP!DeliveryUnsaved
    BY SameEdits, SameSave, Zenon DEF Job!DeliveryUnsaved, JP!DeliveryUnsaved, Job!AfterStop, JP!AfterStop,
           Job!Current, JP!Current, Job!Goto, JP!Goto
  <1>15. Job!StopReplied <=> JP!StopReplied
    BY SameEdits, SameSave, Zenon DEF Job!StopReplied, JP!StopReplied, Job!AfterStop, JP!AfterStop, Job!Current,
           JP!Current, Job!Goto, JP!Goto
  <1>16. Job!Bail <=> JP!Bail
    BY SameEdits, SameSave, Zenon DEF Job!Bail, JP!Bail, Job!Current, JP!Current, Job!Goto, JP!Goto
  <1>17. Job!Abort <=> JP!Abort
    BY SameEdits, SameSave, Zenon DEF Job!Abort, JP!Abort, Job!Current, JP!Current, Job!Goto, JP!Goto
  <1>18. Job!Retire <=> JP!Retire
    BY SameEdits, SameSave, Zenon DEF Job!Retire, JP!Retire, Job!Current, JP!Current, Job!Goto, JP!Goto
  <1>19. Job!Execute <=> JP!Execute
    BY SameEdits, SameSave, Zenon DEF Job!Execute, JP!Execute, Job!Current, JP!Current, Job!Goto, JP!Goto
  <1>20. Job!Cancel <=> JP!Cancel
    BY SameEdits, SameSave, Zenon DEF Job!Cancel, JP!Cancel, Job!Current, JP!Current, Job!Goto, JP!Goto,
           Job!MaxOwed, JP!MaxOwed
  <1>21. Job!Notify <=> JP!Notify
    BY SameEdits, SameSave, Zenon DEF Job!Notify, JP!Notify, Job!Current, JP!Current, Job!Goto, JP!Goto
  <1>22. Job!Shutdown <=> JP!Shutdown
    BY SameEdits, SameSave, Zenon DEF Job!Shutdown, JP!Shutdown, Job!Current, JP!Current, Job!Goto, JP!Goto
  <1>23. Job!Restart <=> JP!Restart
    BY SameEdits, SameSave, Zenon DEF Job!Restart, JP!Restart, Job!Current, JP!Current, Job!Goto, JP!Goto
  <1>24. \A i : Job!Abandon(i) <=> JP!Abandon(i)
    BY SameEdits, SameSave, Zenon DEF Job!Abandon, JP!Abandon
  <1>25. \A i, r : Job!Recover(i, r) <=> JP!Recover(i, r)
    BY SameEdits, SameSave, Zenon DEF Job!Recover, JP!Recover
  <1>26. \A i, r : Job!Record(i, r) <=> JP!Record(i, r)
    BY SameEdits, SameSave, Zenon DEF Job!Record, JP!Record
  <1> QED
    BY <1>1, <1>2, <1>3, <1>4, <1>5, <1>6, <1>7, <1>8, <1>9, <1>10, <1>11, <1>12,
       <1>13, <1>14, <1>15, <1>16, <1>17, <1>18, <1>19, <1>20, <1>21, <1>22, <1>23,
       <1>24, <1>25, <1>26, SMTT(30)

-----------------------------------------------------------------------------
(* Every step is a step of the journal or leaves it alone.                 *)

\* The runner's confirmation is the journal's: a saved reply means a saved report.
LEMMA ConfirmedIsSaved ==
    ASSUME SystemInv, Confirmed
    PROVE  JP!Confirmed
  BY Zenon DEF SystemInv, WaiterInv, Confirmed, Current, JP!Confirmed, JP!Current, JP!Goto

\* What a step is to the journal.
LEMMA JobKinds ==
    ASSUME SystemInv, Next
    PROVE  \/ (JP!Runner \/ JP!Owner) /\ UNCHANGED node
           \/ /\ \E i \in Tasks : record[i] = "completed" /\ JP!Recover(i, retained[i])
              /\ UNCHANGED node
           \/ (\E m \in saving : JP!Record(m[1], m[2])) /\ UNCHANGED node
           \/ UNCHANGED job
  <1>1. CASE RunnerStep
    BY <1>1, SameActions, Zenon DEF RunnerStep, JP!Runner
  <1>2. CASE IssueGrant \/ Dispatch \/ SendStop \/ StopReplied \/ Retire
    BY <1>2, SameActions, Zenon
       DEF IssueGrant, Dispatch, SendStop, StopReplied, Retire, JP!Runner, node
  <1>3. CASE GiveUp
    BY <1>3, SameActions, Zenon DEF GiveUp, JP!Runner
  <1>4. CASE Confirmed
    BY <1>4, ConfirmedIsSaved, Zenon DEF Confirmed, JP!Runner
  <1>5. CASE OwnerStep
    <2>1. UNCHANGED node
      BY <1>5 DEF OwnerStep
    <2>2. CASE Job!Execute \/ Job!Cancel \/ Job!Notify \/ Job!Shutdown
      BY <2>1, <2>2, SameActions, Zenon DEF JP!Owner
    <2>3. CASE \E i \in Tasks : Job!Abandon(i)
      BY <2>1, <2>3, SameActions, Zenon DEF JP!Owner, JP!Tasks, Tasks
    <2>4. CASE \E i \in Tasks : record[i] = "completed" /\ Job!Recover(i, retained[i])
      BY <2>1, <2>4, SameActions, Zenon
    <2> QED
      BY <1>5, <2>2, <2>3, <2>4, Zenon DEF OwnerStep
  <1>6. CASE Restart
    BY <1>6, SameActions, Zenon DEF Restart, JP!Owner
  <1>7. CASE Save
    BY <1>7, SameActions, Zenon DEF Save
  <1>8. CASE TakeReport \/ IgnoreReport \/ Disconnect \/ Reconnect
    BY <1>8, Zenon DEF TakeReport, IgnoreReport, Disconnect, Reconnect
  <1>9. ASSUME NEW i \in Tasks,
               \/ NodeReceives(i) \/ ProveLease(i) \/ NodeRejects(i) \/ NodeClaims(i)
               \/ NodeAcknowledges(i) \/ NodeStarts(i) \/ NodeDoubts(i) \/ NodeDrops(i)
               \/ NodeStops(i)
               \/ \E r \in {"success", "failure"} : NodeCompletes(i, r)
        PROVE  UNCHANGED job
    BY <1>9, Zenon DEF NodeReceives, ProveLease, NodeRejects, NodeClaims, NodeAcknowledges,
                NodeStarts, NodeDoubts, NodeDrops, NodeStops, NodeCompletes, NodeOnly
  <1> QED
    BY <1>1, <1>2, <1>3, <1>4, <1>5, <1>6, <1>7, <1>8, <1>9, SMTT(30) DEF Next

LEMMA JobFollows ==
    ASSUME SystemInv, Next
    PROVE  JP!Next \/ UNCHANGED job
  <1>1. ASSUME NEW i \in Tasks, record[i] = "completed", JP!Recover(i, retained[i])
        PROVE  JP!Next
    <2>1. retained[i] \in {"success", "failure"}
      BY <1>1 DEF SystemInv, NodeInv
    <2> QED
      BY <1>1, <2>1, Zenon DEF JP!Next, JP!Tasks, Tasks
  <1>2. ASSUME NEW m \in saving, JP!Record(m[1], m[2])
        PROVE  JP!Next
    <2>1. m[1] \in dispatched /\ m[2] \in Reports
      BY <1>2, Zenon DEF SystemInv, ReportInv, Truthful, Holds
    <2> QED
      BY <1>2, <2>1, Zenon DEF JP!Next, JP!Reports, Reports
  <1> QED
    BY <1>1, <1>2, JobKinds, Zenon DEF JP!Next

\* What a step leaves of the journal.
LEMMA JobAfter ==
    ASSUME SystemInv, Next
    PROVE  /\ JP!JobInv'
           /\ \A i \in Tasks : /\ plan.attempt[i].state # "none" => plan'.attempt[i].state # "none"
                               /\ plan.attempt[i].report # "none" => plan'.attempt[i].report # "none"
           /\ plan'.len = plan.len \/ JP!IssueGrant
           /\ \/ dispatched' = dispatched
              \/ /\ dispatched' = dispatched \cup {plan.len} /\ plan' = plan
                 /\ plan.len \in Tasks /\ plan.attempt[plan.len].state # "none"
  <1>1. JP!JobInv
    BY DEF SystemInv
  <1>2. CASE UNCHANGED job
    <2>1. UNCHANGED JP!jobvars
      BY <1>2, Zenon DEF job, JP!jobvars, JP!coordinator
    <2>2. plan' = plan /\ dispatched' = dispatched
      BY <1>2, Zenon DEF job
    <2>3. JP!JobInv'
      BY <1>1, <2>1, SystemAssumption, JP!JobStep, Zenon
    <2> QED
      BY <2>2, <2>3, Zenon
  <1>3. CASE JP!Next
    <2>1. JP!JobInv'
      BY <1>1, <1>3, SystemAssumption, JP!JobStep, Zenon
    <2>2. JP!Keeps(plan, plan') /\ (plan'.len = plan.len \/ JP!IssueGrant)
      BY <1>1, <1>3, SystemAssumption, JP!PlanStep, Zenon
    <2>3. \A i \in Tasks : /\ plan.attempt[i].state # "none" => plan'.attempt[i].state # "none"
                           /\ plan.attempt[i].report # "none" => plan'.attempt[i].report # "none"
      BY <2>2, Zenon DEF JP!Keeps, JP!Tasks, Tasks
    <2>4. \/ dispatched' = dispatched
          \/ /\ dispatched' = dispatched \cup {plan.len} /\ plan' = plan
             /\ plan.len \in Tasks /\ plan.attempt[plan.len].state # "none"
      BY <1>1, <1>3, SystemAssumption, JP!DispatchStep, Zenon DEF JP!Tasks, Tasks
    <2> QED
      BY <2>1, <2>2, <2>3, <2>4, Zenon
  <1> QED
    BY <1>2, <1>3, JobFollows, Zenon

-----------------------------------------------------------------------------
(* The node's steps.                                                       *)

NodeAct(i) ==
    \/ NodeReceives(i) \/ ProveLease(i) \/ NodeRejects(i) \/ NodeClaims(i)
    \/ NodeAcknowledges(i) \/ NodeStarts(i) \/ NodeDoubts(i) \/ NodeDrops(i)
    \/ NodeStops(i)
    \/ \E r \in {"success", "failure"} : NodeCompletes(i, r)

NodeTypes ==
    /\ record \in [Tasks -> {"none", "accepted", "completed", "unknown"}]
    /\ retained \in [Tasks -> {"none", "success", "failure"}]
    /\ at \in [Tasks -> {"idle", "lease", "proved", "claimed", "running", "over"}]
    /\ started \subseteq Tasks

\* The node's part of the invariant for one grant.
GrantInv(i) ==
    /\ at[i] # "idle" => i \in dispatched
    /\ at[i] \in {"claimed", "running"} => record[i] # "none"
    /\ i \in started => at[i] \in {"running", "over"}
    /\ record[i] = "completed" => retained[i] # "none"

\* What a node never takes back about a grant.
Lasting(i) ==
    /\ record[i] # "none" => record'[i] # "none"
    /\ record[i] = "completed" => record'[i] = "completed" /\ retained'[i] = retained[i]
    /\ NeverRuns(i) => NeverRuns(i)'

LEMMA NodeInvParts ==
    NodeInv <=> /\ NodeTypes
                /\ \A i \in dispatched : plan.attempt[i].state # "none"
                /\ \A i \in Tasks : <<"grant", i>> \in down => i \in dispatched
                /\ \A i \in Tasks : GrantInv(i)
  BY DEF NodeInv, NodeTypes, GrantInv

\* A step of one grant's request keeps its invariant and what lasts, and touches
\* no other grant.
LEMMA NodeStep ==
    ASSUME NodeInv, NEW i \in Tasks, NodeAct(i)
    PROVE  /\ NodeTypes'
           /\ \A k \in Tasks : Lasting(k) /\ GrantInv(k)'
           /\ down' \subseteq down
  <1> USE DEF NodeInv, NodeTypes, GrantInv, Lasting, NeverRuns, Moves
  <1>0. UNCHANGED dispatched
    BY Zenon DEF NodeAct, NodeReceives, ProveLease, NodeRejects, NodeClaims, NodeAcknowledges,
           NodeStarts, NodeDoubts, NodeDrops, NodeStops, NodeCompletes, NodeOnly, job
  <1>1. CASE NodeReceives(i)
    BY <1>0, <1>1, Zenon DEF NodeReceives
  <1>2. CASE ProveLease(i)
    BY <1>0, <1>2, Zenon DEF ProveLease, wire
  <1>3. CASE NodeRejects(i)
    BY <1>0, <1>3, Zenon DEF NodeRejects
  <1>4. CASE NodeClaims(i)
    BY <1>0, <1>4, Zenon DEF NodeClaims, Node!Consume
  <1>5. CASE NodeAcknowledges(i)
    BY <1>0, <1>5, Zenon DEF NodeAcknowledges
  <1>6. CASE NodeStarts(i)
    BY <1>0, <1>6, Zenon DEF NodeStarts, Node!Start
  <1>7. CASE NodeDoubts(i)
    BY <1>0, <1>7, Zenon DEF NodeDoubts, Node!Settle
  <1>8. CASE NodeDrops(i)
    BY <1>0, <1>8, Zenon DEF NodeDrops, Node!Settle
  <1>9. CASE NodeStops(i)
    BY <1>0, <1>9, Zenon DEF NodeStops, Node!StopFirst
  <1>10. ASSUME NEW r \in {"success", "failure"}, NodeCompletes(i, r)
         PROVE  /\ NodeTypes'
                /\ \A k \in Tasks : Lasting(k) /\ GrantInv(k)'
                /\ down' \subseteq down
    BY <1>0, <1>10, Zenon DEF NodeCompletes, Node!Settle
  <1> QED
    BY <1>1, <1>2, <1>3, <1>4, <1>5, <1>6, <1>7, <1>8, <1>9, <1>10, ZenonT(30) DEF NodeAct

\* Every other step leaves the node alone.
LEMMA NodeRests ==
    ASSUME Next
    PROVE  UNCHANGED node \/ \E i \in Tasks : NodeAct(i)
  <1>1. CASE RunnerStep \/ IssueGrant \/ Dispatch \/ Confirmed \/ GiveUp \/ Retire
             \/ SendStop \/ StopReplied \/ OwnerStep
    BY <1>1, Zenon DEF RunnerStep, IssueGrant, Dispatch, Confirmed, GiveUp, Retire,
                SendStop, StopReplied, OwnerStep
  <1>2. CASE TakeReport \/ IgnoreReport \/ Save \/ Disconnect \/ Reconnect \/ Restart
    BY <1>2, Zenon DEF TakeReport, IgnoreReport, Save, Disconnect, Reconnect, Restart
  <1> QED
    BY <1>1, <1>2, Zenon DEF Next, NodeAct

LEMMA Lasts ==
    ASSUME SystemInv, Next
    PROVE  \A k \in Tasks : Lasting(k)
  <1>1. CASE UNCHANGED node
    BY <1>1 DEF node, Lasting, NeverRuns
  <1>2. CASE \E i \in Tasks : NodeAct(i)
    BY <1>2, NodeStep, Zenon DEF SystemInv
  <1> QED
    BY <1>1, <1>2, NodeRests, Zenon

LEMMA NodeAfter ==
    ASSUME SystemInv, Next
    PROVE  NodeInv'
  <1>1. \A i \in dispatched' : plan'.attempt[i].state # "none"
    <2>1. dispatched \subseteq Tasks
      BY DEF SystemInv, JP!JobInv, JP!TypeOK, JP!Tasks, Tasks
    <2> QED
      BY <2>1, JobAfter DEF SystemInv, NodeInv
  <1>2. dispatched \subseteq dispatched'
    BY JobAfter, Zenon
  <1>3. NodeTypes' /\ \A i \in Tasks : GrantInv(i)'
    <2>1. CASE UNCHANGED node
      <3>1. NodeTypes /\ \A i \in Tasks : GrantInv(i)
        BY NodeInvParts DEF SystemInv
      <3> QED
        BY <1>2, <2>1, <3>1, Zenon DEF node, NodeTypes, GrantInv
    <2>2. CASE \E i \in Tasks : NodeAct(i)
      BY <2>2, NodeStep, Zenon DEF SystemInv
    <2> QED
      BY <2>1, <2>2, NodeRests, Zenon
  <1>4. \A i \in Tasks : <<"grant", i>> \in down' => i \in dispatched'
    <2>0. \A i \in Tasks : <<"grant", i>> \in down => i \in dispatched
      BY DEF SystemInv, NodeInv
    <2>1. CASE Dispatch
      BY <2>0, <2>1, Zenon DEF Dispatch, Job!Dispatch, Job!Current, Current
    <2>2. CASE SendStop
      BY <1>2, <2>0, <2>2 DEF SendStop
    <2>3. CASE down' \subseteq down
      BY <1>2, <2>0, <2>3, Zenon
    <2>4. CASE RunnerStep \/ IssueGrant \/ Confirmed \/ GiveUp \/ Retire \/ StopReplied
               \/ OwnerStep \/ TakeReport \/ IgnoreReport \/ Save \/ Disconnect \/ Reconnect
               \/ Restart
      <3>1. down' = down \/ down' = {}
        BY <2>4, Zenon DEF RunnerStep, IssueGrant, Confirmed, GiveUp, Retire, StopReplied,
                    OwnerStep, TakeReport, IgnoreReport, Save, Disconnect, Reconnect,
                    Restart, Hangup, wire
      <3> QED
        BY <2>3, <3>1, Zenon
    <2>5. ASSUME NEW i \in Tasks, NodeAct(i) PROVE down' \subseteq down
      BY <2>5, NodeStep, Zenon DEF SystemInv
    <2> QED
      BY <2>1, <2>2, <2>3, <2>4, <2>5, Zenon DEF Next, NodeAct
  <1> QED
    BY <1>1, <1>3, <1>4, Zenon DEF NodeInv, NodeTypes, GrantInv

-----------------------------------------------------------------------------
(* Reports, the waiter and the journal's truth.                            *)

After(m) == Holds(m, dispatched', record', retained', started', at')

LEMMA TruthLasts ==
    ASSUME SystemInv, Next, NEW m, Truthful(m)
    PROVE  After(m)
  <1>1. m \in Tasks \X Reports /\ m[1] \in Tasks
    BY DEF Truthful, Holds
  <1>2. Lasting(m[1]) /\ dispatched \subseteq dispatched'
    BY <1>1, Lasts, JobAfter, Zenon
  <1> QED
    BY <1>1, <1>2, Zenon DEF Truthful, After, Holds, Lasting, NeverRuns

\* What a request's step sends, if anything, is truthful.
LEMMA SentIsTrue ==
    ASSUME SystemInv, NEW i \in Tasks, NodeAct(i)
    PROVE  \/ up' = up
           \/ \E r \in Reports : up' = Append(up, <<i, r>>) /\ After(<<i, r>>)
  <1>0. NodeInv /\ UNCHANGED dispatched /\ (at[i] # "idle" => i \in dispatched)
    BY Zenon DEF SystemInv, NodeInv, NodeAct, NodeReceives, ProveLease, NodeRejects, NodeClaims,
           NodeAcknowledges, NodeStarts, NodeDoubts, NodeDrops, NodeStops, NodeCompletes,
           NodeOnly, job
  <1>1. CASE NodeReceives(i) \/ ProveLease(i) \/ NodeClaims(i) \/ NodeStarts(i)
             \/ NodeDrops(i) \/ NodeStops(i)
    BY <1>1, Zenon DEF NodeReceives, ProveLease, NodeClaims, NodeStarts, NodeDrops, NodeStops, wire
  <1>2. CASE NodeRejects(i)
    <2>1. i \in dispatched /\ i \notin started /\ at'[i] = "over" /\ started' = started
      BY <1>0, <1>2, Zenon DEF NodeRejects, Moves, NodeInv
    <2>2. After(<<i, "rejected">>)
      BY <1>0, <2>1, Zenon DEF After, Holds, Reports
    <2> QED
      BY <1>2, <2>2, Zenon DEF NodeRejects, Sends, Reports
  <1>3. CASE NodeAcknowledges(i)
    <2>1. i \in dispatched /\ record[i] # "none" /\ record' = record
      BY <1>0, <1>3, Zenon DEF NodeAcknowledges, NodeInv
    <2>2. After(<<i, "accepted">>)
      BY <1>0, <2>1, Zenon DEF After, Holds, Reports
    <2> QED
      BY <1>3, <2>2, Zenon DEF NodeAcknowledges, Sends, Reports
  <1>4. CASE NodeDoubts(i)
    <2>1. i \in dispatched
      BY <1>0, <1>4, Zenon DEF NodeDoubts
    <2>2. After(<<i, "unknown">>)
      BY <1>0, <2>1, Zenon DEF After, Holds, Reports
    <2> QED
      BY <1>4, <2>2, Zenon DEF NodeDoubts, Sends, Reports
  <1>5. ASSUME NEW r \in {"success", "failure"}, NodeCompletes(i, r)
        PROVE  \/ up' = up
               \/ up' = Append(up, <<i, r>>) /\ After(<<i, r>>) /\ r \in Reports
    <2>1. i \in dispatched /\ record'[i] = "completed" /\ retained'[i] = r
      BY <1>0, <1>5, Zenon DEF NodeCompletes, Node!Settle, NodeInv
    <2>2. After(<<i, r>>) /\ r \in Reports
      BY <1>0, <2>1, Zenon DEF After, Holds, Reports
    <2> QED
      BY <1>5, <2>2, Zenon DEF NodeCompletes, Sends
  <1> QED
    BY <1>1, <1>2, <1>3, <1>4, <1>5, Zenon DEF NodeAct

\* The queue without its head, and with one report more.
LEMMA TailHolds ==
    ASSUME NEW S, NEW q \in Seq(S), q # <<>>
    PROVE  /\ Tail(q) \in Seq(S)
           /\ \A k \in 1..Len(Tail(q)) : k + 1 \in 1..Len(q) /\ Tail(q)[k] = q[k + 1]
           /\ 1 \in 1..Len(q) /\ Head(q) = q[1]
  OBVIOUS

LEMMA AppendHolds ==
    ASSUME NEW S, NEW q \in Seq(S), NEW e \in S
    PROVE  /\ Append(q, e) \in Seq(S)
           /\ \A k \in 1..Len(Append(q, e)) : \/ k \in 1..Len(q) /\ Append(q, e)[k] = q[k]
                                              \/ Append(q, e)[k] = e
  <1>1. Len(Append(q, e)) = Len(q) + 1 /\ Len(q) \in Nat
    OBVIOUS
  <1> QED
    BY <1>1

LEMMA ReportAfter ==
    ASSUME SystemInv, Next
    PROVE  ReportInv'
  <1> DEFINE S == Tasks \X Reports
  <1>0. /\ up \in Seq(S) /\ busy \in saving \cup {Idle}
        /\ \A k \in 1..Len(up) : After(up[k])
        /\ \A m \in saving : After(m)
    BY TruthLasts, Zenon DEF SystemInv, ReportInv
  <1>1. ASSUME up' \in Seq(S), \A k \in 1..Len(up') : After(up'[k]),
               busy' \in saving' \cup {Idle}, \A m \in saving' : After(m)
        PROVE  ReportInv'
    BY <1>1 DEF ReportInv, Truthful, After
  <1>2. CASE RunnerStep \/ IssueGrant \/ Dispatch \/ Confirmed \/ GiveUp \/ Retire
             \/ SendStop \/ StopReplied \/ OwnerStep \/ Reconnect
    <2>1. UNCHANGED <<up, saving, busy>>
      BY <1>2, Zenon DEF RunnerStep, IssueGrant, Dispatch, Confirmed, GiveUp, Retire,
                  SendStop, StopReplied, OwnerStep, Reconnect, gateway, wire
    <2> QED
      BY <1>0, <1>1, <2>1, Zenon
  <1>3. CASE Save
    <2>1. PICK m \in saving : /\ busy' = IF m = busy THEN Idle ELSE busy
                              /\ saving' = saving \ {m} /\ up' = up
      BY <1>3, Zenon DEF Save, Delivered, wire
    <2> QED
      BY <1>0, <1>1, <2>1, Zenon
  <1>4. CASE Disconnect \/ Restart
    <2>1. up' = <<>> /\ busy' = Idle /\ saving' \in {saving, {}}
      BY <1>4 DEF Disconnect, Restart, Hangup
    <2>2. up' \in Seq(S) /\ Len(up') = 0
      BY <2>1
    <2> QED
      BY <1>0, <1>1, <2>1, <2>2, SMTT(30)
  <1>5. CASE TakeReport \/ IgnoreReport
    <2>1. /\ up # <<>> /\ up' = Tail(up)
          /\ \/ saving' = saving /\ busy' = busy
             \/ saving' = saving \cup {Head(up)} /\ busy' = Head(up)
      BY <1>5, Zenon DEF TakeReport, IgnoreReport, gateway
    <2>2. /\ Tail(up) \in Seq(S)
          /\ \A k \in 1..Len(Tail(up)) : k + 1 \in 1..Len(up) /\ Tail(up)[k] = up[k + 1]
          /\ 1 \in 1..Len(up) /\ Head(up) = up[1]
      BY <1>0, <2>1, TailHolds, ZenonT(30)
    <2>3. After(Head(up)) /\ \A k \in 1..Len(up') : After(up'[k])
      BY <1>0, <2>1, <2>2, Zenon
    <2> QED
      BY <1>0, <1>1, <2>1, <2>2, <2>3, SMTT(30)
  <1>6. ASSUME NEW i \in Tasks, NodeAct(i) PROVE ReportInv'
    <2>1. UNCHANGED <<saving, busy>>
      BY <1>6, Zenon DEF NodeAct, NodeReceives, ProveLease, NodeRejects, NodeClaims, NodeAcknowledges,
                  NodeStarts, NodeDoubts, NodeDrops, NodeStops, NodeCompletes, NodeOnly, gateway
    <2>2. CASE up' = up
      BY <1>0, <1>1, <2>1, <2>2, Zenon
    <2>3. ASSUME NEW r \in Reports, up' = Append(up, <<i, r>>), After(<<i, r>>)
          PROVE  ReportInv'
      <3>1. /\ up' \in Seq(S)
            /\ \A k \in 1..Len(up') : \/ k \in 1..Len(up) /\ up'[k] = up[k]
                                      \/ up'[k] = <<i, r>>
        BY <1>0, <2>3, AppendHolds
      <3>2. \A k \in 1..Len(up') : After(up'[k])
        BY <1>0, <2>3, <3>1, Zenon
      <3> QED
        BY <1>0, <1>1, <2>1, <3>1, <3>2, ZenonT(30)
    <2> QED
      BY <1>6, <2>2, <2>3, SentIsTrue, Zenon
  <1> QED
    BY <1>2, <1>3, <1>4, <1>5, <1>6, Zenon DEF Next, NodeAct

\* The saved report behind a reply stays, and so does the attempt it is about.
LEMMA ReplyKept ==
    ASSUME SystemInv, Next, reply = "saved"
    PROVE  /\ pending = "none" /\ busy = Idle /\ pc \in Held \cup {"retire"}
           /\ plan'.len \in dispatched' /\ plan'.attempt[plan'.len].report # "none"
  <1>1. /\ pending = "none" /\ busy = Idle /\ pc \in Held \cup {"retire"}
        /\ plan.len \in dispatched /\ plan.attempt[plan.len].report # "none"
    BY DEF SystemInv, WaiterInv, Current
  <1>2. ~JP!IssueGrant
    BY <1>1 DEF JP!IssueGrant, Held
  <1>3. plan.len \in Tasks
    BY <1>1, Zenon DEF SystemInv, JP!JobInv, JP!TypeOK, JP!Tasks, Tasks
  <1> QED
    BY <1>1, <1>2, <1>3, JobAfter, ZenonT(30)

\* While the runner is elsewhere there is no waiter, no report in the consumer's
\* hands and nothing saved to confirm.
LEMMA NotHeld ==
    ASSUME SystemInv, pc \notin Held \cup {"retire", "none"}
    PROVE  pending = "none" /\ busy = Idle /\ reply # "saved"
  BY DEF SystemInv, WaiterInv, Held

LEMMA WaiterAfter ==
    ASSUME SystemInv, Next
    PROVE  WaiterInv'
  <1> USE DEF Current
  <1>0. WaiterInv
    BY DEF SystemInv
  <1>1. CASE RunnerStep
    <2>1. UNCHANGED <<pending, reply, busy>>
      BY <1>1 DEF RunnerStep, gateway
    <2>2. CASE Job!ReadPlan \/ Job!SettleStop \/ Job!Subscribe \/ Job!CheckStop \/ Job!Bail
      <3>1. pc \notin Held \cup {"retire", "none"}
        BY <2>2, Zenon DEF Job!ReadPlan, Job!SettleStop, Job!Subscribe, Job!CheckStop, Job!Bail, Held
      <3> QED
        BY <2>1, <3>1, NotHeld, Zenon DEF WaiterInv
    <2>3. CASE Job!Wake \/ Job!SkipDelivery \/ Job!DeliveryUnsaved
      <3>1. /\ pc \in Held => pc' \in Held
            /\ pc \notin {"retire", "none"}
        BY <2>3, Zenon DEF Job!Wake, Job!SkipDelivery, Job!DeliveryUnsaved, Job!Goto, Job!AfterStop, Held
      <3> QED
        BY <1>0, <2>1, <3>1, ReplyKept, Zenon DEF WaiterInv
    <2> QED
      BY <1>1, <2>2, <2>3, Zenon DEF RunnerStep
  <1>2. CASE IssueGrant
    <2>1. UNCHANGED <<pending, reply, busy>> /\ pc \notin Held \cup {"retire", "none"}
      BY <1>2, Zenon DEF IssueGrant, Job!IssueGrant, gateway, Held
    <2> QED
      BY <2>1, NotHeld, Zenon DEF WaiterInv
  <1>3. CASE Dispatch
    BY <1>0, <1>3, Zenon DEF Dispatch, Job!Dispatch, WaiterInv, Held
  <1>4. CASE Confirmed
    BY <1>0, <1>4, Zenon DEF Confirmed, WaiterInv
  <1>5. CASE GiveUp
    BY <1>0, <1>5, Zenon DEF GiveUp, Unwait, Job!Unconfirmed, Job!Abort, Job!Goto, WaiterInv
  <1>6. CASE Retire
    BY <1>0, <1>6, Zenon DEF Retire, Unwait, Job!Retire, Job!Goto, WaiterInv
  <1>7. CASE SendStop \/ StopReplied
    <2>1. UNCHANGED <<pending, reply, busy>>
      BY <1>7 DEF SendStop, StopReplied, gateway
    <2>2. /\ pc \in Held => pc' \in Held
          /\ pc \notin {"retire", "none"}
      BY <1>7, Zenon DEF SendStop, StopReplied, Job!SaveDelivery, Job!StopReplied, Job!Goto,
                  Job!AfterStop, Job!AwaitStop, Held
    <2> QED
      BY <1>0, <2>1, <2>2, ReplyKept, Zenon DEF WaiterInv
  <1>8. CASE OwnerStep
    <2>1. UNCHANGED <<pending, reply, busy>>
      BY <1>8 DEF OwnerStep, gateway
    <2>2. CASE Job!Execute
      <3>1. pc = "none"
        BY <2>2, Zenon DEF Job!Execute, SystemInv, JP!JobInv, JP!RunnerInv
      <3>2. busy = Idle
        <4> SUFFICES ASSUME busy # Idle PROVE FALSE
          BY Zenon
        <4>1. busy[1] \in Tasks /\ busy[1] \in dispatched /\ plan.attempt[busy[1]].state # "none"
          BY Zenon DEF SystemInv, NodeInv, ReportInv, Truthful, Holds
        <4>2. plan.len = 0 /\ plan.attempt[busy[1]].state = "none"
          BY <2>2, <4>1, SystemAssumption
             DEF Job!Execute, SystemInv, JP!JobInv, JP!GoodPlan, JP!PlanShape, JP!Tasks, Tasks
        <4> QED
          BY <4>1, <4>2, Zenon
      <3> QED
        BY <1>0, <2>1, <3>1, <3>2, Zenon DEF WaiterInv, Held
    <2>3. CASE ~Job!Execute
      <3>1. pc' = pc
        BY <1>8, <2>3, Zenon DEF OwnerStep, Job!Cancel, Job!Notify, Job!Shutdown, Job!Abandon, Job!Recover
      <3> QED
        BY <1>0, <2>1, <3>1, ReplyKept, Zenon DEF WaiterInv
    <2> QED
      BY <2>2, <2>3, Zenon
  <1>9. CASE TakeReport
    <2>1. /\ pending # "none" /\ pc' = pc /\ reply' = reply
      BY <1>9, Zenon DEF TakeReport, Waiting, job
    <2> QED
      BY <1>0, <2>1, Zenon DEF WaiterInv
  <1>10. CASE IgnoreReport \/ Reconnect
    <2>1. UNCHANGED <<pending, reply, busy, pc>>
      BY <1>10, Zenon DEF IgnoreReport, Reconnect, gateway, job
    <2> QED
      BY <1>0, <2>1, ReplyKept, Zenon DEF WaiterInv
  <1>11. CASE Disconnect \/ Restart
    <2>1. pending' = "none" /\ busy' = Idle /\ reply' \in {"none", "failed", reply}
      BY <1>11, Zenon DEF Disconnect, Restart, Hangup, Unwait
    <2>2. CASE Disconnect
      <3>1. pc' = pc
        BY <2>2, Zenon DEF Disconnect, job
      <3> QED
        BY <1>0, <2>1, <3>1, ReplyKept, Zenon DEF WaiterInv
    <2>3. CASE Restart
      BY <2>1, <2>3, Zenon DEF Restart, Unwait, WaiterInv
    <2> QED
      BY <1>11, <2>2, <2>3, Zenon
  <1>12. CASE Save
    <2>1. PICK m \in saving :
             \/ Job!Record(m[1], m[2]) /\ Delivered(m, TRUE)
             \/ UNCHANGED job /\ Delivered(m, FALSE)
      BY <1>12, Zenon DEF Save
    <2>2. pc' = pc
      BY <2>1, Zenon DEF Job!Record, job
    <2>3. m \in Tasks \X Reports /\ m[1] \in dispatched /\ m # Idle
      BY DEF SystemInv, ReportInv, Truthful, Holds, Reports, Idle
    <2>4. /\ busy' # Idle => busy # Idle
          /\ pending' # "none" => pending # "none"
      BY <2>1, Zenon DEF Delivered
    <2>5. CASE reply' = "saved" /\ reply = "saved"
      BY <1>0, <2>2, <2>4, <2>5, ReplyKept, Zenon DEF WaiterInv
    <2>6. CASE reply' # "saved"
      BY <1>0, <2>2, <2>4, <2>6, Zenon DEF WaiterInv
    <2>7. CASE reply' = "saved" /\ reply # "saved"
      <3>1. /\ m = busy /\ m[2] # "accepted" /\ pc # "none" /\ pending' = "none" /\ busy' = Idle
            /\ Job!Record(m[1], m[2])
        BY <2>1, <2>7, Zenon DEF Delivered
      <3>2. JP!Record(m[1], m[2])
        BY <3>1, SameActions, Zenon
      <3>3. /\ m[1] = plan.len /\ plan'.attempt[m[1]].report = m[2]
        BY <2>3, <3>1, <3>2, SystemAssumption, JP!RecordEvidence, Zenon
           DEF SystemInv, JP!Tasks, Tasks, JP!Reports, Reports
      <3>4. plan'.len = plan.len /\ dispatched' = dispatched
        BY <3>1, <2>2, JobAfter, Zenon DEF JP!IssueGrant, JP!Goto, Job!Record
      <3>5. m[2] # "none"
        BY <2>3, Zenon DEF Reports
      <3> QED
        BY <1>0, <2>2, <2>3, <3>1, <3>3, <3>4, <3>5, SMTT(30) DEF WaiterInv, Held
    <2> QED
      BY <2>5, <2>6, <2>7, Zenon
  <1>13. ASSUME NEW i \in Tasks, NodeAct(i) PROVE WaiterInv'
    <2>1. UNCHANGED <<reply, busy, pc>> /\ (pending' # "none" => pending # "none")
      BY <1>13, Zenon DEF NodeAct, NodeReceives, ProveLease, NodeRejects, NodeClaims, NodeAcknowledges,
                   NodeStarts, NodeDoubts, NodeDrops, NodeStops, NodeCompletes, NodeOnly,
                   gateway, job
    <2> QED
      BY <1>0, <2>1, ReplyKept, Zenon DEF WaiterInv
  <1> QED
    BY <1>1, <1>2, <1>3, <1>4, <1>5, <1>6, <1>7, <1>8, <1>9, <1>10, <1>11, <1>12, <1>13, ZenonT(30)
       DEF Next, NodeAct

LEMMA EvidenceAfter ==
    ASSUME SystemInv, Next
    PROVE  EvidenceInv'
  <1>0. JP!JobInv /\ EvidenceInv /\ \A i \in Tasks : Lasting(i)
    BY Lasts DEF SystemInv
  <1>1. ASSUME NEW i \in Tasks, JP!SameEvidence(plan.attempt[i], plan'.attempt[i])
        PROVE  /\ plan'.attempt[i].state = "completed" =>
                     record'[i] = "completed" /\ retained'[i] = JP!FinalReport(plan'.attempt[i])
               /\ plan'.attempt[i].ack => record'[i] # "none"
               /\ plan'.attempt[i].state = "rejected" => NeverRuns(i)'
    <2>1. JP!FinalReport(plan'.attempt[i]) = JP!FinalReport(plan.attempt[i])
      BY <1>1, Zenon DEF JP!SameEvidence, JP!FinalReport
    <2>2. /\ plan'.attempt[i].ack = plan.attempt[i].ack
          /\ plan'.attempt[i].state \in {"completed", "rejected"} =>
                plan.attempt[i].state = plan'.attempt[i].state
      BY <1>1, Zenon DEF JP!SameEvidence
    <2>3. Lasting(i)
      BY <1>0, Zenon
    <2> QED
      BY <1>0, <2>1, <2>2, <2>3, Zenon DEF EvidenceInv, Lasting
  <1>2. CASE UNCHANGED job
    <2>1. \A i \in Tasks : JP!SameEvidence(plan.attempt[i], plan'.attempt[i])
      BY <1>2, Zenon DEF job, JP!SameEvidence
    <2> QED
      BY <1>1, <2>1, Zenon DEF EvidenceInv
  <1>3. CASE JP!Runner \/ JP!Owner
    <2>1. \A i \in Tasks : JP!SameEvidence(plan.attempt[i], plan'.attempt[i])
      BY <1>0, <1>3, SystemAssumption, JP!QuietStep, Zenon DEF JP!Tasks, Tasks
    <2> QED
      BY <1>1, <2>1, Zenon DEF EvidenceInv
  <1>4. ASSUME NEW i \in Tasks, record[i] = "completed", JP!Recover(i, retained[i]), UNCHANGED node
        PROVE  EvidenceInv'
    <2>1. retained[i] \in {"success", "failure"}
      BY <1>4, Zenon DEF SystemInv, NodeInv
    <2>2. /\ \A k \in Tasks : k # i => plan'.attempt[k] = plan.attempt[k]
          /\ plan'.attempt[i].state = "completed" /\ plan'.attempt[i].recovery = retained[i]
          /\ plan'.attempt[i].ack = plan.attempt[i].ack
      BY <1>0, <1>4, <2>1, SystemAssumption, JP!RecoverEvidence, Zenon DEF JP!Tasks, Tasks
    <2>3. \A k \in Tasks : k # i => JP!SameEvidence(plan.attempt[k], plan'.attempt[k])
      BY <2>2, Zenon DEF JP!SameEvidence
    <2>4. JP!FinalReport(plan'.attempt[i]) = retained[i]
      BY <2>1, <2>2, Zenon DEF JP!FinalReport
    <2>5. record' = record /\ retained' = retained
      BY <1>4, Zenon DEF node
    <2> QED
      BY <1>1, <1>4, <2>2, <2>3, <2>4, <2>5, Zenon DEF EvidenceInv
  <1>5. ASSUME NEW m \in saving, JP!Record(m[1], m[2]), UNCHANGED node
        PROVE  EvidenceInv'
    <2> DEFINE i == m[1]
               r == m[2]
    <2>1. i \in Tasks /\ r \in Reports /\ Truthful(m)
      BY Zenon DEF SystemInv, ReportInv, Truthful, Holds
    <2>2. /\ \A k \in Tasks : k # i => plan'.attempt[k] = plan.attempt[k]
          /\ r = "accepted" => plan'.attempt[i].state = "accepted"
          /\ r # "accepted" => /\ plan'.attempt[i].state = JP!StateOf(r)
                               /\ plan'.attempt[i].report = r
                               /\ plan'.attempt[i].ack = plan.attempt[i].ack
          /\ plan'.attempt[i].recovery = "none"
      BY <1>0, <1>5, <2>1, SystemAssumption, JP!RecordEvidence, Zenon
         DEF JP!Tasks, Tasks, JP!Reports, Reports
    <2>3. \A k \in Tasks : k # i => JP!SameEvidence(plan.attempt[k], plan'.attempt[k])
      BY <2>2, Zenon DEF JP!SameEvidence
    <2>4. /\ r = "accepted" => record'[i] # "none"
          /\ r \in {"success", "failure"} => record'[i] = "completed" /\ retained'[i] = r
          /\ r = "rejected" => NeverRuns(i)'
          /\ record' = record
      BY <1>5, <2>1, Zenon DEF node, Truthful, Holds, NeverRuns
    <2>5. /\ plan'.attempt[i].state = "completed" => r \in {"success", "failure"}
          /\ plan'.attempt[i].state = "rejected" => r = "rejected"
      BY <2>1, <2>2, Zenon DEF JP!StateOf, Reports
    <2>6. r # "accepted" => JP!FinalReport(plan'.attempt[i]) = r
      BY <2>2, Zenon DEF JP!FinalReport
    <2>7. plan'.attempt[i].ack => r = "accepted" \/ plan.attempt[i].ack
      BY <2>2, Zenon
    <2> HIDE DEF i, r
    <2>8. /\ plan'.attempt[i].state = "completed" =>
                record'[i] = "completed" /\ retained'[i] = JP!FinalReport(plan'.attempt[i])
          /\ plan'.attempt[i].ack => record'[i] # "none"
          /\ plan'.attempt[i].state = "rejected" => NeverRuns(i)'
      BY <1>0, <2>1, <2>4, <2>5, <2>6, <2>7, ZenonT(30) DEF EvidenceInv
    <2> QED
      BY <1>1, <2>1, <2>3, <2>8, Zenon DEF EvidenceInv
  <1> QED
    BY <1>2, <1>3, <1>4, <1>5, JobKinds, Zenon

-----------------------------------------------------------------------------
(* The theorems.                                                           *)

LEMMA SystemInit == Init => SystemInv
  <1> SUFFICES ASSUME Init PROVE SystemInv
    OBVIOUS
  <1>1. JP!JobInv
    BY SystemAssumption, SameActions, JP!InitGood, Zenon DEF Init
  <1>2. /\ dispatched = {} /\ \A i \in Tasks : plan.attempt[i] = JP!NoAttempt
    BY DEF Init, Job!Init, Job!Tasks, Tasks, Job!NoAttempt, JP!NoAttempt
  <1>3. /\ record = [i \in Tasks |-> "none"] /\ started = {}
        /\ retained = [i \in Tasks |-> "none"] /\ at = [i \in Tasks |-> "idle"]
        /\ down = {} /\ up = <<>> /\ saving = {} /\ busy = Idle
        /\ pending = "none" /\ reply = "none"
    BY Zenon DEF Init, Node!Init, Tasks
  <1>4. NodeInv
    BY <1>2, <1>3, Zenon DEF NodeInv
  <1>5. up \in Seq(Tasks \X Reports) /\ Len(up) = 0
    BY <1>3
  <1>6. ReportInv /\ WaiterInv
    BY <1>3, <1>5, SMTT(30) DEF ReportInv, WaiterInv
  <1>7. EvidenceInv
    BY <1>2 DEF EvidenceInv, JP!NoAttempt
  <1> QED
    BY <1>1, <1>4, <1>6, <1>7, Zenon DEF SystemInv

LEMMA SystemStep == SystemInv /\ [Next]_vars => SystemInv'
  <1> SUFFICES ASSUME SystemInv, [Next]_vars PROVE SystemInv'
    BY Zenon
  <1>1. CASE Next
    BY <1>1, JobAfter, NodeAfter, ReportAfter, WaiterAfter, EvidenceAfter, Zenon DEF SystemInv
  <1>2. CASE UNCHANGED vars
    <2>1. UNCHANGED job /\ UNCHANGED gateway /\ UNCHANGED wire /\ UNCHANGED node
      BY <1>2 DEF vars
    <2>2. JP!JobInv'
      <3>1. UNCHANGED JP!jobvars
        BY <2>1 DEF job, JP!jobvars, JP!coordinator
      <3> QED
        BY <3>1, SystemAssumption, JP!JobStep, Zenon DEF SystemInv
    <2>3. NodeInv' /\ ReportInv'
      BY <2>1, Zenon DEF SystemInv, NodeInv, ReportInv, Truthful, job, gateway, wire, node
    <2>4. WaiterInv' /\ EvidenceInv'
      BY <2>1, Zenon DEF SystemInv, WaiterInv, EvidenceInv, NeverRuns, Current, job, gateway, wire, node
    <2> QED
      BY <2>2, <2>3, <2>4, Zenon DEF SystemInv
  <1> QED
    BY <1>1, <1>2, Zenon

\* Journal, gateway and node stay in the inductive invariant through every
\* disconnection, restart, lost or late report and save (drive, resolve_response,
\* AttemptJournal::record, execute_grant).
THEOREM SystemInvariant == Spec => []SystemInv
  BY SystemInit, SystemStep, PTL DEF Spec

\* What the journal records is true of the node: completions and their results,
\* acceptances, and that what is rejected never ran.
THEOREM JournalTrue == Spec => []JournalIsTrue
  <1>1. SystemInv => JournalIsTrue
    BY SameEdits, Zenon DEF SystemInv, EvidenceInv, JournalIsTrue, NeverRuns
  <1> QED
    BY <1>1, SystemInvariant, PTL

\* An operation starts only after its predecessor durably succeeded: a started
\* operation was dispatched, so its attempt is issued, and the journal, which is
\* true, issues only after a success.
THEOREM EffectsOrdered == Spec => []EffectsInOrder
  <1>1. SystemInv => EffectsInOrder
    <2> SUFFICES ASSUME SystemInv, NEW i \in started \ {1}
                 PROVE  record[i - 1] = "completed" /\ retained[i - 1] = "success"
      BY Zenon DEF EffectsInOrder
    <2>1. i \in Tasks /\ i \in dispatched /\ plan.attempt[i].state # "none"
      BY DEF SystemInv, NodeInv
    <2>2. JP!GoodPlan(plan) /\ plan.len \in 0..N
      BY Zenon DEF SystemInv, JP!JobInv, JP!GoodPlan, JP!PlanType
    <2>3. ~(i > plan.len)
      BY <2>1, <2>2, SystemAssumption, JP!PlanFacts, SMTT(30) DEF JP!NoAttempt, JP!Tasks, Tasks
    <2>4. i - 1 \in Tasks /\ i - 1 < plan.len
      BY <2>1, <2>2, <2>3, SystemAssumption, SMTT(30) DEF Tasks
    <2>5. plan.attempt[i - 1].state = "completed" /\ JP!FinalReport(plan.attempt[i - 1]) = "success"
      BY <2>2, <2>4, SystemAssumption, JP!PlanFacts, SMTT(30) DEF JP!Tasks, Tasks
    <2> QED
      BY <2>4, <2>5, Zenon DEF SystemInv, EvidenceInv
  <1> QED
    BY <1>1, SystemInvariant, PTL

\* A plan shown as completed, failed or cancelled has nothing running: the last
\* attempt is settled or was rejected, and a plan in doubt is none of the three.
THEOREM FinishedQuiet == Spec => []FinishedIsQuiet
  <1>1. SystemInv => FinishedIsQuiet
    <2> SUFFICES ASSUME SystemInv, plan.status \in {"completed", "failed", "cancelled"},
                        NEW i \in started
                 PROVE  record[i] = "completed"
      BY DEF FinishedIsQuiet
    <2>1. i \in Tasks /\ i \in dispatched /\ plan.attempt[i].state # "none"
      BY DEF SystemInv, NodeInv
    <2>2. JP!GoodPlan(plan) /\ JP!ValidRetained(plan) /\ plan.len \in 0..N
      BY DEF SystemInv, JP!JobInv, JP!GoodPlan, JP!PlanType
    <2>3. /\ plan.attempt[i] \in JP!AttemptType
          /\ JP!ValidLifecycle(plan.attempt[i], plan.task[i])
          /\ plan.attempt[i].state \notin {"issued", "accepted"}
      BY <2>1, <2>2, SystemAssumption, JP!PlanFacts, Zenon
         DEF JP!ValidRetained, JP!ValidStatus, JP!Live, JP!Unsettled, JP!Tasks, Tasks
    <2>4. plan.attempt[i].state # "rejected"
      BY <2>1, Zenon DEF SystemInv, EvidenceInv, NeverRuns
    <2>5. plan.attempt[i].state # "unknown"
      <3> SUFFICES ASSUME plan.attempt[i].state = "unknown" PROVE FALSE
        OBVIOUS
      <3>1. plan.task[i] = "interrupted" /\ i = plan.len
        BY <2>1, <2>2, <2>3, SystemAssumption, JP!PlanFacts, ZenonT(30) DEF JP!ValidLifecycle, JP!Tasks, Tasks
      <3>2. plan.status = "failed"
        BY <2>1, <2>2, <3>1, Zenon DEF JP!ValidRetained, JP!ValidStatus, JP!Tasks, Tasks
      <3>3. PICK k \in Tasks : plan.task[k] = "failed"
        BY <2>2, <3>2, Zenon DEF JP!ValidRetained, JP!ValidStatus, JP!Tasks, Tasks
      <3>4. k # plan.len /\ k \in Nat /\ plan.len \in Nat
        BY <2>2, <3>1, <3>3, SystemAssumption, SMTT(30) DEF Tasks
      <3> QED
        BY <2>2, <3>3, <3>4, SystemAssumption, JP!PlanFacts, SMTT(30) DEF JP!Tasks, Tasks
    <2> QED
      BY <2>1, <2>3, <2>4, <2>5, Zenon DEF JP!AttemptType, SystemInv, EvidenceInv
  <1> QED
    BY <1>1, SystemInvariant, PTL

\* The composed system implements the journal's specification: the runner, the
\* gateway and the node together take only steps ReviewedJob allows, so all that
\* is proved of ReviewedJob holds of the composition.
THEOREM SystemFollowsJob == Spec => JobIsFollowed
  <1>1. Init => Job!Init
    BY DEF Init
  <1>2. SystemInv /\ [Next]_vars => [Job!Next]_(Job!jobvars)
    <2> SUFFICES ASSUME SystemInv, [Next]_vars
                 PROVE  Job!Next \/ UNCHANGED Job!jobvars
      OBVIOUS
    <2>1. UNCHANGED job => UNCHANGED Job!jobvars
      BY DEF job, Job!jobvars, Job!coordinator
    <2>2. UNCHANGED vars => UNCHANGED job
      BY Zenon DEF vars
    <2>3. JP!Next => Job!Next
      BY SameActions, Zenon DEF JP!Next, Job!Next, JP!Runner, Job!Runner, JP!Owner, Job!Owner,
                         JP!Tasks, Job!Tasks, JP!Reports, Job!Reports
    <2> QED
      BY <2>1, <2>2, <2>3, JobFollows, Zenon
  <1> QED
    BY <1>1, <1>2, SystemInvariant, PTL DEF Spec, JobIsFollowed, Job!Spec
=============================================================================
