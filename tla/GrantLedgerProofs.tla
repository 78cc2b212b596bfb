-------------------------- MODULE GrantLedgerProofs --------------------------
(***************************************************************************)
(* Proofs of GrantLedger's safety properties for every set of grants,      *)
(* runners and slots, and every receipt limit.                             *)
(*                                                                         *)
(* The inductive invariant adds to the properties what the journal and the *)
(* runners know of each other: whose row and whose watch a runner owns,    *)
(* which rows a claim wrote, that an attempt number is used once per slot, *)
(* and that a runner that has not polled its operation has not started it. *)
(***************************************************************************)
EXTENDS GrantLedger, TLAPS

\* A busy task has a grant; its report exists once its run ended.
RunnerShape ==
    \A r \in Runners :
        /\ phase[r] # "idle" => job[r] \in Grants
        /\ phase[r] \in {"idle", "lease", "claimed", "watching"} => ~begun[r]
        /\ phase[r] \in {"idle", "lease", "claimed", "watching", "loop", "poll"}
             => outcome[r] = "none"
        /\ phase[r] = "ended" => outcome[r] \in {"completed", "unknown"}
        /\ phase[r] \in Owning \cup {"idle", "lease"} => ~persisted[r]

\* The registry holds exactly the watches of live runs.
Registered ==
    /\ \A r \in Runners : phase[r] \in Watching => watcher[job[r]] = r
    /\ \A g \in Grants, r \in Runners :
         watcher[g] = r => phase[r] \in Watching /\ job[r] = g

\* Which rows claims wrote, and which a stop consumed first.
RowHistory ==
    \A g \in Grants :
        /\ receipts[g] \in {"accepted", "completed"} => g \in claimed
        /\ g \in claimed => receipts[g] # "none"
        /\ stops[g] = "first" => g \notin claimed

\* The primary key (issuer, job, task, attempt) of execution_receipts.
SlotsUnique ==
    \A g, h \in Rows :
        SlotOf[g] = SlotOf[h] /\ Attempt[g] = Attempt[h] => g = h

\* An operation was started only by the runner that claimed it.
StartHistory ==
    /\ \A g \in Grants : starts[g] \in {0, 1} /\ (starts[g] = 1 => g \in claimed)
    /\ \A r \in Runners : phase[r] \in Owning /\ ~begun[r] => starts[job[r]] = 0

\* A finished runner's report agrees with its row.
ReportHistory ==
    \A r \in Runners : phase[r] \in {"retire", "reply"} =>
        /\ outcome[r] = "completed" => receipts[job[r]] = "completed"
        /\ persisted[r] => /\ outcome[r] \in {"completed", "unknown"}
                           /\ receipts[job[r]] = outcome[r]

LedgerInv ==
    /\ TypeOK
    /\ RunnerShape
    /\ OneOwnerPerRow
    /\ Registered
    /\ WatchersSeeStops
    /\ RowHistory
    /\ SlotsUnique
    /\ UncertainAttemptBlocksRetry
    /\ StartHistory
    /\ ReportHistory

-----------------------------------------------------------------------------
(* The invariant is inductive.                                             *)

\* The journal is empty and every runner idle when the node first starts.
LEMMA LedgerInit == Init => LedgerInv
BY GrantAssumption DEF Init, LedgerInv, TypeOK, RunnerShape, OneOwnerPerRow,
   Registered, WatchersSeeStops, RowHistory, SlotsUnique, Rows,
   UncertainAttemptBlocksRetry, StartHistory, ReportHistory, Phases, Owning,
   Watching

\* A claim takes a free attempt above a completed one: its row has one owner,
\* its slot one row per attempt, and every lower claim is completed.
LEMMA ClaimStep ==
    ASSUME LedgerInv, NEW r \in Runners, Claim(r)
    PROVE  LedgerInv'
  <1> USE GrantAssumption DEF LedgerInv, TypeOK, RunnerShape, OneOwnerPerRow,
          Registered, WatchersSeeStops, RowHistory, SlotsUnique, Rows,
          UncertainAttemptBlocksRetry, StartHistory, ReportHistory, Phases,
          Owning, Watching, journal, running, history
  <1>g. job[r] \in Grants /\ receipts[job[r]] = "none" /\ stops[job[r]] = "none"
    BY DEF Claim, CheckAttemptSlot
  <1>s. \A k \in Rows : SlotOf[k] = SlotOf[job[r]]
           => Attempt[k] < Attempt[job[r]] /\ (k \in claimed => receipts[k] = "completed")
    <2>1. CASE SlotRows(job[r]) = {}
      BY <2>1 DEF SlotRows
    <2>2. CASE SlotRows(job[r]) # {}
      <3>1. PICK h \in SlotRows(job[r]) :
               /\ \A k \in SlotRows(job[r]) : Attempt[k] <= Attempt[h]
               /\ Attempt[h] < Attempt[job[r]]
               /\ receipts[h] = "completed"
        BY <2>2 DEF Claim, CheckAttemptSlot
      <3>2. h \in Rows /\ SlotOf[h] = SlotOf[job[r]] /\ h \in claimed
        BY <3>1 DEF SlotRows
      <3>3. ASSUME NEW k \in Rows, SlotOf[k] = SlotOf[job[r]]
            PROVE  Attempt[k] < Attempt[job[r]] /\ (k \in claimed => receipts[k] = "completed")
        <4>1. Attempt[k] <= Attempt[h]
          BY <3>1, <3>3 DEF SlotRows
        <4>2. Attempt[k] \in Nat /\ Attempt[h] \in Nat /\ Attempt[job[r]] \in Nat
          BY <1>g, <3>2, <3>3, SMTT(30)
        <4>3. Attempt[k] < Attempt[h] \/ k = h
          BY <3>2, <3>3, <4>1, <4>2
        <4> QED
          BY <3>1, <3>2, <3>3, <4>2, <4>3
      <3> QED
        BY <3>3
    <2> QED
      BY <2>1, <2>2
  <1>1. TypeOK'
    BY <1>g, <1>s DEF Claim
  <1>2. RunnerShape'
    BY <1>g, <1>s DEF Claim
  <1>3. OneOwnerPerRow'
    BY <1>g, <1>s DEF Claim
  <1>4. Registered'
    BY <1>g, <1>s DEF Claim
  <1>5. WatchersSeeStops'
    BY <1>g, <1>s DEF Claim
  <1>6. RowHistory'
    BY <1>g, <1>s DEF Claim
  <1>w. Rows' = Rows \cup {job[r]}
    BY <1>g DEF Claim
  <1>a. \A g \in Grants : Attempt[g] \in Nat
    OBVIOUS
  <1>7. SlotsUnique'
    <2> SUFFICES ASSUME NEW g \in Rows', NEW h \in Rows', SlotOf[g] = SlotOf[h],
                        Attempt[g] = Attempt[h]
                 PROVE  g = h
      OBVIOUS
    <2>1. g \in Grants /\ h \in Grants
      OBVIOUS
    <2>2. g \in Rows \cup {job[r]} /\ h \in Rows \cup {job[r]}
      BY <1>w
    <2>3. (g \in Rows => h \in Rows) /\ (h \in Rows => g \in Rows)
      BY <1>a, <1>s, <2>1, <2>2
    <2> QED
      BY <2>2, <2>3
  <1>8. UncertainAttemptBlocksRetry'
    <2> SUFFICES ASSUME NEW g \in claimed', NEW h \in claimed', SlotOf[g] = SlotOf[h],
                        Attempt[g] < Attempt[h]
                 PROVE  receipts'[g] = "completed"
      OBVIOUS
    <2>1. g \in claimed \cup {job[r]} /\ h \in claimed \cup {job[r]}
      BY DEF Claim
    <2>2. \A k \in claimed : k \in Rows /\ k # job[r] /\ receipts'[k] = receipts[k]
      BY <1>g DEF Claim
    <2>3. g # job[r]
      BY <1>a, <1>g, <1>s, <2>1, <2>2
    <2>4. g \in claimed /\ g \in Rows
      BY <2>1, <2>2, <2>3
    <2>5. CASE h = job[r]
      BY <1>s, <2>2, <2>4, <2>5
    <2>6. CASE h # job[r]
      BY <2>1, <2>2, <2>4, <2>6
    <2> QED
      BY <2>5, <2>6
  <1>9. StartHistory'
    BY <1>g, <1>s DEF Claim
  <1>10. ReportHistory'
    BY <1>g, <1>s DEF Claim
  <1> QED
    BY <1>1, <1>2, <1>3, <1>4, <1>5, <1>6, <1>7, <1>8, <1>9, <1>10

\* A new watch starts from what the journal says.
LEMMA WatchStopStep ==
    ASSUME LedgerInv, NEW r \in Runners, WatchStop(r)
    PROVE  LedgerInv'
  <1> USE GrantAssumption DEF LedgerInv, TypeOK, RunnerShape, OneOwnerPerRow,
          Registered, WatchersSeeStops, RowHistory, SlotsUnique, Rows,
          UncertainAttemptBlocksRetry, StartHistory, ReportHistory, Phases,
          Owning, Watching, journal, running, history
  <1>1. TypeOK'
    BY DEF WatchStop, RecordedStop
  <1>2. RunnerShape'
    BY DEF WatchStop, RecordedStop
  <1>3. OneOwnerPerRow'
    BY DEF WatchStop, RecordedStop
  <1>4. Registered'
    BY DEF WatchStop, RecordedStop
  <1>5. WatchersSeeStops'
    <2> SUFFICES ASSUME NEW g \in Grants, NEW q \in Runners, watcher'[g] = q,
                        stops'[g] # "none"
                 PROVE  flag'[q]
      BY Zenon
    <2>1. CASE q = r
      <3>1. g = job[r]
        BY <2>1 DEF WatchStop
      <3>2. flag'[r] = RecordedStop(job[r])
        BY DEF WatchStop
      <3>3. stops[job[r]] # "none"
        BY <3>1 DEF WatchStop
      <3> QED
        BY <2>1, <3>2, <3>3, Zenon DEF RecordedStop
    <2>2. CASE q # r
      <3>1. watcher[g] = q
        BY <2>2 DEF WatchStop
      <3> QED
        BY <2>2, <3>1 DEF WatchStop
    <2> QED
      BY <2>1, <2>2
  <1>6. RowHistory'
    BY DEF WatchStop, RecordedStop
  <1>7. SlotsUnique'
    BY DEF WatchStop, RecordedStop
  <1>8. UncertainAttemptBlocksRetry'
    BY DEF WatchStop, RecordedStop
  <1>9. StartHistory'
    BY DEF WatchStop, RecordedStop
  <1>10. ReportHistory'
    BY DEF WatchStop, RecordedStop
  <1> QED
    BY <1>1, <1>2, <1>3, <1>4, <1>5, <1>6, <1>7, <1>8, <1>9, <1>10

\* Only the runner's own registration is removed.
LEMMA RetireStep ==
    ASSUME LedgerInv, NEW r \in Runners, Retire(r)
    PROVE  LedgerInv'
  <1> USE GrantAssumption DEF LedgerInv, TypeOK, RunnerShape, OneOwnerPerRow,
          Registered, WatchersSeeStops, RowHistory, SlotsUnique, Rows,
          UncertainAttemptBlocksRetry, StartHistory, ReportHistory, Phases,
          Owning, Watching, journal, running, history
  <1>1. TypeOK'
    <2>1. job[r] \in Grants
      BY Zenon DEF Retire
    <2>2. watcher' \in [Grants -> Runners \cup {NoRunner}]
      BY <2>1, Zenon DEF Retire
    <2>3. CASE outcome[r] = "none"
      <3>1. Reset(r) /\ UNCHANGED <<receipts, stops, policy, claimed, starts, orphans>>
        BY <2>3, Zenon DEF Retire
      <3>2. /\ flag' \in [Runners -> BOOLEAN]
            /\ persisted' \in [Runners -> BOOLEAN]
            /\ begun' \in [Runners -> BOOLEAN]
            /\ stopping' \in [Runners -> BOOLEAN]
        BY <3>1, Zenon DEF Reset
      <3>3. /\ phase' \in [Runners -> Phases]
            /\ job' \in [Runners -> Grants \cup {NoGrant}]
            /\ outcome' \in [Runners -> {"none", "completed", "unknown", "rejected"}]
            /\ lapse' \in [Runners -> {"no", "jumped", "expired"}]
        BY <3>1, Zenon DEF Reset
      <3> QED
        BY <2>2, <3>1, <3>2, <3>3, Zenon
    <2>4. CASE outcome[r] # "none"
      BY <2>2, <2>4 DEF Retire
    <2> QED
      BY <2>3, <2>4
  <1>2. RunnerShape'
    BY SMTT(30) DEF Retire, Reset
  <1>3. OneOwnerPerRow'
    BY DEF Retire, Reset
  <1>4. Registered'
    BY DEF Retire, Reset
  <1>5. WatchersSeeStops'
    BY DEF Retire, Reset
  <1>6. RowHistory'
    BY Zenon DEF Retire, Reset
  <1>7. SlotsUnique'
    BY Zenon DEF Retire, Reset
  <1>8. UncertainAttemptBlocksRetry'
    BY DEF Retire, Reset
  <1>9. StartHistory'
    BY DEF Retire, Reset
  <1>10. ReportHistory'
    BY DEF Retire, Reset
  <1> QED
    BY <1>1, <1>2, <1>3, <1>4, <1>5, <1>6, <1>7, <1>8, <1>9, <1>10

\* A stop consumes a free attempt, or marks a row it leaves alone, and tells
\* the registered watcher.
LEMMA RequestStopStep ==
    ASSUME LedgerInv, NEW g \in Grants, RequestStop(g)
    PROVE  LedgerInv'
  <1> USE GrantAssumption DEF LedgerInv, TypeOK, RunnerShape, OneOwnerPerRow,
          Registered, WatchersSeeStops, RowHistory, SlotsUnique, Rows,
          UncertainAttemptBlocksRetry, StartHistory, ReportHistory, Phases,
          Owning, Watching, journal, running, history
  <1>1. TypeOK'
    BY SMTT(30) DEF RequestStop, StopRows, SlotRows
  <1>2. RunnerShape'
    BY DEF RequestStop, StopRows, SlotRows
  <1>3. OneOwnerPerRow'
    BY DEF RequestStop, StopRows, SlotRows
  <1>4. Registered'
    BY DEF RequestStop, StopRows, SlotRows
  <1>5. WatchersSeeStops'
    <2> SUFFICES ASSUME NEW h \in Grants, NEW q \in Runners, watcher'[h] = q,
                        stops'[h] # "none"
                 PROVE  flag'[q]
      BY Zenon
    <2>1. flag'[q] = (flag[q] \/ watcher[g] = q)
      BY Zenon DEF RequestStop
    <2>2. watcher[h] = q
      BY Zenon DEF RequestStop
    <2>3. h = g \/ stops[h] # "none"
      BY SMTT(30) DEF RequestStop, StopRows
    <2>4. watcher[g] = q \/ flag[q]
      BY <2>2, <2>3, Zenon
    <2> QED
      BY <2>1, <2>4, Zenon
  <1>6. RowHistory'
    BY DEF RequestStop, StopRows, SlotRows
  <1>7. SlotsUnique'
    BY DEF RequestStop, StopRows, SlotRows
  <1>8. UncertainAttemptBlocksRetry'
    BY DEF RequestStop, StopRows, SlotRows
  <1>9. StartHistory'
    BY Zenon DEF RequestStop, StopRows, SlotRows
  <1>10. ReportHistory'
    BY DEF RequestStop, StopRows, SlotRows
  <1> QED
    BY <1>1, <1>2, <1>3, <1>4, <1>5, <1>6, <1>7, <1>8, <1>9, <1>10, Zenon

\* Every step of the node preserves the invariant.
LEMMA LedgerNext == LedgerInv /\ [Next]_vars => LedgerInv'
  <1> SUFFICES ASSUME LedgerInv, [Next]_vars PROVE LedgerInv'
    BY Zenon
  <1> USE GrantAssumption DEF LedgerInv, TypeOK, RunnerShape, OneOwnerPerRow,
          Registered, WatchersSeeStops, RowHistory, SlotsUnique, Rows,
          UncertainAttemptBlocksRetry, StartHistory, ReportHistory, Phases,
          Owning, Watching, journal, running, history
  <1>1. ASSUME NEW r \in Runners, Step(r) PROVE LedgerInv'
    <2>1. CASE Claim(r)
      BY <2>1, ClaimStep, Zenon
    <2>2. CASE Deny(r)
      BY <2>2, SMTT(30) DEF Deny, Rejects
    <2>3. CASE WatchStop(r)
      BY <2>3, WatchStopStep, Zenon
    <2>4. CASE WatchFails(r)
      BY <2>4, SMTT(30) DEF WatchFails, Rejects
    <2>5. CASE Acknowledge(r)
      BY <2>5, SMTT(30) DEF Acknowledge
    <2>6. CASE LoopTop(r)
      BY <2>6, SMTT(30) DEF LoopTop, Ends, RunEnds, Signalled
    <2>7. CASE Tick(r)
      BY <2>7 DEF Tick
    <2>8. CASE PollPending(r)
      BY <2>8, SMTT(30) DEF PollPending, Polls, Launches
    <2>9. CASE PollCompletes(r)
      BY <2>9, SMTT(30) DEF PollCompletes, Polls, Launches, Ends
    <2>10. CASE PollFails(r)
      BY <2>10, SMTT(30) DEF PollFails, Polls, Launches, Ends
    <2>11. CASE Finish(r)
      BY <2>11, SMTT(30) DEF Finish, FinishRow
    <2>12. CASE FinishFails(r)
      BY <2>12, SMTT(30) DEF FinishFails, FailedReport
    <2>13. CASE DropRunner(r)
      BY <2>13, SMTT(30) DEF DropRunner, FinishRow
    <2>14. CASE Retire(r)
      BY <2>14, RetireStep
    <2>15. CASE Reply(r)
      BY <2>15, SMTT(30) DEF Reply, Reset
    <2> QED
      BY <1>1, <2>1, <2>2, <2>3, <2>4, <2>5, <2>6, <2>7, <2>8, <2>9, <2>10, <2>11, <2>12, <2>13, <2>14, <2>15, Zenon DEF Step
  <1>2. ASSUME NEW r \in Runners, NEW g \in Grants, Deliver(r, g) PROVE LedgerInv'
    BY <1>2, SMTT(30) DEF Deliver
  <1>3. ASSUME NEW r \in Runners, NEW g \in Grants, Refuse(r, g) PROVE LedgerInv'
    BY <1>3 DEF Refuse, Rejects
  <1>4. ASSUME NEW g \in Grants, RequestStop(g) PROVE LedgerInv'
    BY <1>4, RequestStopStep, Zenon
  <1>5. ASSUME NEW r \in Runners, NEW how \in {"jumped", "expired"}, Lapse(r, how)
        PROVE  LedgerInv'
    BY <1>5, SMTT(30) DEF Lapse
  <1>6. CASE ChangePolicy
    BY <1>6, SMTT(30) DEF ChangePolicy
  <1>7. CASE Crash
    BY <1>7, SMTT(30) DEF Crash
  <1>8. CASE UNCHANGED vars
    BY <1>8 DEF vars
  <1> HIDE DEF LedgerInv
  <1> QED
    BY <1>1, <1>2, <1>3, <1>4, <1>5, <1>6, <1>7, <1>8, Zenon DEF Next

-----------------------------------------------------------------------------
(* The theorems.                                                           *)

\* The inductive invariant holds in every reachable state of the node.
THEOREM LedgerInvariant == Spec => []LedgerInv
  <1>1. Init => LedgerInv
    BY LedgerInit
  <1>2. LedgerInv /\ [Next]_vars => LedgerInv'
    BY LedgerNext
  <1> QED
    BY <1>1, <1>2, PTL DEF Spec

\* Every variable keeps its type: receipt states, stop kinds, runner phases.
THEOREM TypeCorrect == Spec => []TypeOK
  <1>1. LedgerInv => TypeOK
    BY Zenon DEF LedgerInv
  <1> QED
    BY <1>1, LedgerInvariant, PTL

\* A granted operation is started at most once for any number of runners,
\* duplicate deliveries, stops and restarts (claim, AcceptedGrant::run).
THEOREM AtMostOnce == Spec => []StartedAtMostOnce
  <1>1. LedgerInv => StartedAtMostOnce
    BY DEF LedgerInv, StartHistory, StartedAtMostOnce
  <1> QED
    BY <1>1, LedgerInvariant, PTL

\* An uncertain attempt blocks every later attempt of its job and task
\* (check_attempt_slot).
THEOREM NoRetryPastUncertainty == Spec => []UncertainAttemptBlocksRetry
  <1>1. LedgerInv => UncertainAttemptBlocksRetry
    BY DEF LedgerInv
  <1> QED
    BY <1>1, LedgerInvariant, PTL

\* An operation runs only under a durable claim, and never after a stop that
\* came first (prepare_deadline, request_stop_scope).
THEOREM ClaimPrecedesStart == Spec => []StartedOnlyAfterClaim
  <1>1. LedgerInv => StartedOnlyAfterClaim
    BY DEF LedgerInv, StartHistory, RowHistory, TypeOK, StartedOnlyAfterClaim
  <1> QED
    BY <1>1, LedgerInvariant, PTL

\* No claim-then-watch race hides a durable stop from a watcher
\* (watch_stop_scope, request_stop_scope).
THEOREM StopsReachWatchers == Spec => []WatchersSeeStops
  <1>1. LedgerInv => WatchersSeeStops
    BY DEF LedgerInv
  <1> QED
    BY <1>1, LedgerInvariant, PTL

\* An accepted row under a live runner belongs to it alone (claim, finish).
THEOREM RowsHaveOneOwner == Spec => []OneOwnerPerRow
  <1>1. LedgerInv => OneOwnerPerRow
    BY DEF LedgerInv
  <1> QED
    BY <1>1, LedgerInvariant, PTL

\* What a runner reports is what its row says (run_operation_with_clock).
THEOREM ReportsAreBacked == Spec => []ReportMatchesRow
  <1>1. LedgerInv => ReportMatchesRow
    BY DEF LedgerInv, ReportHistory, ReportMatchesRow
  <1> QED
    BY <1>1, LedgerInvariant, PTL

\* Terminal rows and stop rows never change (finish, request_stop_scope).
THEOREM PermanentEvidence == Spec => EvidenceIsPermanent
  <1>1. LedgerInv /\ [Next]_vars => [KeepsEvidence]_vars
    <2> SUFFICES ASSUME LedgerInv, Next PROVE KeepsEvidence
      BY Zenon
    <2> USE DEF LedgerInv, TypeOK, RunnerShape, OneOwnerPerRow, Owning,
            KeepsEvidence, journal, running, history
    <2>1. ASSUME NEW r \in Runners, Step(r) PROVE KeepsEvidence
      <3>1. CASE Claim(r)
        BY <3>1, Zenon DEF Claim, CheckAttemptSlot
      <3>2. CASE Deny(r) \/ WatchStop(r) \/ WatchFails(r) \/ Acknowledge(r)
        BY <3>2, Zenon DEF Deny, WatchStop, WatchFails, Acknowledge
      <3>3. CASE LoopTop(r) \/ Tick(r)
        BY <3>3, Zenon DEF LoopTop, Tick
      <3>4. CASE PollPending(r) \/ PollCompletes(r) \/ PollFails(r)
        BY <3>4, Zenon DEF PollPending, PollCompletes, PollFails
      <3>5. CASE Finish(r)
        BY <3>5, Zenon DEF Finish, FinishRow
      <3>6. CASE FinishFails(r)
        BY <3>6, Zenon DEF FinishFails
      <3>7. CASE DropRunner(r)
        <4>1. UNCHANGED stops
          BY <3>7, Zenon DEF DropRunner
        <4>2. CASE FinishRow(job[r], "unknown")
          BY <4>1, <4>2 DEF FinishRow
        <4>3. CASE UNCHANGED receipts
          BY <4>1, <4>3, Zenon
        <4> QED
          BY <3>7, <4>2, <4>3, Zenon DEF DropRunner
      <3>8. CASE Retire(r) \/ Reply(r)
        BY <3>8, Zenon DEF Retire, Reply
      <3> QED
        BY <2>1, <3>1, <3>2, <3>3, <3>4, <3>5, <3>6, <3>7, <3>8, Zenon DEF Step
    <2>2. ASSUME NEW r \in Runners, NEW g \in Grants, Deliver(r, g) \/ Refuse(r, g)
          PROVE  KeepsEvidence
      BY <2>2, Zenon DEF Deliver, Refuse
    <2>3. ASSUME NEW g \in Grants, RequestStop(g) PROVE KeepsEvidence
      BY <2>3, SMTT(30) DEF RequestStop, StopRows
    <2>4. ASSUME NEW r \in Runners, Lapse(r, "jumped") \/ Lapse(r, "expired")
          PROVE  KeepsEvidence
      BY <2>4 DEF Lapse
    <2>5. CASE ChangePolicy \/ Crash
      BY <2>5, ZenonT(30) DEF ChangePolicy, Crash
    <2> QED
      BY <2>1, <2>2, <2>3, <2>4, <2>5 DEF Next
  <1> QED
    BY <1>1, LedgerInvariant, PTL DEF Spec, EvidenceIsPermanent

\* A stop recorded before the operation is polled wins for good: the watch
\* carries it to the loop's check in whatever order claim, watch and stop ran
\* (watch_stop_scope, request_stop_scope, run_operation_with_clock).
THEOREM EarlyStopWins == Spec => StopBeforePollPreventsStart
  <1>1. LedgerInv /\ [Next]_vars => [StaysStopped]_vars
    <2> SUFFICES ASSUME LedgerInv, Next, NEW g \in Grants, StoppedInTime(g)
                 PROVE  StoppedInTime(g)'
      BY Zenon DEF StaysStopped
    <2> USE DEF LedgerInv, TypeOK, RunnerShape, Registered, WatchersSeeStops,
            StoppedInTime, Watching, Phases, journal, running, history
    <2>1. ASSUME NEW r \in Runners, Step(r) PROVE StoppedInTime(g)'
      <3>1. CASE LoopTop(r)
        <4>1. job[r] = g => flag[r]
          BY <3>1, SMTT(30) DEF LoopTop
        <4>2. job[r] = g /\ phase'[r] = "poll" => stopping'[r]
          BY <3>1, <4>1, SMTT(30) DEF LoopTop, RunEnds, Signalled, Ends
        <4>3. \A q \in Runners \ {r} : phase'[q] = phase[q] /\ stopping'[q] = stopping[q]
          BY <3>1, SMTT(30) DEF LoopTop, Ends
        <4> QED
          BY <3>1, <4>2, <4>3, SMTT(30) DEF LoopTop
      <3>2. CASE PollPending(r) \/ PollCompletes(r) \/ PollFails(r)
        <4>1. job[r] = g => ~Launches(r)
          BY <3>2, Zenon DEF PollPending, PollCompletes, PollFails, Polls, Launches
        <4>2. starts'[g] = 0
          BY <3>2, <4>1, SMTT(30) DEF PollPending, PollCompletes, PollFails, Polls
        <4> QED
          BY <3>2, <4>2 DEF PollPending, PollCompletes, PollFails, Ends
      <3>3. CASE Retire(r) \/ Reply(r)
        BY <3>3, SMTT(30) DEF Retire, Reply, Reset
      <3>4. CASE Claim(r) \/ Deny(r) \/ WatchStop(r) \/ WatchFails(r) \/ Acknowledge(r)
        BY <3>4, SMTT(30) DEF Claim, Deny, Rejects, WatchStop, WatchFails, Acknowledge
      <3>5. CASE Tick(r) \/ Finish(r) \/ FinishFails(r) \/ DropRunner(r)
        BY <3>5, SMTT(30) DEF Tick, Finish, FinishFails, DropRunner
      <3> QED
        BY <2>1, <3>1, <3>2, <3>3, <3>4, <3>5, Zenon DEF Step
    <2>2. ASSUME NEW r \in Runners, NEW h \in Grants, Deliver(r, h) \/ Refuse(r, h)
          PROVE  StoppedInTime(g)'
      BY <2>2, SMTT(30) DEF Deliver, Refuse, Rejects
    <2>3. ASSUME NEW h \in Grants, RequestStop(h) PROVE StoppedInTime(g)'
      BY <2>3, SMTT(30) DEF RequestStop, StopRows
    <2>4. ASSUME NEW r \in Runners, Lapse(r, "jumped") \/ Lapse(r, "expired")
          PROVE  StoppedInTime(g)'
      BY <2>4, SMTT(30) DEF Lapse
    <2>5. CASE ChangePolicy \/ Crash
      BY <2>5, GrantAssumption DEF ChangePolicy, Crash
    <2> QED
      BY <2>1, <2>2, <2>3, <2>4, <2>5, Zenon DEF Next
  <1> QED
    BY <1>1, LedgerInvariant, PTL DEF Spec, StopBeforePollPreventsStart

-----------------------------------------------------------------------------
(* Refinement of GrantContract.                                            *)

\* What polled its operation and goes on, or ended as completed, started it.
StartedRuns ==
    \A r \in Runners :
        /\ phase[r] \in {"loop", "poll"} /\ begun[r] => starts[job[r]] > 0
        /\ phase[r] = "ended" /\ outcome[r] = "completed" => starts[job[r]] > 0

\* A poll that leaves the run going, or completes it, launched the operation
\* then or at an earlier poll (run_operation_with_clock, process_exec).
LEMMA StartedRunsStep ==
    ASSUME LedgerInv, StartedRuns, [Next]_vars
    PROVE  StartedRuns'
  <1> USE DEF LedgerInv, TypeOK, RunnerShape, OneOwnerPerRow, StartHistory,
          StartedRuns, Owning, Phases, journal, running, history
  <1>1. ASSUME NEW r \in Runners, Step(r) PROVE StartedRuns'
    <2>1. CASE PollPending(r) \/ PollCompletes(r) \/ PollFails(r)
      <3>1. \A g \in Grants : starts[g] > 0 => starts'[g] > 0
        BY <2>1, SMTT(30) DEF PollPending, PollCompletes, PollFails, Polls
      <3>2. PollPending(r) \/ PollCompletes(r) => starts'[job[r]] > 0
        BY <2>1, SMTT(30) DEF PollPending, PollCompletes, Polls, Launches
      <3> QED
        BY <2>1, <3>1, <3>2, SMTT(30) DEF PollPending, PollCompletes, PollFails, Polls, Ends
    <2>2. CASE LoopTop(r) \/ Tick(r)
      BY <2>2, SMTT(30) DEF LoopTop, Ends, Tick
    <2>3. CASE Claim(r) \/ Deny(r) \/ WatchStop(r) \/ WatchFails(r) \/ Acknowledge(r)
      BY <2>3, SMTT(30) DEF Claim, Deny, Rejects, WatchStop, WatchFails, Acknowledge
    <2>4. CASE Finish(r) \/ FinishFails(r) \/ DropRunner(r)
      BY <2>4, SMTT(30) DEF Finish, FinishFails, DropRunner
    <2>5. CASE Retire(r) \/ Reply(r)
      BY <2>5, SMTT(30) DEF Retire, Reply, Reset
    <2> QED
      BY <1>1, <2>1, <2>2, <2>3, <2>4, <2>5, ZenonT(30) DEF Step
  <1>2. ASSUME NEW r \in Runners, NEW g \in Grants, Deliver(r, g) \/ Refuse(r, g)
        PROVE  StartedRuns'
    BY <1>2, SMTT(30) DEF Deliver, Refuse, Rejects
  <1>3. ASSUME NEW g \in Grants, RequestStop(g) PROVE StartedRuns'
    BY <1>3, Zenon DEF RequestStop
  <1>4. ASSUME NEW r \in Runners, Lapse(r, "jumped") \/ Lapse(r, "expired")
        PROVE  StartedRuns'
    BY <1>4, SMTT(30) DEF Lapse
  <1>5. CASE ChangePolicy \/ Crash \/ UNCHANGED vars
    BY <1>5 DEF ChangePolicy, Crash, vars
  <1> QED
    BY <1>1, <1>2, <1>3, <1>4, <1>5, Zenon DEF Next

\* Every step of the ledger is a step of the contract or a stutter.
LEMMA ContractStep ==
    ASSUME LedgerInv, StartedRuns, [Next]_vars
    PROVE  [Contract!Next]_(Contract!contract)
  <1> USE DEF LedgerInv, TypeOK, RunnerShape, OneOwnerPerRow, StartHistory,
          StartedRuns, Owning, Phases, journal, running, history,
          Started, Contract!Next, Contract!contract
  <1>1. ASSUME NEW r \in Runners, Step(r)
        PROVE  [Contract!Next]_(Contract!contract)
    <2>1. CASE Claim(r)
      <3>1. job[r] \in Grants /\ Contract!Consume(job[r])
        BY <2>1, Zenon DEF Claim, CheckAttemptSlot, Contract!Consume
      <3> QED
        BY <3>1, Zenon
    <2>2. CASE PollPending(r) \/ PollCompletes(r) \/ PollFails(r)
      <3>1. CASE Launches(r)
        <4>1. job[r] \in Grants /\ Contract!Start(job[r])
          BY <2>2, <3>1, SMTT(30) DEF PollPending, PollCompletes, PollFails, Polls, Launches,
             Contract!Start
        <4> HIDE DEF LedgerInv, StartedRuns, Started
        <4> QED
          BY <4>1, ZenonT(30)
      <3>2. CASE ~Launches(r)
        BY <2>2, <3>2 DEF PollPending, PollCompletes, PollFails, Polls
      <3> QED
        BY <3>1, <3>2
    <2>3. CASE Finish(r)
      <3>1. job[r] \in Grants /\ Contract!Settle(job[r], outcome[r])
        BY <2>3 DEF Finish, FinishRow, Contract!Settle
      <3>2. outcome[r] \in {"completed", "unknown"}
        BY <2>3, Zenon DEF Finish
      <3> HIDE DEF LedgerInv, StartedRuns
      <3> QED
        BY <3>1, <3>2, ZenonT(30)
    <2>4. CASE DropRunner(r)
      <3>1. CASE FinishRow(job[r], "unknown")
        <4>1. job[r] \in Grants /\ Contract!Settle(job[r], "unknown")
          BY <2>4, <3>1, SMTT(30) DEF DropRunner, FinishRow, Contract!Settle
        <4> QED
          BY <4>1, Zenon
      <3>2. CASE UNCHANGED receipts
        BY <2>4, <3>2 DEF DropRunner
      <3> QED
        BY <2>4, <3>1, <3>2, Zenon DEF DropRunner
    <2>5. CASE \/ Deny(r) \/ WatchStop(r) \/ WatchFails(r) \/ Acknowledge(r)
               \/ LoopTop(r) \/ Tick(r) \/ FinishFails(r) \/ Retire(r) \/ Reply(r)
      BY <2>5, ZenonT(30) DEF Deny, WatchStop, WatchFails, Acknowledge, LoopTop, Tick,
         FinishFails, Retire, Reply
    <2> QED
      BY <1>1, <2>1, <2>2, <2>3, <2>4, <2>5, Zenon DEF Step
  <1>2. ASSUME NEW r \in Runners, NEW g \in Grants, Deliver(r, g) \/ Refuse(r, g)
        PROVE  [Contract!Next]_(Contract!contract)
    BY <1>2 DEF Deliver, Refuse
  <1>3. ASSUME NEW g \in Grants, RequestStop(g)
        PROVE  [Contract!Next]_(Contract!contract)
    <2>1. CASE receipts' = receipts
      BY <1>3, <2>1 DEF RequestStop
    <2>2. CASE receipts' # receipts
      <3>1. Contract!StopFirst(g)
        BY <1>3, <2>2, SMTT(30) DEF RequestStop, StopRows, Contract!StopFirst
      <3> QED
        BY <3>1, Zenon
    <2> QED
      BY <2>1, <2>2, Zenon
  <1>4. ASSUME NEW r \in Runners, Lapse(r, "jumped") \/ Lapse(r, "expired")
        PROVE  [Contract!Next]_(Contract!contract)
    BY <1>4, SMTT(30) DEF Lapse
  <1>5. CASE ChangePolicy \/ Crash \/ UNCHANGED vars
    BY <1>5 DEF ChangePolicy, Crash, vars
  <1> QED
    BY <1>1, <1>2, <1>3, <1>4, <1>5, Zenon DEF Next

\* The ledger and its runners implement the contract: the coordinator may rely
\* on it whatever interleaving, failure or restart the node goes through.
THEOREM LedgerImplementsContract == Spec => ImplementsContract
  <1>1. Init => Contract!Init
    BY DEF Init, Started, Contract!Init
  <1>2. Init => StartedRuns
    BY DEF Init, StartedRuns
  <1>3. LedgerInv /\ StartedRuns /\ [Next]_vars => StartedRuns'
    BY StartedRunsStep
  <1>4. LedgerInv /\ StartedRuns /\ [Next]_vars => [Contract!Next]_(Contract!contract)
    BY ContractStep
  <1> QED
    BY <1>1, <1>2, <1>3, <1>4, LedgerInvariant, PTL
    DEF Spec, ImplementsContract, Contract!Spec
=============================================================================
