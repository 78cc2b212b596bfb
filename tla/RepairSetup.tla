----------------------------- MODULE RepairSetup -----------------------------
(***************************************************************************)
(* The repair setup policy of an installation (package_setup.rs) and the   *)
(* proposals it acts on (repair_sources.rs).  An owner saves a policy; when *)
(* the running bundle misses a file, the supervisor makes one attempt per  *)
(* policy identity: it checks the source, retains a proposal, waits for    *)
(* the owner or goes on by itself, and runs a verified repair.  An owner   *)
(* may approve the same proposal from the command line at the same time.   *)
(*                                                                         *)
(* The repair itself is PackageInstall's; here it is its receipt and the   *)
(* three moments the policy cares about: admitted, authorized, over.       *)
(***************************************************************************)
EXTENDS Naturals

CONSTANTS MaxPolicy,   \* bound on saved policies; a proposal is named by its policy
          MaxRestarts, \* bound on restarts of the process
          None

VARIABLES policy,     \* the saved repair setup policy
          records,    \* the setup history, one record per policy identity
          driver,     \* the holder of the setup runner lease
          plans,      \* retained proposals that have not expired
          receipts,   \* repair receipts by proposal identity
          op,         \* the repair that holds .update.lock
          build,      \* the running bundle
          pending,    \* another bundle is selected than the running one
          lost,       \* the running bundle misses a required file
          restarts

vars == <<policy, records, driver, plans, receipts, op, build, pending, lost, restarts>>

Policies == 1..MaxPolicy
NoRecord == [phase |-> "none", approved |-> FALSE, unknown |-> FALSE]
Receipt(by) == [step |-> "admitted", outcome |-> "in_progress", by |-> by]

(***************************************************************************)
(* Authority                                                               *)
(***************************************************************************)

\* Fence::policy_guard: the policy the driver was started under is the saved one.
PolicyHolds == policy.revision = driver.revision

\* Fence::authorize adds the build the policy was saved for and the cause.
FenceHolds == PolicyHolds /\ ~pending /\ build = policy.build /\ lost

\* validate_plan: retained, unexpired and proposed for the running build
PlanValid(id) == ~pending /\ [id |-> id, build |-> build] \in plans

\* The closure apply_for calls again after the download.
Authorized == (op.by = "setup" => FenceHolds) /\ PlanValid(op.id)

\* Variant: the guard is dropped as soon as it has been checked.
SharedBriefly == FALSE

\* A publishing attempt of the driver shares the policy lock.
Shared == op # None /\ op.by = "setup" /\ op.stage = "publishing"

\* configure_checked: a new identity for every saved policy
Configure(mode) ==
    /\ ~Shared
    /\ policy.revision < MaxPolicy
    /\ mode # "off" => ~pending
    /\ policy' = [revision |-> policy.revision + 1, mode |-> mode, build |-> build]
    /\ UNCHANGED <<records, driver, plans, receipts, op, build, pending, lost, restarts>>

(***************************************************************************)
(* The repair, as its receipt shows it                                     *)
(***************************************************************************)

\* unadmitted and Attempt::begin: an identity is admitted once.
Admissible(id) == receipts[id] = None

Begin(id, by) ==
    /\ op = None
    /\ PlanValid(id) /\ Admissible(id)
    /\ receipts' = [receipts EXCEPT ![id] = Receipt(by)]
    /\ op' = [id |-> id, by |-> by, stage |-> "downloading"]

\* repair --approve by an owner
OwnerApproves(id) ==
    /\ Begin(id, "owner")
    /\ UNCHANGED <<policy, records, driver, plans, build, pending, lost, restarts>>

Publish ==
    /\ op # None /\ op.stage = "downloading"
    /\ Authorized
    /\ op' = [op EXCEPT !.stage = "publishing"]
    /\ receipts' = [receipts EXCEPT ![op.id].step = "staging"]
    /\ UNCHANGED <<policy, records, driver, plans, build, pending, lost, restarts>>

\* application_report of an attempt that did not succeed
Unknown(r, leased) ==
    r # None /\ \/ r.outcome = "in_progress" /\ ~leased
                \/ r.step # "admitted" /\ r.outcome # "selected"

\* The driver learns how its repair ended; an owner's command just returns.
Told(success, unknown) ==
    IF op.by = "setup"
    THEN [driver EXCEPT !.stage = "done", !.success = success, !.unknown = unknown]
    ELSE driver

Selected ==
    /\ op # None /\ op.stage = "publishing"
    /\ receipts' = [receipts EXCEPT ![op.id].step = "selected", ![op.id].outcome = "selected"]
    /\ driver' = Told(TRUE, FALSE)
    /\ pending' = TRUE
    /\ op' = None
    /\ UNCHANGED <<policy, records, plans, build, lost, restarts>>

\* Any error on the way; a generation may already have been written.
Fails ==
    /\ op # None
    /\ \E outcome \in {"failed", "in_progress"} :
         LET r == [receipts[op.id] EXCEPT !.outcome = outcome]
         IN  /\ receipts' = [receipts EXCEPT ![op.id] = r]
             /\ driver' = Told(FALSE, Unknown(r, FALSE))
    /\ pending' \in IF op.stage = "publishing" THEN {pending, TRUE} ELSE {pending}
    /\ op' = None
    /\ UNCHANGED <<policy, records, plans, build, lost, restarts>>

(***************************************************************************)
(* The attempt of the supervisor, or of an owner's command                 *)
(***************************************************************************)
Drivable ==
    /\ driver = None
    /\ policy.mode # "off"
    /\ ~pending /\ build = policy.build

Driving(stage) ==
    [revision |-> policy.revision, auto |-> policy.mode = "auto", stage |-> stage,
     success |-> FALSE, unknown |-> FALSE]

\* drive without an approval: one record per policy identity, made durable
\* before the source is contacted.
DriveStart ==
    /\ Drivable
    /\ records[policy.revision] = NoRecord
    /\ lost
    /\ records' = [records EXCEPT ![policy.revision].phase = "checking"]
    /\ driver' = Driving("check")
    /\ UNCHANGED <<op, receipts, plans, policy, build, pending, lost, restarts>>

\* The descriptor arrived, the fence still holds, and the proposal is retained.
DriveProposed ==
    /\ driver # None /\ driver.stage = "check"
    /\ FenceHolds
    /\ op = None
    /\ plans' = plans \cup {[id |-> driver.revision, build |-> build]}
    /\ driver' = [driver EXCEPT !.stage = "proposed"]
    /\ UNCHANGED <<op, receipts, policy, records, build, pending, lost, restarts>>

\* Prompt mode waits for the owner; automatic mode goes on.  The mode is the
\* one the attempt was started under.
DriveDecide ==
    /\ driver # None /\ driver.stage = "proposed"
    /\ records' = [records EXCEPT ![driver.revision].phase =
                      IF driver.auto THEN "approving" ELSE "waiting"]
    /\ driver' = IF driver.auto THEN [driver EXCEPT !.stage = "apply"] ELSE None
    /\ UNCHANGED <<op, receipts, plans, policy, build, pending, lost, restarts>>

\* setup --approve: an owner approves the waiting attempt.
DriveApproved ==
    /\ Drivable
    /\ records[policy.revision].phase = "waiting"
    /\ records' = [records EXCEPT ![policy.revision].phase = "approving",
                                  ![policy.revision].approved = TRUE]
    /\ driver' = Driving("apply")
    /\ UNCHANGED <<op, receipts, plans, policy, build, pending, lost, restarts>>

\* resolve, then the repair itself
DriveRepair ==
    /\ driver # None /\ driver.stage = "apply"
    /\ FenceHolds
    /\ Begin(driver.revision, "setup")
    /\ driver' = [driver EXCEPT !.stage = "repair"]
    /\ UNCHANGED <<plans, policy, records, build, pending, lost, restarts>>

\* A refused source or proposal, or a repair refused before its admission.
DriveRefused ==
    /\ driver # None
    /\ \/ /\ driver.stage = "check"
          /\ records' = [records EXCEPT ![driver.revision].phase = "failed"]
       \/ /\ driver.stage = "apply"
          /\ \E unknown \in {TRUE, Unknown(receipts[driver.revision], op # None /\ op.id = driver.revision)} :
               records' = [records EXCEPT ![driver.revision].phase = "failed",
                                          ![driver.revision].unknown = unknown]
    /\ driver' = None
    /\ UNCHANGED <<op, receipts, plans, policy, build, pending, lost, restarts>>

\* `guarded` drops the operation at its next await once the policy changed;
\* a receipt it leaves stays in progress under a released lease.
DriveInterrupted ==
    /\ driver # None
    /\ ~PolicyHolds
    /\ \/ driver.stage \in {"check", "apply"} /\ UNCHANGED op
       \/ driver.stage = "repair" /\ op.stage = "downloading" /\ op' = None
    /\ records' = [records EXCEPT ![driver.revision].phase = "interrupted",
                                  ![driver.revision].unknown = TRUE]
    /\ driver' = None
    /\ UNCHANGED <<receipts, plans, policy, build, pending, lost, restarts>>

\* The report of the finished repair is written into the record.
DriveRecord ==
    /\ driver # None /\ driver.stage = "done"
    /\ records' = [records EXCEPT
          ![driver.revision].phase = IF driver.success THEN "selected" ELSE "failed",
          ![driver.revision].unknown = driver.unknown]
    /\ driver' = None
    /\ UNCHANGED <<op, receipts, plans, policy, build, pending, lost, restarts>>

(***************************************************************************)
(* The machine around it                                                   *)
(***************************************************************************)
FileLost ==
    /\ lost' = TRUE
    /\ UNCHANGED <<policy, records, driver, plans, receipts, op, build, pending, restarts>>

FileRestored ==
    /\ driver # None
    /\ lost' = FALSE
    /\ UNCHANGED <<policy, records, driver, plans, receipts, op, build, pending, restarts>>

PlanExpires(p) ==
    /\ (op # None /\ op.id = p.id) \/ (driver # None /\ driver.revision = p.id)
    /\ plans' = plans \ {p}
    /\ UNCHANGED <<policy, records, driver, receipts, op, build, pending, lost, restarts>>

\* The process ends at any point and is launched again from the selection;
\* nothing that was in progress is resumed.
Restart ==
    /\ restarts < MaxRestarts
    /\ restarts' = restarts + 1
    /\ op' = None /\ driver' = None
    /\ pending' = FALSE
    /\ \E switched \in {pending} \cup
            (IF op # None /\ op.stage = "publishing" THEN {TRUE} ELSE {}) :
         /\ build' = IF switched THEN build + 1 ELSE build
         /\ lost' = (lost /\ ~switched)
    /\ UNCHANGED <<policy, records, plans, receipts>>

Init ==
    /\ policy = [revision |-> 0, mode |-> "off", build |-> 0]
    /\ records = [r \in Policies |-> NoRecord]
    /\ driver = None
    /\ plans = {}
    /\ receipts = [r \in Policies |-> None]
    /\ op = None
    /\ build = 0
    /\ pending = FALSE
    /\ lost = FALSE
    /\ restarts = 0

Next ==
    \/ \E mode \in {"off", "prompt", "auto"} : Configure(mode)
    \/ \E id \in Policies : OwnerApproves(id)
    \/ Publish \/ Selected \/ Fails
    \/ DriveStart \/ DriveProposed \/ DriveDecide \/ DriveApproved \/ DriveRepair
    \/ DriveRefused \/ DriveInterrupted \/ DriveRecord
    \/ FileLost \/ FileRestored \/ (\E p \in plans : PlanExpires(p)) \/ Restart

Spec == Init /\ [][Next]_vars

(***************************************************************************)
(* Properties                                                              *)
(***************************************************************************)

\* Consent holds at the moment of publication: while a setup attempt stages
\* and selects its repair, the saved policy is the one the attempt was started
\* under, for the running build, and it is automatic or its owner approved
\* this attempt.  Fence::authorize keeps the policy lock until the end.
PolicyHeld ==
    op # None /\ op.by = "setup" /\ op.stage = "publishing" =>
        /\ policy.revision = op.id
        /\ policy.build = build
        /\ policy.mode = "auto" \/ records[op.id].approved

\* A policy identity pays for one attempt: the repair it admitted is never run
\* again by the supervisor, the owner or a restarted process, and a record
\* that reached an end never leaves it.
OneAttempt ==
    \A r \in Policies :
        /\ receipts[r] # None /\ ~(op # None /\ op.id = r) => receipts'[r] = receipts[r]
        /\ records[r].phase \in {"selected", "failed", "interrupted"} =>
              records'[r] = records[r]

\* What the setup history says is what happened: `selected` means the repair's
\* receipt says so, and a failure reported as certain, of an attempt the driver
\* itself admitted, staged nothing.
RecordTrue ==
    \A r \in Policies :
        /\ records[r].phase = "selected" =>
              receipts[r] # None /\ receipts[r].outcome = "selected"
        /\ records[r].phase = "failed" /\ ~records[r].unknown
              /\ receipts[r] # None /\ receipts[r].by = "setup"
           => receipts[r].step = "admitted"
=============================================================================
