----------------------------- MODULE ModelSetup -----------------------------
(***************************************************************************)
(* Automatic setup of a node's first model: the bootstrap policy, the      *)
(* attempt the setup future drives (model_setup), the transfer it admits   *)
(* and that transfer's receipts (model_manager, download_receipts), the    *)
(* commit of the selection, and the activation of the saved selection by   *)
(* one restart (model_activation).                                         *)
(*                                                                         *)
(* Every section under the configuration mutex is one step, except the     *)
(* commit, which is three (journal, configuration, activation) so that the *)
(* process may crash between its writes; nothing else takes the mutex then.*)
(***************************************************************************)
EXTENDS Naturals, FiniteSets

CONSTANTS
  None,
  MaxRevision,   \* bound: saved policy changes
  MaxRuntimes,   \* bound: runtimes started
  MaxFaults      \* bound: settings saves, manual installs, write failures and
                 \* crashes, together, that disturb the setup

VARIABLES
  config,     \* the saved settings
  runtime,    \* number of the current runtime
  phase,      \* off, starting, up, draining, stopping
  startup,    \* the configuration the next runtime is given
  applied,    \* the configuration the current runtime applied
  journal,    \* the retained setup attempt
  driver,     \* the setup future of the runtime
  receipts,   \* download receipts by operation
  live,       \* the published download
  transfer,   \* the spawned transfer
  indexed,    \* the model file is in the installed index
  pending,    \* ActivationState.pending
  active,     \* ActivationState.active
  faults,     \* disturbances so far
  made,       \* history: <<attempt, revision>> ever admitted
  selected,   \* history: attempts whose selection was saved
  stopped     \* history: attempts the owner was told are stopped

vars == <<config, runtime, phase, startup, applied, journal, driver, receipts,
          live, transfer, indexed, pending, active, faults, made,
          selected, stopped>>

Attempts == 1 .. MaxRevision + 1
Manual == 0
Operations == Attempts \union {Manual}

Terminal == {"configured", "runtime_configured", "apply_blocked", "stopped",
             "failed", "unknown"}
Stoppable == {"approved", "inspecting", "downloading", "verifying"}

Disturb == faults < MaxFaults /\ faults' = faults + 1

Idle == [pc |-> "idle", record |-> None, seen |-> None, reason |-> None]

NoDownload == [id |-> None, state |-> "none", cancel |-> FALSE]

---------------------------------------------------------------------------
(* The attempt journal.                                                    *)

\* Journal::write's transition table.
Successors(p) ==
  CASE p = "approved" -> {"inspecting", "stopped", "unknown"}
    [] p = "inspecting" -> {"downloading", "verifying", "failed", "stopped", "unknown"}
    [] p = "downloading" -> {"verifying", "failed", "stopped", "unknown"}
    [] p = "verifying" -> {"committing", "failed", "stopped", "unknown"}
    [] p = "committing" -> {"configured", "restart_requested", "apply_blocked",
                            "unknown"}
    [] p = "restart_requested" -> {"restart_draining", "apply_blocked", "unknown"}
    [] p = "restart_draining" -> {"runtime_configured", "unknown"}
    [] OTHER -> {}

NewAttemptAllowed(old, r) ==
  old.phase \in Terminal /\ r.rev > old.rev /\ r.phase \in {"approved", "inspecting"}

SameScope(old, r) ==
  /\ old.rev = r.rev /\ old.approved = r.approved /\ old.runtime = r.runtime
  /\ old.models = r.models
  /\ old.admitted => r.admitted
  /\ old.act = r.act \/ (old.act = None /\ old.phase = "committing"
                         /\ r.phase = "restart_requested")

Accepts(r) ==
  LET old == journal IN
  old # None =>
    IF old.id # r.id THEN NewAttemptAllowed(old, r)
    ELSE SameScope(old, r) /\ r.phase \in Successors(old.phase)

\* A write is refused by the retained evidence, fails, or is durable.
Write(r, ok) ==
  \/ ok /\ Accepts(r) /\ journal' = r /\ UNCHANGED faults
  \/ ~ok /\ ~Accepts(r) /\ UNCHANGED <<journal, faults>>
  \/ ~ok /\ Disturb /\ UNCHANGED journal

Phase(r, p, reason) == [r EXCEPT !.phase = p, !.reason = reason]

NewAttempt(approved) ==
  [id |-> Cardinality(made) + 1, rev |-> config.rev, runtime |-> runtime,
   approved |-> approved, phase |-> IF approved THEN "approved" ELSE "inspecting",
   reason |-> None, admitted |-> FALSE, models |-> config.models, act |-> None,
   replaced |-> None]

Made(r) == made' = made \union {<<r.id, r.rev>>}

---------------------------------------------------------------------------
(* What authorises a setup step.                                           *)

ConfigFree == driver.pc \notin {"saving", "activating"}

\* No selection is saved or applied, and the pinned catalog entry is unchanged.
Untouched ==
  /\ config.models = None
  /\ config.catalog = config.pin
  /\ applied.models = None

FenceHolds(r) ==
  /\ phase \in {"up", "draining"}
  /\ runtime = r.runtime
  /\ config.rev = r.rev
  /\ config.mode = "auto" \/ (config.mode = "prompt" /\ r.approved)
  /\ config.models = r.models
  /\ Untouched

\* Once the attempt is retained, its evidence must still say so.
Fenced(r) ==
  /\ FenceHolds(r)
  /\ journal # None
  /\ journal.id = r.id /\ SameScope(journal, [r EXCEPT !.admitted = TRUE,
                                                       !.act = journal.act])
  /\ journal.phase \in Stoppable

\* model_manager::cancel of an exact transfer: the receipt, then the live flag.
Cancelled(id) ==
  live.id = id /\ live.state = "downloading" /\ receipts[id].state = "downloading"

CancelTransfer(id) ==
  IF Cancelled(id)
  THEN /\ live' = [live EXCEPT !.cancel = TRUE]
       /\ receipts' = [receipts EXCEPT ![id].cancel = TRUE]
  ELSE UNCHANGED <<live, receipts>>

---------------------------------------------------------------------------
(* The owner: policy, approval, stop, other settings and manual installs.  *)

Owner == phase \in {"up", "draining"} /\ ConfigFree

ownerVars == <<runtime, phase, startup, applied, driver, transfer, indexed,
               pending, active, selected>>

Configure(mode) ==
  /\ Owner
  /\ config.rev < MaxRevision
  /\ mode # config.mode
  /\ config' = [config EXCEPT !.rev = @ + 1, !.mode = mode, !.pin = config.catalog]
  /\ UNCHANGED <<ownerVars, journal, receipts, live, faults, made, stopped>>

Approve ==
  LET r == NewAttempt(TRUE) IN
  /\ Owner
  /\ config.mode = "prompt"
  /\ FenceHolds(r)
  /\ journal # None => journal.rev # config.rev
  /\ Write(r, TRUE)
  /\ Made(r)
  /\ UNCHANGED <<ownerVars, config, receipts, live, stopped>>

StopAttempt ==
  /\ Owner
  /\ journal # None
  /\ journal.rev = config.rev
  /\ journal.runtime = runtime
  /\ journal.phase \in Stoppable
  /\ Write(Phase(journal, "stopped", "owner_stopped"), TRUE)
  /\ CancelTransfer(journal.id)
  /\ stopped' = stopped \union {journal.id}
  /\ UNCHANGED <<ownerVars, config, made>>

SaveSettings ==
  /\ Owner
  /\ Disturb
  /\ config' \in {[config EXCEPT !.other = 1], [config EXCEPT !.models = Manual],
                  [config EXCEPT !.models = None], [config EXCEPT !.catalog = 1]}
  /\ UNCHANGED <<ownerVars, journal, receipts, live, made, stopped>>

\* Journal::begin admits an operation identity once, and one transfer at a time.
Claimable(id) ==
  /\ receipts[id] = None
  /\ \A o \in Operations : receipts[o] # None => receipts[o].state # "downloading"
  /\ live.id # id
  /\ live.state # "downloading"

Admit(id) ==
  /\ Claimable(id)
  /\ receipts' = [receipts EXCEPT ![id] = [state |-> "downloading", cancel |-> FALSE]]
  /\ live' = [id |-> id, state |-> "downloading", cancel |-> FALSE]
  /\ transfer' = [id |-> id, terminal |-> None]

InstallManually ==
  /\ Owner
  /\ transfer = None
  /\ Admit(Manual)
  /\ Disturb
  /\ UNCHANGED <<config, runtime, phase, startup, applied, journal, driver,
                 indexed, pending, active, made, selected, stopped>>

CancelManually ==
  /\ phase # "off"
  /\ live.id # None /\ ~live.cancel /\ Cancelled(live.id)
  /\ CancelTransfer(live.id)
  /\ UNCHANGED <<config, runtime, phase, startup, applied, journal, driver,
                 transfer, indexed, pending, active, faults, made,
                 selected, stopped>>

---------------------------------------------------------------------------
(* The spawned transfer: it outlives the runtime that admitted it.         *)

transferVars == <<config, runtime, phase, startup, applied, journal, driver,
                  pending, active, made, selected, stopped>>

\* biased select: a finished transfer wins over a cancellation it raced.
TransferEnds(ok) ==
  /\ transfer # None /\ transfer.terminal = None
  /\ indexed' = (indexed \/ ok)
  /\ transfer' = [transfer EXCEPT !.terminal =
       IF ok THEN "installed" ELSE IF live.cancel THEN "cancelled" ELSE "error"]
  /\ UNCHANGED <<transferVars, receipts, live, faults>>

\* The receipt is settled first; only then is the result published.
TransferSettles ==
  LET t == transfer.terminal IN
  /\ transfer # None /\ transfer.terminal # None
  /\ transfer' = None
  /\ \/ /\ receipts' = [receipts EXCEPT ![transfer.id].state = t]
        /\ live' = [live EXCEPT !.state =
             IF t = "installed" THEN t
             ELSE IF live.cancel THEN "cancelled" ELSE "error"]
        /\ UNCHANGED faults
     \/ /\ Disturb
        /\ live' = [live EXCEPT !.state = "unknown"]
        /\ UNCHANGED receipts
  /\ UNCHANGED <<transferVars, indexed>>

---------------------------------------------------------------------------
(* The setup future of one runtime.                                        *)

driverVars == <<config, runtime, phase, startup, applied, transfer, indexed,
                pending, active, selected, stopped>>

Running(pc) == phase \in {"up", "draining"} /\ driver.pc = pc

Go(pc) == driver' = [driver EXCEPT !.pc = pc]

GiveUp(reason) == driver' = [driver EXCEPT !.pc = "settle", !.reason = reason]

\* A new runtime never resumes what an earlier one left unfinished.
Recover ==
  LET unfinished == journal # None /\ journal.phase \notin Terminal
                    /\ ~(journal.phase = "approved" /\ journal.runtime = runtime) IN
  /\ Running("recover")
  /\ IF unfinished
     THEN /\ CancelTransfer(journal.id)
          /\ \E ok \in BOOLEAN :
               /\ Write(Phase(journal, "unknown", "runtime_interrupted"), ok)
               /\ driver' = IF ok THEN Idle ELSE [Idle EXCEPT !.pc = "parked"]
     ELSE driver' = Idle /\ UNCHANGED <<live, receipts, journal, faults>>
  /\ UNCHANGED <<driverVars, made>>

\* tick first reads the journal; what follows is checked against newer state.
TickRead ==
  /\ Running("idle")
  /\ driver' = [Idle EXCEPT !.pc = "decide", !.record = journal]
  /\ UNCHANGED <<driverVars, journal, receipts, live, faults, made>>

Approved(r) == r # None /\ r.phase = "approved"

Withdrawn == Approved(driver.record) /\ ~Fenced(driver.record)

\* The approval no longer stands: the stale copy may lose to newer evidence.
TickWithdraws ==
  /\ Running("decide")
  /\ Withdrawn
  /\ \E ok \in BOOLEAN : Write(Phase(driver.record, "stopped", "state_changed"), ok)
  /\ driver' = Idle
  /\ UNCHANGED <<driverVars, receipts, live, made>>

Wanted ==
  LET r == driver.record
      consent == Approved(r) /\ r.rev = config.rev /\ r.approved IN
  /\ config.mode \in {"auto", "prompt"}
  /\ Untouched
  /\ consent \/ (config.mode = "auto" /\ (r # None => r.rev # config.rev))
  /\ live.state # "downloading"

TickDecides ==
  /\ Running("decide")
  /\ ~Withdrawn
  /\ driver' = IF ~Wanted THEN Idle
               ELSE [driver EXCEPT
                       !.pc = IF Approved(driver.record) THEN "consented" ELSE "begin",
                       !.record = IF Approved(driver.record) THEN driver.record
                                  ELSE NewAttempt(FALSE),
                       !.seen = [models |-> config.models, catalog |-> config.catalog]]
  /\ UNCHANGED <<driverVars, journal, receipts, live, faults, made>>

\* Consent is consumed under the configuration mutex.
BeginConsented ==
  LET r == driver.record
      next == IF Fenced(r) THEN Phase(r, "inspecting", None)
              ELSE Phase(r, "stopped", "state_changed") IN
  /\ Running("consented")
  /\ \E ok \in BOOLEAN :
       /\ Write(next, ok)
       /\ driver' = IF ok /\ next.phase = "inspecting"
                    THEN [driver EXCEPT !.pc = "plan", !.record = next] ELSE Idle
  /\ UNCHANGED <<driverVars, receipts, live, made>>

BeginAutomatic ==
  /\ Running("begin")
  /\ \E ok \in BOOLEAN :
       /\ Write(driver.record, ok)
       /\ IF ok THEN Made(driver.record) /\ Go("plan")
          ELSE driver' = Idle /\ UNCHANGED made
  /\ UNCHANGED <<driverVars, receipts, live>>

\* The plan, an installed provider model, or a blocked preflight.
Plan ==
  /\ Running("plan")
  /\ \/ GiveUp("preflight")
     \/ IF Fenced(driver.record) THEN Go("install") \/ Go("verify")
        ELSE GiveUp("state_changed")
  /\ UNCHANGED <<driverVars, journal, receipts, live, faults, made>>

\* install_authorized: admission re-checks the fence after the provider's answer.
Install ==
  /\ Running("install")
  /\ \/ /\ Fenced(driver.record)
        /\ transfer = None
        /\ Admit(driver.record.id)
        /\ driver' = [driver EXCEPT !.pc = "admitted", !.record.admitted = TRUE,
                                    !.record.phase = "downloading"]
     \/ GiveUp("preflight") /\ UNCHANGED <<receipts, live, transfer>>
  /\ UNCHANGED <<config, runtime, phase, startup, applied, journal, indexed,
                 pending, active, faults, made, selected, stopped>>

Admitted ==
  /\ Running("admitted")
  /\ \E ok \in BOOLEAN :
       /\ Write(driver.record, ok)
       /\ IF ok THEN Go("waiting") ELSE GiveUp("configuration_uncertain")
  /\ UNCHANGED <<driverVars, receipts, live, made>>

Await ==
  LET s == receipts[driver.record.id].state IN
  /\ Running("waiting")
  /\ \/ ~Fenced(driver.record) /\ GiveUp("state_changed")
     \/ Fenced(driver.record) /\ s = "installed" /\ Go("verify")
     \/ Fenced(driver.record) /\ s \notin {"installed", "downloading"}
        /\ GiveUp("transfer_failed")
  /\ UNCHANGED <<driverVars, journal, receipts, live, faults, made>>

Verify ==
  LET r == Phase(driver.record, "verifying", None) IN
  /\ Running("verify")
  /\ \E ok \in BOOLEAN :
       /\ Write(r, ok)
       /\ driver' = IF ok THEN [driver EXCEPT !.pc = "prepare", !.record = r]
                    ELSE [driver EXCEPT !.pc = "settle", !.record = r,
                                        !.reason = "configuration_uncertain"]
  /\ UNCHANGED <<driverVars, receipts, live, made>>

Prepare ==
  /\ Running("prepare")
  /\ Go("commit") \/ GiveUp("cache_verification")
  /\ UNCHANGED <<driverVars, journal, receipts, live, faults, made>>

CommitAllowed ==
  /\ Fenced(driver.record)
  /\ driver.seen = [models |-> config.models, catalog |-> config.catalog]

Commit ==
  LET r == Phase(driver.record, "committing", None) IN
  /\ Running("commit")
  /\ \/ ~CommitAllowed /\ GiveUp("state_changed") /\ UNCHANGED <<journal, faults>>
     \/ /\ CommitAllowed
        /\ \E ok \in BOOLEAN :
             /\ Write(r, ok)
             /\ driver' = IF ok THEN [driver EXCEPT !.pc = "saving", !.record = r]
                          ELSE [driver EXCEPT !.pc = "settle", !.record = r,
                                              !.reason = "configuration_uncertain"]
  /\ UNCHANGED <<driverVars, receipts, live, made>>

SaveSelection ==
  /\ Running("saving")
  /\ \/ /\ config' = [config EXCEPT !.models = driver.record.id]
        /\ selected' = selected \union {driver.record.id}
        /\ Go("activating")
        /\ UNCHANGED faults
     \/ /\ Disturb
        /\ GiveUp("configuration_uncertain")
        /\ UNCHANGED <<config, selected>>
  /\ UNCHANGED <<runtime, phase, startup, applied, journal, receipts, live,
                 transfer, indexed, pending, active, made, stopped>>

Source(scope) == [models |-> config.models, other |-> config.other, scope |-> scope]

\* plan_locked: nothing but the models may differ from what the runtime applied.
PlanAllowed ==
  /\ applied.models = None
  /\ pending = None /\ active = None
  /\ applied.other = config.other

Scope(r) == [id |-> r.id, runtime |-> r.runtime, rev |-> r.rev, models |-> config.models]

Activate ==
  LET r == driver.record
      next == IF ~config.restart THEN Phase(r, "configured", None)
              ELSE IF PlanAllowed
              THEN [Phase(r, "restart_requested", None) EXCEPT !.act = config.models]
              ELSE Phase(r, "apply_blocked", "activation") IN
  /\ Running("activating")
  /\ \E ok \in BOOLEAN :
       /\ Write(next, ok)
       /\ driver' = IF ok THEN Idle
                    ELSE [driver EXCEPT !.pc = "settle",
                                        !.reason = "configuration_uncertain"]
       /\ pending' = IF ok /\ next.phase = "restart_requested"
                     THEN Source(Scope(r)) ELSE pending
  /\ UNCHANGED <<config, runtime, phase, startup, applied, receipts, live,
                 transfer, indexed, active, made, selected, stopped>>

OwnerStopped ==
  /\ journal # None
  /\ journal.id = driver.record.id
  /\ journal.phase = "stopped" /\ journal.reason = "owner_stopped"

Failure(r, reason) ==
  IF reason = "configuration_uncertain" \/ r.phase \in {"committing", "configured"}
  THEN "unknown"
  ELSE IF reason = "state_changed" THEN "stopped" ELSE "failed"

Settle ==
  LET r == driver.record IN
  /\ Running("settle")
  /\ IF OwnerStopped
     THEN UNCHANGED <<live, receipts, journal, faults>>
     ELSE /\ IF r.admitted THEN CancelTransfer(r.id) ELSE UNCHANGED <<live, receipts>>
          /\ \E ok \in BOOLEAN :
               Write(Phase(r, Failure(r, driver.reason), driver.reason), ok)
  /\ driver' = Idle
  /\ UNCHANGED <<driverVars, made>>

---------------------------------------------------------------------------
(* Activation of the saved selection, and the runtime's own life.          *)

lifeVars == <<config, receipts, live, transfer, indexed, made, selected,
              stopped>>

\* activation_transition: only the attempt the scope names, by its evidence.
Owns(scope) ==
  /\ journal # None
  /\ journal.id = scope.id /\ journal.runtime = scope.runtime
  /\ journal.rev = scope.rev /\ journal.act = scope.models

Transition(scope, r, ok) ==
  \/ Owns(scope) /\ Write(r, ok)
  \/ ~ok /\ ~Owns(scope) /\ UNCHANGED <<journal, faults>>

StillSame(p) ==
  /\ active = None
  /\ runtime = p.scope.runtime
  /\ applied.models = None
  /\ applied.other = config.other
  /\ config.rev = p.scope.rev
  /\ config.catalog = config.pin
  /\ config.models = p.models
  /\ config.other = p.other

\* claim_model_activation: the last check before the old runtime is retired.
ClaimActivation ==
  /\ phase = "up" /\ ConfigFree
  /\ pending # None
  /\ pending' = None
  /\ \E ok \in BOOLEAN :
       IF StillSame(pending)
       THEN /\ Transition(pending.scope, Phase(journal, "restart_draining", None), ok)
            /\ active' = IF ok THEN pending.scope ELSE active
            /\ startup' = IF ok THEN pending ELSE startup
            /\ phase' = IF ok THEN "draining" ELSE phase
       ELSE /\ Transition(pending.scope, Phase(journal, "apply_blocked", "state_changed"), ok)
            /\ UNCHANGED <<active, startup, phase>>
  /\ UNCHANGED <<lifeVars, runtime, applied, driver>>

\* cancel_model_activation: a restart or failure never replays a setup token.
CancelActivation ==
  LET scope == IF active # None THEN active
               ELSE IF pending # None THEN pending.scope ELSE None IN
  /\ active' = None /\ pending' = None
  /\ IF scope = None THEN UNCHANGED <<journal, faults>>
     ELSE \E ok \in BOOLEAN :
            Transition(scope, Phase(journal, "unknown", "runtime_interrupted"), ok)

Restart ==
  /\ phase = "up" /\ ConfigFree
  /\ runtime < MaxRuntimes
  /\ CancelActivation
  /\ phase' = "draining"
  /\ UNCHANGED <<lifeVars, runtime, startup, applied, driver>>

\* The runtime ends, told to or by failing; its setup future is dropped first.
Drain ==
  LET kept == journal.phase = "restart_draining" /\ active # None
              /\ active.id = journal.id /\ active.runtime = runtime IN
  /\ phase \in {"up", "draining"} /\ ConfigFree
  /\ runtime < MaxRuntimes
  /\ phase' = "stopping"
  /\ driver' = Idle
  /\ IF journal = None THEN UNCHANGED <<live, receipts, journal, faults>>
     ELSE IF journal.runtime # runtime \/ journal.phase \in Terminal \/ kept
     THEN UNCHANGED <<live, receipts, journal, faults>>
     ELSE /\ CancelTransfer(journal.id)
          /\ \E ok \in BOOLEAN :
               Write(Phase(journal, "unknown", "runtime_interrupted"), ok)
  /\ UNCHANGED <<config, runtime, startup, applied, transfer, indexed, pending,
                 active, made, selected, stopped>>

\* Shutdown confirmed, or not: then nothing is carried into the next runtime.
Stopped ==
  /\ phase = "stopping"
  /\ phase' = "off"
  /\ \/ UNCHANGED <<startup, journal, faults, pending, active>>
     \/ startup' = None /\ CancelActivation
  /\ UNCHANGED <<lifeVars, runtime, applied, driver>>

Capture ==
  /\ phase = "off" /\ ConfigFree
  /\ runtime < MaxRuntimes
  /\ phase' = "starting"
  /\ startup' = IF startup # None THEN startup ELSE Source(None)
  /\ UNCHANGED <<lifeVars, runtime, applied, driver, journal, faults, pending, active>>

Adopt ==
  LET scope == startup.scope IN
  /\ phase = "starting"
  /\ scope # None => active = scope
  /\ runtime' = runtime + 1
  /\ applied' = [models |-> startup.models, other |-> startup.other]
  /\ phase' = "up"
  /\ driver' = [Idle EXCEPT !.pc = "recover"]
  /\ startup' = None
  /\ IF scope = None THEN UNCHANGED <<journal, faults, active>>
     ELSE /\ active' = None
          /\ \E ok \in BOOLEAN :
               Transition(scope, [Phase(journal, "runtime_configured", None)
                                    EXCEPT !.replaced = runtime + 1], ok)
  /\ UNCHANGED <<lifeVars, pending>>

StartFails ==
  /\ phase = "starting"
  /\ phase' = "off"
  /\ startup' = None
  /\ CancelActivation
  /\ UNCHANGED <<lifeVars, runtime, applied, driver>>

\* The process dies: the journals stay, and opening them settles what was open.
Crash ==
  /\ Disturb
  /\ phase \notin {"off", "starting"}
  /\ phase' = "off"
  /\ startup' = None /\ pending' = None /\ active' = None
  /\ driver' = Idle /\ transfer' = None
  /\ receipts' = [o \in Operations |->
       IF receipts[o] # None /\ receipts[o].state = "downloading"
       THEN [receipts[o] EXCEPT !.state = "interrupted"] ELSE receipts[o]]
  /\ live' = IF live.state = "downloading" THEN [live EXCEPT !.state = "interrupted"]
             ELSE live
  /\ UNCHANGED <<config, runtime, applied, journal, indexed, made,
                 selected, stopped>>

Init ==
  /\ config \in [rev : {0}, mode : {"auto", "prompt"}, restart : BOOLEAN,
                 catalog : {0}, pin : {0}, models : {None}, other : {0}]
  /\ runtime = 0
  /\ phase = "off"
  /\ startup = None
  /\ applied = [models |-> None, other |-> 0]
  /\ journal = None
  /\ driver = Idle
  /\ receipts = [o \in Operations |-> None]
  /\ live = NoDownload
  /\ transfer = None
  /\ indexed = FALSE
  /\ pending = None /\ active = None
  /\ faults = 0
  /\ made = {} /\ selected = {} /\ stopped = {}

Next ==
  \/ \E mode \in {"auto", "prompt", "off"} : Configure(mode)
  \/ Approve \/ StopAttempt \/ SaveSettings \/ InstallManually \/ CancelManually
  \/ (\E ok \in BOOLEAN : TransferEnds(ok)) \/ TransferSettles
  \/ Recover \/ TickRead \/ TickWithdraws \/ TickDecides
  \/ BeginConsented \/ BeginAutomatic \/ Plan \/ Install \/ Admitted \/ Await
  \/ Verify \/ Prepare \/ Commit \/ SaveSelection \/ Activate \/ Settle
  \/ ClaimActivation \/ Restart \/ Drain \/ Stopped
  \/ Capture \/ Adopt \/ StartFails \/ Crash

Spec == Init /\ [][Next]_vars

---------------------------------------------------------------------------
(* Properties.                                                             *)

\* The retained evidence never overstates or understates what setup did to the
\* saved selection, whichever write failed and wherever the process stopped.
EvidenceTrue ==
  journal # None =>
    /\ journal.phase \in {"configured", "restart_requested", "restart_draining",
                          "runtime_configured", "apply_blocked"}
         => journal.id \in selected
    /\ journal.phase \in {"stopped", "failed"} \union Stoppable
         => journal.id \notin selected

\* An attempt the owner was told is stopped never selects a model.
StopHolds == stopped \intersect selected = {}

\* One attempt per saved policy, however often runtimes restart.
OneAttemptEach ==
  \A a \in made, b \in made : a[2] = b[2] => a = b

\* A runtime the evidence calls configured applied exactly the selection that
\* was committed, and nothing else the owner had not applied before.
AppliedAsAdmitted ==
  journal # None /\ journal.phase = "runtime_configured" /\ journal.replaced = runtime
    /\ phase = "up"
    => applied.models = journal.act /\ journal.act = journal.id

\* A receipt says installed only for a file in the index, and an open receipt
\* has a transfer that will settle it, or a result that could not be saved.
ReceiptsTrue ==
  /\ \A o \in Operations : receipts[o] # None =>
       /\ receipts[o].state = "installed" => indexed
       /\ receipts[o].state = "downloading" =>
            \/ transfer # None /\ transfer.id = o
            \/ live.id = o /\ live.state = "unknown"
  /\ transfer # None => receipts[transfer.id].state = "downloading"

\* Terminal evidence is only ever replaced by an attempt under a newer policy.
EvidenceKept ==
  (journal # None /\ journal.phase \in Terminal)
    => journal' = journal \/ (journal'.id # journal.id /\ journal'.rev > journal.rev)
=============================================================================
