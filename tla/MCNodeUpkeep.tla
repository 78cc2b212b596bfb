---------- MODULE MCNodeUpkeep ----------
(***************************************************************************)
(* The components that keep a node in service, each explored on its own:   *)
(* they share no state in the program, so a behaviour is a behaviour of    *)
(* one of them and `part` says which.  The state space is their sum, and   *)
(* v1, v2, ... hold the variables of the component that is explored.       *)
(***************************************************************************)
EXTENDS Integers, Sequences, FiniteSets, TLC

CONSTANTS
    None, Root, Plain, MaxVersion, RootVersion, Prereleases, MaxOperations,
    RepairIds, MaxPolicy, MaxRestarts, Models, Users, Commands, MaxProcs, MaxStops, QueueCap,
    MaxRevision, MaxRuntimes, MaxFaults, Torn, SettingCommands, Offered,
    MaxSettingRuntimes, MaxOther

VARIABLES part,
          v1, v2, v3, v4, v5, v6, v7, v8, v9, v10, v11, v12, v13, v14, v15,
          v16, v17

vars == <<part,
          v1, v2, v3, v4, v5, v6, v7, v8, v9, v10, v11, v12, v13, v14, v15,
          v16, v17>>

\* The storage beyond the first k variables, kept blank by a component that has k.
Above12 == <<v13, v14, v15, v16, v17>>
Above11 == <<v12, Above12>>
Above10 == <<v11, Above11>>
Above9 == <<v10, Above10>>

Blank12 == v13 = None /\ v14 = None /\ v15 = None /\ v16 = None /\ v17 = None
Blank11 == v12 = None /\ Blank12
Blank10 == v11 = None /\ Blank11
Blank9 == v10 = None /\ Blank10

\* Package generations, updates and repairs
Install == INSTANCE PackageInstall WITH
    Ids <- RepairIds, current <- v1, previous <- v2, gens <- v3,
    bundles <- v4, running <- v5, remote <- v6, op <- v7, receipts <- v8,
    operations <- v9

\* Automatic package repair
Repair == INSTANCE RepairSetup WITH
    policy <- v1, records <- v2, driver <- v3, plans <- v4, receipts <- v5,
    op <- v6, build <- v7, pending <- v8, lost <- v9, restarts <- v10

\* Model processes
Residency == INSTANCE ModelResidency WITH
    mode <- v1, allowed <- v2, phase <- v3, slots <- v4, closed <- v5,
    procs <- v6, observed <- v7, op <- v8, tasks <- v9, receipts <- v10,
    queue <- v11, stops <- v12

\* First model: setup, download, activation
Bootstrap == INSTANCE ModelSetup WITH
    config <- v1, runtime <- v2, phase <- v3, startup <- v4, applied <- v5,
    journal <- v6, driver <- v7, receipts <- v8, live <- v9, transfer <- v10,
    indexed <- v11, pending <- v12, active <- v13, faults <- v14, made <- v15,
    selected <- v16, stopped <- v17

\* Saved settings, commands and runtimes
Setting == INSTANCE NodeSettings WITH
    Commands <- SettingCommands, MaxRuntimes <- MaxSettingRuntimes,
    main <- v1, backup <- v2, lock <- v3, node <- v4, gate <- v5,
    capture <- v6, writers <- v7, page <- v8, cli <- v9, performed <- v10,
    other <- v11

Init ==
    \/ part = "install" /\ Install!Init /\ Blank9
    \/ part = "repair" /\ Repair!Init /\ Blank10
    \/ part = "residency" /\ Residency!Init /\ Blank12
    \/ part = "bootstrap" /\ Bootstrap!Init
    \/ part = "settings" /\ Setting!Init /\ Blank11

Next ==
    \/ part = "install" /\ Install!Next /\ UNCHANGED <<part, Above9>>
    \/ part = "repair" /\ Repair!Next /\ UNCHANGED <<part, Above10>>
    \/ part = "residency" /\ Residency!Next /\ UNCHANGED <<part, Above12>>
    \/ part = "bootstrap" /\ Bootstrap!Next /\ UNCHANGED part
    \/ part = "settings" /\ Setting!Next /\ UNCHANGED <<part, Above11>>

Spec == Init /\ [][Next]_vars

\* What is put in service is whole and alone: no incomplete package is selected
\* (install_manifest, install_request, rollback_for), a runtime applies exactly
\* the models it was admitted for (adopt_runtime_configuration), and a model has
\* at most one process, gone when it is reported unloaded (ModelServer).
SelectionComplete ==
    /\ part = "install" => Install!SelectionComplete
    /\ part = "bootstrap" => Bootstrap!AppliedAsAdmitted
    /\ part = "residency" => Residency!SingleProcess /\ Residency!UnloadedIsGone

\* Records and reports say what happened: repair receipts never understate the
\* disk, setup histories never overstate a repair or a model selection or call
\* an uncertain one certain, download receipts match the index, and model
\* reports are confirmed by the processes.  A command of the command line reports
\* done or rejected only when that is certain, however replies are lost
\* (execute_* in main.rs).
RecordsTrue ==
    /\ part = "install" => Install!ReceiptsHonest
    /\ part = "repair" => Repair!RecordTrue
    /\ part = "bootstrap" => Bootstrap!EvidenceTrue /\ Bootstrap!ReceiptsTrue
    /\ part = "residency" => Residency!ReportsConfirmed /\ Residency!PinsCounted
    /\ part = "settings" => Setting!ReportsTrue

\* Authority holds at the moment of the effect: a repair is published only under
\* the policy it started with (Fence::authorize), and an attempt the owner
\* stopped selects no model (model_setup Fence).  A capture the gate still allows is one the saved settings still allow, the settings
\* file survives every crash, and a runtime that runs on other settings than the
\* saved ones is marked for a restart (save_config_inner, adoption).
PolicyHeld ==
    /\ part = "repair" => Repair!PolicyHeld
    /\ part = "bootstrap" => Bootstrap!StopHolds
    /\ part = "settings" => Setting!SettingsHeld

\* An operation that was admitted is never run again, whatever became of it:
\* repair identities (Attempt::begin), repair attempts (drive) and setup attempts
\* (Journal::write).
NeverReplayed ==
    /\ [](part = "bootstrap" => Bootstrap!OneAttemptEach)
    /\ [][/\ part = "install" => Install!AdmittedOnce
          /\ part = "repair" => Repair!OneAttempt
          /\ part = "bootstrap" => Bootstrap!EvidenceKept]_vars

\* Pointers move only with the caller's consent still given (apply_explicit_for,
\* install_request, apply_for), a setting is replaced only by somebody who saw the
\* value it had, and listening consent is only ever given on this device
\* (permission_command, relay_command, listening_command, preserve_revision).
ConsentHeld ==
    [][/\ part = "install" => Install!Consented
       /\ part = "settings" => Setting!EditsSeen /\ Setting!ConsentIsLocal]_vars
============================================================
