---------------------------- MODULE NodeSettings ----------------------------
(***************************************************************************)
(* The node's saved settings and everybody who edits them: the commands of *)
(* the eefn command line (main.rs), the local API of a running node        *)
(* (api.rs, service.rs), its dashboard, its discovery loop, and the loop   *)
(* that starts one runtime after another (main.rs, run).  A command either *)
(* holds the instance lock and edits the file itself, or finds the lock    *)
(* taken and posts one request to whoever took it.                         *)
(*                                                                         *)
(* Settings are abstracted to one field per way of being edited: mic (the  *)
(* permissions), relay and python are compared by content, listen and pol  *)
(* carry a revision, misc is written blindly.  Values are Boolean; every   *)
(* edit flips the field it is about.                                       *)
(***************************************************************************)
EXTENDS Naturals, FiniteSets

CONSTANTS Commands,     \* invocations of the command line
          Offered,      \* the kinds of command they may be
          MaxRuntimes,  \* bound on runtimes started
          MaxOther,     \* bound on other edits, faults and crashes together
          None, Torn

VARIABLES main,      \* the settings file
          backup,    \* its .bak copy
          lock,      \* who holds the command instance lock
          node,      \* the service process and its runtime
          gate,      \* the listening gate of the process
          capture,   \* epoch of the permit of a supervised capture
          writers,   \* saves in progress
          page,      \* the settings a dashboard page has loaded
          cli,       \* the command line invocations
          performed, \* how often each command took effect
          other      \* other edits, faults and crashes so far

vars == <<main, backup, lock, node, gate, capture, writers, page, cli,
          performed, other>>

-----------------------------------------------------------------------------
(* What each command of main.rs does when the instance lock is free       *)
(* (alone), what it looks at before it posts (first), what it reports when *)
(* no reply arrives (lost) and when the node answers with an error         *)
(* (refused).  "error" is a failed exit that claims nothing.               *)

Kind(family, first, alone, lost, refused) ==
  [family |-> family, first |-> first, alone |-> alone, lost |-> lost,
   refused |-> refused]

Posts(alone) == Kind("work", "none", alone, "unknown", "unknown")
Reads == Kind("read", "none", "error", "error", "error")

\* eefn models ...: role and installed selections
ModelSelection == Kind("misc", "none", "edit", "unknown", "unknown")
\* eefn model-lifecycle: load, unload, pin, cancel
ModelLifecycle == Kind("work", "given", "unknown", "unknown", "unknown")
\* eefn model-lifecycle-policy set
LifecyclePolicy == Kind("pol", "given", "edit", "unknown", "unknown")
\* eefn requests preview, review, open
RequestCommand == Posts("rejected")
\* eefn requests input, and --ask
InputCommand == Posts("rejected")
\* eefn requests workflow
InputPolicy == Kind("misc", "none", "edit", "error", "error")
\* eefn requests respond
ResponseCommand == Posts("rejected")
\* eefn requests drafts
DraftCommand == Posts("error")
\* eefn requests plan, compile
PlanningCommand == Posts("error")
\* eefn requests resolve
ResolutionCommand == Posts("error")
\* eefn requests prepare
PreparationCommand == Posts("error")
\* eefn requests audio
AudioCommand == Posts("rejected")
\* eefn requests submit
ConcreteCommand == Posts("error")
\* eefn requests recover-result
RecoveryCommand == Posts("error")
\* eefn requests abandon
AbandonmentCommand == Posts("error")
\* eefn requests receipt, result, stop-receipt
ReceiptCommand == Reads
\* eefn requests execute
ReviewedCommand == Posts("error")
\* eefn models download, download-cancel
DownloadCommand == Posts("rejected")
\* eefn connection pause, resume, pair-local, pair
ConnectionCommand == Kind("conn", "none", "error", "error", "error")
\* eefn connection pair-stdin
StdinPairing == Kind("pair", "runtime", "error", "unknown", "unknown")
\* eefn jobs
JobCommand == Posts("error")
\* eefn restart
RestartCommand == Kind("restart", "any", "error", "unknown", "rejected")
\* Variant: the mutation is marked as sent only once the reply is there.
PermissionSentLate == Kind("mic", "inspect", "error", "rejected", "unknown")
\* eefn permissions allow, deny
PermissionCommand == Kind("mic", "inspect", "error", "unknown", "unknown")
\* eefn relay configure
RelayCommand == Kind("relay", "inspect", "error", "unknown", "unknown")
\* eefn model-bootstrap-policy
BootstrapCommand == Kind("work", "inspect", "error", "unknown", "unknown")
\* eefn python configure
PythonPolicy == Kind("python", "inspect", "error", "unknown", "unknown")
\* eefn listening enable, disable
ListeningCommand == Kind("listen", "inspect", "error", "unknown", "unknown")
\* eefn setup --enroll-local
LocalEnrollment == Kind("pair", "runtime", "error", "unknown", "unknown")
\* eefn setup
SetupCheck == Reads
\* eefn workloads sources
WorkloadSources == Reads
\* eefn automations
AutomationCommand == Posts("error")
\* eefn network set
NetworkSet == Kind("misc", "none", "edit", "error", "error")

\* The command families main.rs dispatches, by name.
CommandKinds ==
  [models |-> ModelSelection, lifecycle |-> ModelLifecycle,
   policy |-> LifecyclePolicy, request |-> RequestCommand,
   input |-> InputCommand, workflow |-> InputPolicy,
   respond |-> ResponseCommand, draft |-> DraftCommand,
   planning |-> PlanningCommand, resolve |-> ResolutionCommand,
   prepare |-> PreparationCommand, audio |-> AudioCommand,
   submit |-> ConcreteCommand, recover |-> RecoveryCommand,
   abandon |-> AbandonmentCommand, receipt |-> ReceiptCommand,
   execute |-> ReviewedCommand, download |-> DownloadCommand,
   connection |-> ConnectionCommand, pair |-> StdinPairing,
   jobs |-> JobCommand, restart |-> RestartCommand,
   permissions |-> PermissionCommand, relay |-> RelayCommand,
   bootstrap |-> BootstrapCommand, python |-> PythonPolicy,
   listening |-> ListeningCommand, enroll |-> LocalEnrollment,
   setup |-> SetupCheck, sources |-> WorkloadSources,
   automations |-> AutomationCommand, network |-> NetworkSet]

Kinds == {CommandKinds[name] : name \in Offered}
Reports == {"done", "rejected", "unknown", "error"}

Fields == {"mic", "relay", "python", "listen", "rev", "pol", "polRev", "misc"}
Settings == [mic : BOOLEAN, relay : BOOLEAN, python : BOOLEAN,
             listen : BOOLEAN, rev : Nat, pol : BOOLEAN, polRev : Nat,
             misc : BOOLEAN]
\* The part of the settings a runtime reads once, when it starts.
Scoped(s) == <<s.mic, s.relay, s.python, s.pol, s.misc>>
Defaults == [mic |-> FALSE, relay |-> FALSE, python |-> FALSE,
             listen |-> FALSE, rev |-> 0, pol |-> FALSE, polRev |-> 0,
             misc |-> FALSE]

Down == [pc |-> "down", runtime |-> None, bound |-> None, taken |-> None,
         applied |-> None, pending |-> FALSE, permit |-> FALSE,
         queued |-> FALSE, barrier |-> FALSE, servers |-> 0, started |-> 0]
OpenGate == [epoch |-> 0, blocked |-> FALSE, retired |-> FALSE, used |-> FALSE]
Nothing == [runtime |-> None, field |-> FALSE, rev |-> 0, epoch |-> 0,
            pol |-> FALSE, polRev |-> 0]
Idle == [pc |-> "idle", kind |-> None, want |-> FALSE, seen |-> Nothing,
         request |-> "none", report |-> None]

Init ==
  /\ main \in {[Defaults EXCEPT !.mic = TRUE, !.listen = on] : on \in BOOLEAN}
  /\ backup = None
  /\ lock = None
  /\ node = Down
  /\ gate = OpenGate
  /\ capture = None
  /\ writers = {}
  /\ page = None
  /\ cli = [c \in Commands |-> Idle]
  /\ performed = [c \in Commands |-> 0]
  /\ other = 0

Api == node.pc \in {"idle", "boot", "built", "adopted", "run", "attend"}
Online(w) == ~w.offline
ConfigLockFree == \A w \in writers : ~Online(w)

-----------------------------------------------------------------------------
(* One save: save_config_inner, under config_lock.                         *)

\* A stale copy may not turn listening on: only the local command may.
SaveAllowed(value, enable) == value.listen => main.listen \/ enable

\* The revisions belong to the file, whatever the incoming value says.
Preserved(value) ==
  [value EXCEPT
     !.rev = main.rev + (IF value.listen # main.listen THEN 1 ELSE 0),
     !.polRev = main.polRev + (IF value.pol # main.pol THEN 1 ELSE 0)]

\* Gate::deny.
Denied(g) == IF g.blocked THEN g ELSE [g EXCEPT !.epoch = @ + 1, !.blocked = TRUE]

\* Variant: the gate is left alone when only the microphone goes off.
DenyConsentOnly(value, g) == IF ~value.listen THEN Denied(g) ELSE g
\* The gate closes before a write that takes consent or microphone away.
DenyFirst(value, g) ==
  IF ~value.listen \/ ~value.mic THEN Denied(g) ELSE g

Save(by, offline, value, direct, then) ==
  /\ writers' = writers \cup
       {[by |-> by, offline |-> offline, next |-> value, then |-> then,
         step |-> IF direct THEN "publish" ELSE "backup"]}
  /\ gate' = IF offline \/ direct THEN gate ELSE DenyFirst(value, gate)

\* A finished save: the flags its handler sets, and the reply.
Flags(then) ==
  [node EXCEPT !.pending = @ \/ then \in {"pending", "both"},
               !.permit = @ \/ then \in {"notify", "both"}]

\* What a command reports once its request is answered.
Answered(c, answer) ==
  IF cli[c].pc = "sent" THEN [cli[c] EXCEPT !.request = answer]
  ELSE [cli[c] EXCEPT !.request = "none",
          !.seen = IF cli[c].kind.family = "restart" THEN @ ELSE Nothing]

Advance(w, step) == writers' = (writers \ {w}) \cup {[w EXCEPT !.step = step]}

CopyBackup(w) ==
  /\ w.step = "backup"
  /\ backup' = main
  /\ Advance(w, "publish")
  /\ UNCHANGED <<main, lock, node, gate, capture, page, cli, performed, other>>

Publish(w) ==
  /\ w.step = "publish"
  /\ main' = w.next
  /\ Advance(w, "finish")
  /\ performed' = IF w.by \in Commands
                    THEN [performed EXCEPT ![w.by] = @ + 1] ELSE performed
  /\ UNCHANGED <<backup, lock, node, gate, capture, page, cli, other>>

Finish(w) ==
  /\ w.step = "finish"
  /\ writers' = writers \ {w}
  /\ node' = IF w.offline THEN node ELSE Flags(w.then)
  /\ gate' = IF w.then = "allow" THEN [gate EXCEPT !.blocked = FALSE] ELSE gate
  /\ lock' = IF w.offline THEN None ELSE lock
  /\ cli' = IF w.by \notin Commands THEN cli
            ELSE IF w.offline
              THEN [cli EXCEPT ![w.by].pc = "end", ![w.by].report = "done"]
            ELSE [cli EXCEPT ![w.by] = Answered(w.by, "done")]
  /\ UNCHANGED <<main, backup, capture, page, performed, other>>

\* The copy or the replacement fails; the file keeps its content.
SaveFails(w) ==
  /\ w.step \in {"backup", "publish"}
  /\ other < MaxOther
  /\ other' = other + 1
  /\ writers' = writers \ {w}
  /\ lock' = IF w.offline THEN None ELSE lock
  /\ cli' = IF w.by \notin Commands THEN cli
            ELSE IF w.offline
              THEN [cli EXCEPT ![w.by].pc = "end", ![w.by].report = "error"]
            ELSE [cli EXCEPT ![w.by] = Answered(w.by, "failed")]
  /\ UNCHANGED <<main, backup, node, gate, capture, page, performed>>

\* Variant: the file is rewritten in place.
CrashInPlace(w) == IF w.step = "publish" THEN {main, w.next, Torn} ELSE {main}
\* What a crash leaves: the staged file is renamed over the old one or not.
CrashLeaves(w) == {main}

-----------------------------------------------------------------------------
(* The service process: locks, runtimes, exit and crash.                   *)

\* service_instance.rs: the service lock first, then the command lock.
Launch ==
  /\ node.pc = "down"
  /\ node.started < MaxRuntimes
  /\ node' = [node EXCEPT !.pc = "lock"]
  /\ UNCHANGED <<main, backup, lock, gate, capture, writers, page, cli,
                 performed, other>>

\* Variant: the service does not wait for a command that holds the lock.
OwnAnyway == TRUE
OwnFree == lock = None
Own ==
  /\ node.pc = "lock"
  /\ OwnFree
  /\ lock' = "service"
  /\ node' = [node EXCEPT !.pc = "idle"]
  /\ UNCHANGED <<main, backup, gate, capture, writers, page, cli, performed,
                 other>>

\* The deadline on the command lock passes.
OwnTimeout ==
  /\ node.pc = "lock"
  /\ lock # None
  /\ node' = [node EXCEPT !.pc = "down"]
  /\ UNCHANGED <<main, backup, lock, gate, capture, writers, page, cli,
                 performed, other>>

\* capture_runtime_configuration.
CaptureSettings ==
  /\ node.pc = "idle"
  /\ node.started < MaxRuntimes
  /\ ConfigLockFree
  /\ node' = [node EXCEPT !.pc = "boot", !.taken = Scoped(main)]
  /\ UNCHANGED <<main, backup, lock, gate, capture, writers, page, cli,
                 performed, other>>

Tried == other < MaxOther /\ other' = other + 1

\* run_node: the model server of an earlier runtime is stopped first.
StopPrevious ==
  /\ node.pc = "boot" /\ node.barrier
  /\ \/ /\ node' = [node EXCEPT !.barrier = FALSE, !.servers = @ - 1]
        /\ UNCHANGED other
     \/ node' = [node EXCEPT !.pc = "attend", !.taken = None] /\ Tried
  /\ UNCHANGED <<main, backup, lock, gate, capture, writers, page, cli,
                 performed>>

\* Variant: the next runtime does not look at the barrier.
BuildBeside == TRUE
BarrierClear == ~node.barrier
\* run_node: engine, plugins and a model server behind the barrier.
Build ==
  /\ node.pc = "boot" /\ BarrierClear
  /\ node' = [node EXCEPT !.pc = "built", !.barrier = TRUE, !.servers = @ + 1]
  /\ UNCHANGED <<main, backup, lock, gate, capture, writers, page, cli,
                 performed, other>>

\* Variant: what changed while the runtime was starting is not compared.
NeverPending(taken) == FALSE
PendingAtAdoption(taken) == taken # Scoped(main)
\* adopt_runtime_configuration.
Adopt ==
  /\ node.pc = "built"
  /\ ConfigLockFree
  /\ node' = [node EXCEPT !.pc = "adopted", !.taken = None,
                          !.runtime = node.started + 1,
                          !.applied = node.taken, !.started = @ + 1,
                          !.pending = PendingAtAdoption(node.taken)]
  /\ UNCHANGED <<main, backup, lock, gate, capture, writers, page, cli,
                 performed, other>>

\* attach_preview_runtime_with_policy: a fresh binding, a fresh gate epoch.
Bind ==
  /\ node.pc = "adopted"
  /\ node' = [node EXCEPT !.pc = "run", !.bound = node.runtime]
  /\ gate' = [gate EXCEPT !.epoch = IF gate.used THEN @ + 2 ELSE @,
                          !.retired = FALSE, !.used = TRUE]
  /\ UNCHANGED <<main, backup, lock, capture, writers, page, cli, performed,
                 other>>

\* PreviewGuard::drop.
Retired(g) ==
  IF g.retired THEN g ELSE [g EXCEPT !.epoch = @ + 1, !.retired = TRUE]
Unbound(pc) == [node EXCEPT !.pc = pc, !.bound = None, !.taken = None]

\* The end of run_node: the model server stops, or the barrier stays.
Stopping(pc, final) ==
  \/ node' = [final EXCEPT !.pc = pc, !.barrier = FALSE, !.servers = @ - 1]
     /\ UNCHANGED other
  \/ node' = [final EXCEPT !.pc = "attend"] /\ Tried

\* supervise_runtime: a restart permit ends the runtime and starts the next.
Restart ==
  /\ node.pc \in {"boot", "built", "adopted", "run", "attend"}
  /\ node.permit
  /\ node.started < MaxRuntimes
  /\ LET final == [Unbound("idle") EXCEPT !.permit = FALSE] IN
     IF node.pc \in {"boot", "attend"} THEN node' = final /\ UNCHANGED other
     ELSE Stopping("idle", final)
  /\ gate' = IF node.bound # None THEN Retired(gate) ELSE gate
  /\ UNCHANGED <<main, backup, lock, capture, writers, page, cli, performed>>

\* The runtime fails; the process waits for an explicit restart.
RuntimeFails ==
  /\ other < MaxOther
  /\ \/ node.pc \in {"boot", "built"} /\ node' = Unbound("attend") /\ Tried
     \/ /\ node.pc = "run"
        /\ \/ /\ node' = [Unbound("attend") EXCEPT !.barrier = FALSE,
                                                  !.servers = @ - 1]
              /\ Tried
           \/ node' = Unbound("attend") /\ Tried
  /\ gate' = IF node.bound # None THEN Retired(gate) ELSE gate
  /\ UNCHANGED <<main, backup, lock, capture, writers, page, cli, performed>>

\* queue_restart: half a second after the reply.
QueuedRestart ==
  /\ node.queued
  /\ node' = [node EXCEPT !.queued = FALSE, !.permit = TRUE]
  /\ UNCHANGED <<main, backup, lock, gate, capture, writers, page, cli,
                 performed, other>>

\* The process dies: the requests it has not answered are lost with it.
Dropped(c) ==
  IF cli[c].request \in {"posted", "held"}
    THEN Answered(c, "lost") ELSE cli[c]

Gone ==
  /\ node' = [Down EXCEPT !.started = node.started]
  /\ gate' = OpenGate
  /\ capture' = None
  /\ lock' = IF lock = "service" THEN None ELSE lock
  /\ writers' = {w \in writers : w.offline}
  /\ cli' = [c \in Commands |-> Dropped(c)]

Crash ==
  /\ node.pc # "down"
  /\ other < MaxOther
  /\ other' = other + 1
  /\ \/ main' = main
     \/ \E w \in writers : Online(w) /\ main' \in CrashLeaves(w)
  /\ Gone
  /\ UNCHANGED <<backup, page, performed>>

\* Ctrl-C: the API is aborted wherever its handlers are between two awaits.
Exit ==
  /\ Api
  /\ ConfigLockFree
  /\ Gone
  /\ UNCHANGED <<main, backup, page, performed, other>>

-----------------------------------------------------------------------------
(* A capture of the microphone, supervised by the gate (listening.rs).     *)

Listen ==
  /\ node.pc = "run"
  /\ capture = None
  /\ ConfigLockFree
  /\ main.listen /\ main.mic /\ node.applied[1]
  /\ ~gate.blocked /\ ~gate.retired
  /\ capture' = gate.epoch
  /\ UNCHANGED <<main, backup, lock, node, gate, writers, page, cli, performed,
                 other>>

\* Permit::supervise drops the capture when its epoch is over.
CaptureEnds ==
  /\ capture # None
  /\ capture' = None
  /\ UNCHANGED <<main, backup, lock, node, gate, writers, page, cli, performed,
                 other>>

-----------------------------------------------------------------------------
(* A command of the command line.                                          *)

\* A first look at the lock: free, and then held, or taken.
Begin(c, kind, want) ==
  /\ cli[c].pc = "idle"
  /\ want => kind.family = "listen"
  /\ LET seen == IF kind.first # "given" THEN Nothing
                 ELSE [Nothing EXCEPT !.runtime = node.bound, !.pol = main.pol,
                                      !.polRev = main.polRev]
         pc == IF lock = None THEN "alone"
               ELSE IF kind.first \in {"inspect", "runtime", "any"} THEN "look"
               ELSE "post"
     IN cli' = [cli EXCEPT ![c].pc = pc, ![c].kind = kind, ![c].want = want,
                           ![c].seen = seen]
  /\ lock' = IF lock = None THEN c ELSE lock
  /\ UNCHANGED <<main, backup, node, gate, capture, writers, page, performed,
                 other>>

Report(c, report) ==
  LET open == cli[c].request \in {"posted", "held"} IN
  cli' = [cli EXCEPT
            ![c].pc = "end", ![c].report = report,
            ![c].request = IF open THEN @ ELSE "none",
            ![c].seen = IF open \/ cli[c].kind.family = "restart" THEN @
                        ELSE Nothing]

FieldOf(family) ==
  IF family \in {"mic", "relay", "python", "pol"} THEN family ELSE "misc"
Toggled(family) == [main EXCEPT ![FieldOf(family)] = ~@]
\* The digest Show returns: the content of the command's own settings.
Digest(family) == main[FieldOf(family)]

\* The policy was not edited since the operator read its versioned digest.
PolicyUnchanged(c) ==
  cli[c].seen.pol = main.pol /\ cli[c].seen.polRev = main.polRev

\* The node is not running: edit the file under the lock, or say so.
AloneEdit(c) ==
  /\ cli[c].pc = "alone"
  /\ cli[c].kind.alone = "edit"
  /\ \A w \in writers : w.by # c
  /\ cli[c].kind.family = "pol" => PolicyUnchanged(c)
  /\ Save(c, TRUE, Preserved(Toggled(cli[c].kind.family)), FALSE, "none")
  /\ UNCHANGED <<main, backup, lock, node, capture, page, cli, performed, other>>

AloneReport(c) ==
  /\ cli[c].pc = "alone"
  /\ \/ cli[c].kind.alone # "edit" /\ Report(c, cli[c].kind.alone)
     \/ /\ cli[c].kind.alone = "edit"
        /\ cli[c].kind.family = "pol" /\ ~PolicyUnchanged(c)
        /\ \A w \in writers : w.by # c
        /\ Report(c, "rejected")
  /\ lock' = None
  /\ UNCHANGED <<main, backup, node, gate, capture, writers, page, performed,
                 other>>

\* Diagnostics name a runtime, and for a Set the Show request is answered.
Known(kind) ==
  /\ Api
  /\ kind.first = "runtime" => node.runtime # None
  /\ kind.first = "inspect" => ConfigLockFree /\ node.bound # None

Look(c) ==
  /\ cli[c].pc = "look"
  /\ \/ /\ Known(cli[c].kind)
        /\ cli' = [cli EXCEPT ![c].pc = "post",
                     ![c].seen = IF cli[c].kind.first # "inspect"
                       THEN [Nothing EXCEPT !.runtime = node.runtime]
                       ELSE [Nothing EXCEPT !.runtime = node.bound,
                               !.field = Digest(cli[c].kind.family),
                               !.rev = main.rev, !.epoch = gate.epoch]]
     \/ /\ ~Known(cli[c].kind)
        /\ Report(c, IF cli[c].kind.first = "inspect" THEN "rejected" ELSE "error")
  /\ UNCHANGED <<main, backup, lock, node, gate, capture, writers, page,
                 performed, other>>

\* The one POST of a command; nobody may be listening any more.
Post(c) ==
  /\ cli[c].pc = "post"
  /\ IF Api THEN cli' = [cli EXCEPT ![c].pc = "sent", ![c].request = "posted"]
     ELSE Report(c, cli[c].kind.lost)
  /\ UNCHANGED <<main, backup, lock, node, gate, capture, writers, page,
                 performed, other>>

\* The reply, the connection breaking, or the deadline of the client.
\* A restart is judged by the runtime that answers afterwards.
Reply(c) ==
  /\ cli[c].pc = "sent"
  /\ \/ cli[c].request = "failed" /\ Report(c, cli[c].kind.refused)
     \/ cli[c].request = "declined" /\ Report(c, "rejected")
     \/ /\ cli[c].kind.family # "restart"
        /\ \/ cli[c].request = "done" /\ Report(c, "done")
           \/ Report(c, cli[c].kind.lost)
     \/ /\ cli[c].kind.family = "restart"
        /\ \/ /\ Api /\ node.runtime \notin {None, cli[c].seen.runtime}
              /\ Report(c, "done")
           \/ Report(c, "unknown")
  /\ UNCHANGED <<main, backup, lock, node, gate, capture, writers, page,
                 performed, other>>

\* The operator or the system ends a command that holds the lock.
KillCommand(c) ==
  /\ cli[c].pc = "alone"
  /\ other < MaxOther
  /\ other' = other + 1
  /\ cli' = [cli EXCEPT ![c].pc = "end"]
  /\ lock' = None
  /\ \/ main' = main
     \/ \E w \in writers : w.by = c /\ main' \in CrashLeaves(w)
  /\ writers' = {w \in writers : w.by # c}
  /\ UNCHANGED <<backup, node, gate, capture, page, performed>>

-----------------------------------------------------------------------------
(* The handlers of the local API.                                          *)

\* What a handler compares, under config_lock, with what its sender saw.
SameBinding(c) == node.bound = cli[c].seen.runtime
SameRuntime(c) == node.runtime = cli[c].seen.runtime

\* Variant: the digest the operator saw is not compared.
PermissionUnread(c) == SameBinding(c)
PermissionAdmitted(c) == SameBinding(c) /\ Digest("mic") = cli[c].seen.field
RelayAdmitted(c) == SameBinding(c) /\ Digest("relay") = cli[c].seen.field
PythonAdmitted(c) == SameBinding(c) /\ Digest("python") = cli[c].seen.field
\* The revision of the consent and the epoch of the gate.
ListeningAdmitted(c) ==
  /\ SameBinding(c)
  /\ main.rev = cli[c].seen.rev /\ gate.epoch = cli[c].seen.epoch
LifecyclePolicyAdmitted(c) ==
  node.bound # None /\ SameBinding(c) /\ PolicyUnchanged(c)
PairingAdmitted(c) == SameRuntime(c)
RestartAdmitted(c) == SameRuntime(c)

Admitted(c) ==
  CASE cli[c].kind.family = "mic" -> PermissionAdmitted(c)
    [] cli[c].kind.family = "relay" -> RelayAdmitted(c)
    [] cli[c].kind.family = "python" -> PythonAdmitted(c)
    [] cli[c].kind.family = "listen" -> ListeningAdmitted(c)
    [] cli[c].kind.family = "pol" -> LifecyclePolicyAdmitted(c)
    [] cli[c].kind.family = "pair" -> PairingAdmitted(c)
    [] cli[c].kind.family = "restart" -> RestartAdmitted(c)
    [] OTHER -> TRUE

\* The restart a handler asks for once the save is done.
Then(family) ==
  CASE family = "conn" -> "notify" [] family = "pair" -> "both" [] OTHER -> "pending"

Serving(c) == cli[c].request = "posted" /\ Api

Saving == {"mic", "relay", "python", "pol", "misc", "conn", "pair"}
ServeSave(c) ==
  /\ Serving(c)
  /\ cli[c].kind.family \in Saving
  /\ ConfigLockFree /\ Admitted(c)
  /\ Save(c, FALSE, Preserved(Toggled(cli[c].kind.family)), FALSE,
          Then(cli[c].kind.family))
  /\ cli' = [cli EXCEPT ![c].request = "held"]
  /\ UNCHANGED <<main, backup, lock, node, capture, page, performed, other>>

\* listening_command: an unchanged consent still opens or closes the gate.
ServeListening(c) ==
  /\ Serving(c)
  /\ cli[c].kind.family = "listen"
  /\ ConfigLockFree /\ Admitted(c)
  /\ \/ /\ main.listen # cli[c].want
        /\ Save(c, FALSE, Preserved([main EXCEPT !.listen = cli[c].want]), FALSE,
                IF cli[c].want THEN "allow" ELSE "none")
        /\ cli' = [cli EXCEPT ![c].request = "held"]
        /\ UNCHANGED performed
     \/ /\ main.listen = cli[c].want
        /\ gate' = IF cli[c].want THEN [gate EXCEPT !.blocked = FALSE]
                   ELSE Denied(gate)
        /\ cli' = [cli EXCEPT ![c] = Answered(c, "done")]
        /\ performed' = [performed EXCEPT ![c] = @ + 1]
        /\ UNCHANGED writers
  /\ UNCHANGED <<main, backup, lock, node, capture, page, other>>

ServeRestart(c) ==
  /\ Serving(c)
  /\ cli[c].kind.family = "restart"
  /\ Admitted(c)
  /\ node' = [node EXCEPT !.queued = TRUE]
  /\ performed' = [performed EXCEPT ![c] = @ + 1]
  /\ cli' = [cli EXCEPT ![c] = Answered(c, "done")]
  /\ UNCHANGED <<main, backup, lock, gate, capture, writers, page, other>>

\* Work that is not a setting: done, declined in the node's own report, or
\* failed before or after it took effect.
ServeWork(c) ==
  /\ Serving(c)
  /\ cli[c].kind.family \in {"work", "read"}
  /\ \E answer \in {"done", "declined", "failed"}, acts \in {0, 1} :
       /\ answer = "done" => acts = IF cli[c].kind.family = "work" THEN 1 ELSE 0
       /\ answer = "declined" \/ cli[c].kind.family = "read" => acts = 0
       /\ performed' = [performed EXCEPT ![c] = @ + acts]
       /\ cli' = [cli EXCEPT ![c] = Answered(c, answer)]
  /\ UNCHANGED <<main, backup, lock, node, gate, capture, writers, page, other>>

\* validate_config_shape and validate_model_references may refuse any value.
Malformed(c) == cli[c].kind.family \in Saving
ServeRefuse(c) ==
  /\ Serving(c)
  /\ ConfigLockFree
  /\ ~Admitted(c) \/ Malformed(c)
  /\ cli' = [cli EXCEPT ![c] = Answered(c, "failed")]
  /\ UNCHANGED <<main, backup, lock, node, gate, capture, writers, page,
                 performed, other>>

-----------------------------------------------------------------------------
(* The other editors of a running node.                                    *)

LoadPage ==
  /\ Api /\ ConfigLockFree
  /\ other < MaxOther
  /\ page' = main
  /\ UNCHANGED <<main, backup, lock, node, gate, capture, writers, cli,
                 performed, other>>

\* Variant: any local save may turn listening on.
AnySaveMayEnable(value) == TRUE
MayEnable(value) == SaveAllowed(value, FALSE)

OtherSave(by, value, direct, then) ==
  /\ Api /\ ConfigLockFree
  /\ other < MaxOther
  /\ other' = other + 1
  /\ MayEnable(value)
  /\ Save(by, FALSE, Preserved(value), direct, then)
  /\ page' = None
  /\ UNCHANGED <<main, backup, lock, node, capture, cli, performed>>

\* PUT /api/config writes the whole page back, edited or not.
SavePage ==
  /\ page # None
  /\ \E value \in {page, [page EXCEPT !.mic = ~@], [page EXCEPT !.listen = TRUE]} :
       OtherSave("page", value, FALSE, "pending")
RestoreBackup == backup # None /\ OtherSave("page", backup, FALSE, "pending")
Reset == OtherSave("page", Defaults, FALSE, "pending")
\* A coordinator with remote authority changes one field of the current file.
RemoteSave == OtherSave("remote", [main EXCEPT !.mic = ~@], FALSE, "pending")
\* pair_local writes the endpoint of a coordinator found nearby.
Discover == OtherSave("discover", [main EXCEPT !.misc = ~@], TRUE, "notify")

Next ==
  \/ \E w \in writers : CopyBackup(w) \/ Publish(w) \/ Finish(w) \/ SaveFails(w)
  \/ Launch \/ Own \/ OwnTimeout \/ CaptureSettings \/ StopPrevious
  \/ Build \/ Adopt \/ Bind
  \/ Restart \/ RuntimeFails \/ QueuedRestart \/ Crash \/ Exit
  \/ Listen \/ CaptureEnds
  \/ \E c \in Commands :
       \/ \E kind \in Kinds, want \in BOOLEAN : Begin(c, kind, want)
       \/ AloneEdit(c) \/ AloneReport(c) \/ KillCommand(c)
       \/ Look(c) \/ Post(c) \/ Reply(c)
       \/ ServeSave(c) \/ ServeListening(c) \/ ServeRestart(c)
       \/ ServeWork(c) \/ ServeRefuse(c)
  \/ LoadPage \/ SavePage \/ RestoreBackup \/ Reset \/ RemoteSave \/ Discover

Spec == Init /\ [][Next]_vars

-----------------------------------------------------------------------------
\* A command reports done only for what took effect once, and a rejection
\* only for what never did and never will, whatever replies were lost.  A
\* restart reported as done is a different runtime.
ReportsTrue ==
  \A c \in Commands :
    /\ performed[c] <= 1
    /\ cli[c].report = "done" =>
         \/ performed[c] = 1
         \/ cli[c].kind.family = "read"
         \/ /\ cli[c].kind.family = "restart"
            /\ \/ cli[c].seen.runtime = None
               \/ node.started > cli[c].seen.runtime
    /\ cli[c].report = "rejected" =>
         performed[c] = 0 /\ cli[c].request \notin {"posted", "held"}

\* A permit that still passes the gate means that the saved settings still
\* allow listening: the gate closes before the file says no.  The file and
\* its backup are whole after every crash, and a runtime whose settings
\* differ from the file is marked for a restart.  The model server of one
\* runtime is gone before the next one has its own.
SettingsHeld ==
  /\ node.servers <= 1
  /\ Torn \notin {main, backup}
  /\ capture # None /\ capture = gate.epoch /\ ~gate.blocked /\ ~gate.retired
       => main.listen /\ main.mic
  /\ node.pc \in {"adopted", "run"} /\ ConfigLockFree
       /\ Scoped(main) # node.applied
       => node.pending \/ node.permit

Only(fields, old, new) ==
  \A field \in Fields \ fields : new[field] = old[field]

\* The value a command replaces is the one its operator looked at, and
\* nobody but a whole-file writer touches a field that is not its own.
EditsSeen ==
  main' # main =>
    \E w \in writers :
      /\ w.step = "publish" /\ main' = w.next
      /\ w.by = "remote" => Only({"mic"}, main, main')
      /\ w.by = "discover" => Only({"misc"}, main, main')
      /\ w.by \in Commands =>
           LET family == cli[w.by].kind.family
               seen == cli[w.by].seen
           IN CASE family \in {"mic", "relay", "python"} ->
                     Only({family}, main, main') /\ main[family] = seen.field
                [] family = "listen" ->
                     Only({"listen", "rev"}, main, main') /\ main.rev = seen.rev
                [] family = "pol" ->
                     /\ Only({"pol", "polRev"}, main, main')
                     /\ main.pol = seen.pol /\ main.polRev = seen.polRev
                [] OTHER -> Only({"misc"}, main, main')

\* Listening consent appears in the file only through the listening command
\* typed on this device: no stale page, backup, reset or remote save sets it.
ConsentIsLocal ==
  main'.listen /\ ~main.listen =>
    \E w \in writers : w.by \in Commands /\ cli[w.by].kind.family = "listen"
=============================================================================
