--------------------------- MODULE OwnerCommands ---------------------------
(***************************************************************************)
(* One command of the coordinator's owner, from the command line           *)
(* (eef/src/main.rs) over the coordinator's local API (api.rs) to the      *)
(* handler (node_*.rs, node_control.rs, the request and automation         *)
(* commands) and, where it concerns a node, to the node and back.          *)
(*                                                                         *)
(* Either hop may lose the request or the reply, handlers outlive clients  *)
(* that gave up, a message may be handled after its sender stopped         *)
(* waiting, both processes restart, and another editor changes the same    *)
(* settings.  What the owner is finally told must still be true.           *)
(***************************************************************************)
EXTENDS Naturals

CONSTANTS MaxFaults,   \* bound: losses, restarts and other editors' changes
          MaxTries,    \* bound: times the owner gives the same receipt
          None

VARIABLES kind,      \* which command it is
          cli,       \* the command line's progress
          server,    \* the handler's progress
          response,  \* the HTTP response on its way to the command line
          mail,      \* the message on its way to the node or back
          node,      \* the node's runtime, settings version and consent
          coord,     \* the coordinator's runtime, journal revision, receipts
          applied,   \* history: how often the command took effect
          fitting,   \* history: it took effect on what its owner had seen
          report,    \* what the owner was told
          spent      \* bounds: faults and tries so far
vars == <<kind, cli, server, response, mail, node, coord, applied, fitting,
          report, spent>>

Policies == {"relay", "python", "repair", "bootstrap", "permissions"}
Pinned == {"lifecycle", "lifecycle_policy"}
Receipted == {"automation", "session", "abandon", "recover", "execute", "planning"}
Configured == {"scheduling", "credentials", "discovery"}
Kinds == Policies \cup Pinned \cup Receipted \cup Configured
           \cup {"setup", "models", "restart", "update"}

Client(pc, run, base, sending) == [pc |-> pc, run |-> run, base |-> base, sending |-> sending]
Handler(pc, run, base) == [pc |-> pc, run |-> run, base |-> base]
Response(says, run, base) == [says |-> says, run |-> run, base |-> base]
Mail(to, run, base, what) == [to |-> to, run |-> run, base |-> base, what |-> what]

Init == /\ kind \in Kinds
        /\ cli = Client("start", 0, 0, FALSE)
        /\ server = None /\ response = None /\ mail = None
        /\ node = [run |-> 1, base |-> 1, allow |-> TRUE]
        /\ coord = [run |-> 1, revision |-> 1, receipt |-> FALSE]
        /\ applied = 0 /\ fitting = TRUE
        /\ report = None
        /\ spent = [faults |-> 0, tries |-> 1]

Fault == spent.faults < MaxFaults /\ spent' = [spent EXCEPT !.faults = @ + 1]

----------------------------------------------------------------------------
(* The command line.                                                       *)

\* Nothing may be claimed about a request that was sent and not confirmed;
\* before that, nothing was sent.
Unconfirmed == IF cli.sending THEN "unknown" ELSE "not_sent"

Told(what) == /\ report' = what
              /\ cli' = [cli EXCEPT !.pc = "done"]
              /\ response' = None /\ UNCHANGED server

Post(pc, run, base, sending, handler) ==
  /\ cli' = Client(pc, run, base, sending)
  /\ server' = handler /\ response' = None /\ UNCHANGED report

\* The five saved policies: inspect, then save against exactly what was seen.
InspectThenSave ==
  \/ /\ cli.pc = "start"
     /\ Post("inspect", 0, 0, FALSE, Handler("status", 0, 0))
  \/ /\ cli.pc = "inspect" /\ response # None
     /\ IF response.says = "shown"
        THEN Post("save", response.run, response.base, TRUE,
                  Handler("send", response.run, response.base))
        ELSE Told(Unconfirmed)
  \/ /\ cli.pc = "save" /\ response # None
     /\ Told(IF response.says = "ok" THEN "ok" ELSE Unconfirmed)

RelayCli == kind = "relay" /\ InspectThenSave
PythonCli == kind = "python" /\ InspectThenSave
RepairPolicyCli == kind = "repair" /\ InspectThenSave
BootstrapCli == kind = "bootstrap" /\ InspectThenSave
PermissionsCli == kind = "permissions" /\ InspectThenSave

\* Inspection of a node's setup: nothing to send.
SetupCli ==
  /\ kind = "setup"
  /\ \/ cli.pc = "start" /\ Post("inspect", 0, 0, FALSE, Handler("status", 0, 0))
     \/ /\ cli.pc = "inspect" /\ response # None
        /\ Told(IF response.says = "shown" THEN "shown" ELSE Unconfirmed)

\* The owner names the runtime that an earlier inspection showed.
LifecycleCli ==
  /\ kind \in Pinned
  /\ \/ cli.pc = "start" /\ Post("wait", node.run, 0, TRUE, Handler("send", node.run, 0))
     \/ cli.pc = "wait" /\ response # None /\ Told(response.says)

\* The handler inspects and decides; its report is passed on as it is.
NodeModelsCli ==
  /\ kind = "models"
  /\ \/ cli.pc = "start" /\ Post("wait", 0, 0, TRUE, Handler("preview", 0, 0))
     \/ cli.pc = "wait" /\ response # None /\ Told(response.says)

NodeRestartCli ==
  /\ kind = "restart"
  /\ \/ cli.pc = "start" /\ Post("wait", 0, 0, TRUE, Handler("permitted", 0, 0))
     \/ /\ cli.pc = "wait" /\ response # None
        /\ report' = response.says
        /\ cli' = [cli EXCEPT !.pc = "done", !.run = response.run]
        /\ response' = None /\ UNCHANGED server

\* An update is unknown until the node confirms this very request.
UpdateCli ==
  /\ kind = "update"
  /\ \/ cli.pc = "start" /\ Post("wait", 0, 0, TRUE, Handler("send", 0, 0))
     \/ /\ cli.pc = "wait" /\ response # None
        /\ Told(IF response.says = "ok" THEN "ok" ELSE "unknown")

\* Diagnostics name the runtime, then the receipt is sent to exactly that one.
Diagnose(failure) ==
  \/ cli.pc = "start" /\ Told(failure)
  \/ cli.pc = "start" /\ Post("diagnosed", coord.run, coord.revision, FALSE, None)
  \/ /\ cli.pc = "diagnosed"
     /\ Post("post", cli.run, cli.base, TRUE, Handler("journal", cli.run, cli.base))

Exchange(failure) ==
  \/ Diagnose(failure)
  \/ /\ cli.pc = "post" /\ response # None
     /\ Told(IF response.says = "ok" THEN "ok" ELSE Unconfirmed)

OwnerAutomationExchange == kind = "automation" /\ Exchange("not_sent")
ApproveSessionCli == kind = "session" /\ Exchange("error")
AbandonCli == kind = "abandon" /\ Exchange("error")
RecoverResultCli == kind = "recover" /\ Exchange("error")
ExecuteCli == kind = "execute" /\ Exchange("error")
PlanningCli == kind = "planning" /\ Exchange("error")

\* A coordinator setting: an unconfirmed save ends in an error without a claim.
ShowThenEdit ==
  \/ Diagnose("error")
  \/ /\ cli.pc = "post" /\ response # None
     /\ Told(IF response.says = "ok" THEN "ok" ELSE "error")

SchedulingCli == kind = "scheduling" /\ ShowThenEdit
CredentialsCli == kind = "credentials" /\ ShowThenEdit
DiscoveryCli == kind = "discovery" /\ ShowThenEdit

RunCommand ==
  /\ \/ RelayCli \/ PythonCli \/ RepairPolicyCli \/ BootstrapCli \/ PermissionsCli
     \/ SetupCli \/ LifecycleCli \/ NodeModelsCli \/ NodeRestartCli \/ UpdateCli
     \/ OwnerAutomationExchange \/ ApproveSessionCli \/ AbandonCli \/ RecoverResultCli
     \/ ExecuteCli \/ PlanningCli \/ SchedulingCli \/ CredentialsCli \/ DiscoveryCli
  /\ UNCHANGED <<kind, mail, node, coord, applied, fitting, spent>>

\* Variant: an exchange that broke off is reported as never sent.
BrokenOffUnsent == IF kind \in Policies THEN "not_sent" ELSE "unknown"

\* What the command line says when the HTTP exchange itself breaks off.
BrokenOff ==
  IF kind \in Policies \cup {"setup", "automation"} THEN Unconfirmed
  ELSE IF kind \in Receipted \cup {"update"} THEN "unknown" ELSE "error"

\* The client times out or its connection breaks.  The handler goes on, or is
\* dropped with the connection at whatever it was waiting for.
LoseResponse ==
  /\ cli.pc \notin {"start", "diagnosed", "done"} /\ Fault
  /\ report' = BrokenOff
  /\ cli' = [cli EXCEPT !.pc = "done"]
  /\ response' = None
  /\ \/ UNCHANGED server
     \/ server # None /\ server' = None
  /\ UNCHANGED <<kind, mail, node, coord, applied, fitting>>

\* After an unknown outcome the owner repeats the command with its receipt.
RepeatReceipt ==
  /\ kind \in Receipted /\ report = "unknown" /\ cli.pc = "done" /\ server = None
  /\ spent.tries < MaxTries /\ spent' = [spent EXCEPT !.tries = @ + 1]
  /\ cli' = Client("start", 0, 0, FALSE) /\ report' = None
  /\ UNCHANGED <<kind, server, response, mail, node, coord, applied, fitting>>

----------------------------------------------------------------------------
(* The coordinator's handlers.                                             *)

\* A handler's report reaches the client only if that is still waiting.
Respond(says, run, base) ==
  /\ server' = None
  /\ response' = IF cli.pc = "done" THEN None ELSE Response(says, run, base)

Continue(pc, run, base) ==
  /\ server' = [server EXCEPT !.pc = pc, !.run = run, !.base = base]
  /\ UNCHANGED response

At(pc) == server # None /\ server.pc = pc

\* Inspection: the node's status gives its runtime, and the read is pinned to it.
ShowStatus ==
  /\ At("status")
  /\ Respond("failed", 0, 0) \/ Continue("read", node.run, 0)
ShowRead ==
  /\ At("read")
  /\ \/ Respond("failed", 0, 0)
     \/ server.run = node.run /\ Respond("shown", node.run, node.base)

\* Every command on a node sends one message and waits for its reply.
Sends == /\ At("send") /\ mail = None
         /\ mail' = Mail("node", server.run, server.base, "command")
         /\ Continue("wait", server.run, server.base)

Replied == At("wait") /\ mail # None /\ mail.to = "coordinator"
TimedOut == At("wait")

\* Only a confirmed reply is success; anything else may have been applied.
Confirmed(what) == IF what = "ok" THEN "ok" ELSE "unknown"

PolicyCommand ==
  \/ ShowStatus /\ UNCHANGED mail
  \/ ShowRead /\ UNCHANGED mail
  \/ Sends
  \/ Replied /\ Respond(Confirmed(mail.what), 0, 0) /\ mail' = None
  \/ TimedOut /\ Respond("unknown", 0, 0) /\ UNCHANGED mail

NodeRelay == kind = "relay" /\ PolicyCommand
NodePythonPolicy == kind = "python" /\ PolicyCommand
NodePackagePolicy == kind = "repair" /\ PolicyCommand
NodeModelBootstrap == kind = "bootstrap" /\ PolicyCommand
NodePermissions == kind = "permissions" /\ PolicyCommand
NodeSetup == kind = "setup" /\ (ShowStatus \/ ShowRead) /\ UNCHANGED mail

PinnedCommand ==
  \/ Sends
  \/ Replied /\ Respond(Confirmed(mail.what), 0, 0) /\ mail' = None
  \/ TimedOut /\ Respond("unknown", 0, 0) /\ UNCHANGED mail

ModelLifecycle == kind = "lifecycle" /\ PinnedCommand
ModelLifecyclePolicy == kind = "lifecycle_policy" /\ PinnedCommand
ExplicitUpdate == kind = "update" /\ PinnedCommand

\* Variant: no reply is taken for a command that never started.
ModelOutcomeSilent(what) == IF what = "ok" THEN "ok" ELSE "refused"

\* models_on: busy and refused replies prove that nothing was changed.
ModelOutcome(what) == IF what = "ok" THEN "ok"
                      ELSE IF what \in {"busy", "denied"} THEN "refused" ELSE "unknown"

ModelsOn ==
  /\ kind = "models"
  /\ \/ /\ At("preview") /\ UNCHANGED mail
        /\ \/ Respond("not_sent", 0, 0)                 \* unavailable, or busy
           \/ ~node.allow /\ Respond("not_sent", 0, 0)
           \/ node.allow /\ Continue("send", 0, 0)
     \/ Sends
     \/ Replied /\ Respond(ModelOutcome(mail.what), 0, 0) /\ mail' = None
     \/ TimedOut /\ Respond(ModelOutcome("lost"), 0, 0) /\ UNCHANGED mail

\* Variant: a runtime that answers again is taken for the new one.
RestartSeenAnyway == At("poll")

\* Only another runtime id proves that the node restarted.
RestartSeen == At("poll") /\ node.run # server.run

\* restart_on: permission and runtime first, one request, then polling.
RestartOn ==
  /\ kind = "restart"
  /\ \/ /\ At("permitted") /\ UNCHANGED mail
        /\ \/ Respond("error", 0, 0)
           \/ Respond("not_sent", 0, 0)                 \* busy
           \/ ~node.allow /\ Respond("not_sent", 0, 0)
           \/ node.allow /\ Continue("send", node.run, 0)
     \/ Sends
     \/ /\ Replied /\ mail' = None
        /\ IF mail.what \in {"busy", "denied"} THEN Respond("refused", 0, 0)
           ELSE \/ Respond("ok", 0, 0)                  \* no wait was asked for
                \/ Continue("poll", server.run, 0)
     \/ TimedOut /\ Continue("poll", server.run, 0) /\ UNCHANGED mail
     \/ RestartSeen /\ Respond("completed", server.run, 0) /\ UNCHANGED mail
     \/ At("poll") /\ Respond("unknown", 0, 0) /\ UNCHANGED mail

NodeHandlers ==
  /\ \/ NodeRelay \/ NodePythonPolicy \/ NodePackagePolicy \/ NodeModelBootstrap
     \/ NodePermissions \/ NodeSetup \/ ModelLifecycle \/ ModelLifecyclePolicy
     \/ ExplicitUpdate \/ ModelsOn \/ RestartOn
  /\ UNCHANGED <<kind, cli, node, coord, applied, fitting, report, spent>>

\* Variant: a repeated receipt is executed again.
KnownReceiptForgotten == FALSE

\* The receipt is already in the journal: the command is answered from it.
KnownReceipt == coord.receipt

\* One transaction checks the runtime and the revision and keeps the receipt.
JournalHandler ==
  /\ At("journal") /\ kind \in Receipted
  /\ IF server.run # coord.run THEN Respond("failed", 0, 0) /\ UNCHANGED <<coord, applied>>
     ELSE IF KnownReceipt THEN Respond("ok", 0, 0) /\ UNCHANGED <<coord, applied>>
     ELSE \/ Respond("failed", 0, 0) /\ UNCHANGED <<coord, applied>>
          \/ /\ server.base = coord.revision
             /\ coord' = [coord EXCEPT !.revision = @ + 1, !.receipt = TRUE]
             /\ applied' = applied + 1
             /\ Respond("ok", 0, 0)
  /\ UNCHANGED <<kind, cli, mail, node, fitting, report, spent>>

\* A setting of the coordinator is saved for the next start, for this runtime only.
ConfigurationHandler ==
  /\ At("journal") /\ kind \in Configured
  /\ \/ Respond("failed", 0, 0) /\ UNCHANGED <<coord, applied>>
     \/ /\ server.run = coord.run
        /\ coord' = [coord EXCEPT !.revision = @ + 1]
        /\ applied' = applied + 1
        /\ Respond("ok", 0, 0)
  /\ UNCHANGED <<kind, cli, mail, node, fitting, report, spent>>

----------------------------------------------------------------------------
(* The node, the wire, and everybody else.                                 *)

\* Variant: the node saves a policy whatever it was based on.
FitsAnyway(m) == m.run = node.run

\* A policy names the runtime and the version inspected, a lifecycle command the
\* runtime; model selection, restart and update pin neither.
Fits(m) == /\ kind \in Policies \cup Pinned => m.run = node.run
           /\ kind \in Policies => m.base = node.base

Answer(what) == mail' = Mail("coordinator", 0, 0, what)

\* The node refuses before it starts, or applies the command once and answers.
NodeHandles ==
  /\ mail # None /\ mail.to = "node"
  /\ \/ Answer("busy") /\ UNCHANGED <<node, applied, fitting>>
     \/ /\ ~(node.allow /\ Fits(mail)) /\ Answer("denied")
        /\ UNCHANGED <<node, applied, fitting>>
     \/ /\ node.allow /\ Fits(mail)
        /\ applied' = applied + 1
        /\ fitting' = (kind \in Policies => mail.base = node.base)
        /\ node' = [node EXCEPT !.base = @ + 1]
        /\ Answer("ok")
  /\ UNCHANGED <<kind, cli, server, response, coord, report, spent>>

LoseMail ==
  /\ mail # None /\ Fault /\ mail' = None
  /\ UNCHANGED <<kind, cli, server, response, node, coord, applied, fitting, report>>

\* The node restarts, by command or by itself; its session takes the mail along.
NodeRestarts ==
  /\ IF kind = "restart" /\ applied = 1 /\ node.run = 1 THEN UNCHANGED spent ELSE Fault
  /\ node' = [node EXCEPT !.run = @ + 1]
  /\ mail' = None
  /\ UNCHANGED <<kind, cli, server, response, coord, applied, fitting, report>>

\* Another editor changes the policy, the consent or the journal.
OtherEditor ==
  /\ Fault
  /\ \/ node' = [node EXCEPT !.base = @ + 1] /\ UNCHANGED coord
     \/ node' = [node EXCEPT !.allow = ~@] /\ UNCHANGED coord
     \/ coord' = [coord EXCEPT !.revision = @ + 1] /\ UNCHANGED node
  /\ UNCHANGED <<kind, cli, server, response, mail, applied, fitting, report>>

\* The coordinator restarts: its handlers are gone, a message may still be read.
CoordinatorRestarts ==
  /\ Fault
  /\ coord' = [coord EXCEPT !.run = @ + 1]
  /\ server' = None /\ response' = None
  /\ mail' = IF mail # None /\ mail.to = "node" THEN mail ELSE None
  /\ IF cli.pc \in {"start", "diagnosed", "done"} THEN UNCHANGED <<cli, report>>
     ELSE cli' = [cli EXCEPT !.pc = "done"] /\ report' = BrokenOff
  /\ UNCHANGED <<kind, node, applied, fitting>>

Next == \/ RunCommand \/ LoseResponse \/ RepeatReceipt
        \/ NodeHandlers \/ JournalHandler \/ ConfigurationHandler
        \/ NodeHandles \/ LoseMail \/ NodeRestarts \/ OtherEditor \/ CoordinatorRestarts

Spec == Init /\ [][Next]_vars

----------------------------------------------------------------------------
(* Properties                                                              *)

\* What the owner is told is true.  Success means that the command took effect,
\* once; "not sent" and "refused" mean that it did not, and that nothing is left
\* on the way that still could (of a repeated receipt it speaks of the repetition
\* alone); a completed restart means another runtime
\* (node_control.rs models_on, restart_on; the exchanges of main.rs).
OwnerToldTruth ==
  /\ report = "ok" => applied = 1
  /\ report \in {"not_sent", "refused"} /\ spent.tries = 1 =>
       applied = 0 /\ (mail = None \/ mail.to = "coordinator")
         /\ (server # None => kind \in Policies \cup {"setup"} /\ server.pc \in {"status", "read"})
  /\ report = "completed" => node.run > cli.run

\* No command takes effect twice, whoever lost which reply, and a policy is only
\* ever saved over the version its owner had seen (KnownReceipt, Fits).
EffectOnceAsSeen == applied <= 1 /\ fitting

=============================================================================
