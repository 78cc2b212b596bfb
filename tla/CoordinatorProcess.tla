------------------------ MODULE CoordinatorProcess ------------------------
(***************************************************************************)
(* The coordinator's process: its configuration file, the runtimes it runs *)
(* one after another (eef/src/main.rs, runtime.rs, config.rs), the job     *)
(* journal each of them must own alone (jobs.rs), and the enrollment of a  *)
(* node on the same machine, which changes that configuration, restarts    *)
(* the runtime and pairs the node only with what the next runtime applied  *)
(* (credentials.rs, eefn/src/local_enrollment.rs).                         *)
(***************************************************************************)
EXTENDS Naturals

CONSTANTS MaxEdits,    \* bound: changes of the configuration
          MaxStarts,   \* bound: runtimes started
          MaxFaults,   \* bound: crashes, lost replies, node restarts and edits
          None

VARIABLES file,     \* the saved configuration, by section
          edits,    \* history: what the typed commands saved last
          page,     \* a settings page some client still shows
          proc,     \* the process: where it is, what it applied, its flags
          run,      \* the current runtime's number
          holders,  \* runtimes whose journal store is not dropped yet
          enroll,   \* the enrollment of the node
          node,     \* the node's runtime, connection settings and pairing
          did,      \* history: what the enrollment did and found out
          spent     \* bounds
vars == <<file, edits, page, proc, run, holders, enroll, node, did, spent>>

Absent == 0
Revoked == 99
Auth(cred, other) == [cred |-> cred, other |-> other]
Stopped == [pc |-> "off", applied |-> None, pending |-> FALSE, restart |-> FALSE,
            handler |-> None, exit |-> None]
Idle == [pc |-> "idle", run |-> 0, conn |-> 0, consent |-> FALSE, prepared |-> None,
         noderun |-> 0, needs |-> FALSE,
         changed |-> "no", restarted |-> "no", saved |-> "no"]

Init == /\ file = [sched |-> 0, auth |-> Auth(Absent, 0), disc |-> 0, web |-> 0]
        /\ edits = [sched |-> 0, auth |-> Auth(Absent, 0)]
        /\ page = None /\ proc = Stopped /\ run = 0 /\ holders = {}
        /\ enroll = Idle
        /\ node = [run |-> 1, conn |-> 0, paired |-> None]
        /\ did = [changed |-> FALSE, restarted |-> FALSE, verified |-> None, overwrote |-> FALSE]
        /\ spent = [edits |-> 0, faults |-> 0]

Fault == spent.faults < MaxFaults /\ spent' = [spent EXCEPT !.faults = @ + 1]
Edit == spent.edits < MaxEdits /\ spent' = [spent EXCEPT !.edits = @ + 1]
Enrolling == <<enroll, node, did>>
Settings == <<file, edits, page>>

----------------------------------------------------------------------------
(* The process and its runtimes.                                           *)

\* The process starts, takes its instance lock and reads the configuration;
\* inside the loop the next runtime reads it again.
LoadConfig ==
  /\ proc.pc \in {"off", "load"} /\ run < MaxStarts
  /\ proc' = [Stopped EXCEPT !.pc = "open", !.applied = file]
  /\ UNCHANGED <<Settings, run, holders, Enrolling, spent>>

\* The journal's file lock is taken once and never waited for.
OpenJournal ==
  /\ proc.pc = "open"
  /\ IF holders = {}
     THEN /\ run' = run + 1 /\ holders' = {run + 1}
          /\ proc' = [proc EXCEPT !.pc = "serving"]
     ELSE /\ proc' = [Stopped EXCEPT !.exit = "journal_busy"]
          /\ holders' = {} /\ UNCHANGED run
  /\ UNCHANGED <<Settings, Enrolling, spent>>

\* A part of the start fails (a port is taken, a setting is invalid), or the
\* process is killed: everything it held goes with it.
ProcessEnds ==
  /\ proc.pc # "off" /\ Fault
  /\ proc' = Stopped /\ holders' = {}
  /\ UNCHANGED <<Settings, run, Enrolling>>

\* The owner asks for a restart, or stops the process.
RequestRestart ==
  /\ proc.pc = "serving" /\ ~proc.restart /\ Edit
  /\ proc' = [proc EXCEPT !.restart = TRUE]
  /\ UNCHANGED <<Settings, run, holders, Enrolling>>

\* Shutdown runs inside the server's stop signal: commands still come in.
Shutdown ==
  /\ proc.pc = "serving"
  /\ \/ proc.restart /\ UNCHANGED spent
     \/ Fault
  /\ proc' = [proc EXCEPT !.pc = "stopping"]
  /\ UNCHANGED <<Settings, run, holders, Enrolling>>

\* The server stopped accepting and its open requests are answered.
Drain ==
  /\ proc.pc = "stopping" /\ proc.handler = None
  /\ proc' = [proc EXCEPT !.pc = "retiring"]
  /\ UNCHANGED <<Settings, run, holders, Enrolling, spent>>

\* The last owner of the old store lets go of it.
StoreDropped ==
  /\ proc.pc \in {"retiring", "load", "open"} /\ holders # {}
  /\ holders' = {}
  /\ UNCHANGED <<Settings, proc, run, Enrolling, spent>>

\* Variant: the shutdown of a runtime is taken for its retirement.
RetiredAfterShutdown == TRUE

\* Exactly this store's drop, not a free lock or an idle runner, is retirement.
Retired == run \notin holders

\* The loop goes on with another runtime, or the process ends.
Retire ==
  /\ proc.pc = "retiring" /\ Retired
  /\ proc' = IF proc.restart THEN [proc EXCEPT !.pc = "load"] ELSE Stopped
  /\ holders' = IF proc.restart THEN holders ELSE {}
  /\ UNCHANGED <<Settings, run, Enrolling, spent>>

\* Five seconds are over: no replacement is started, the process ends.
RetirementTimesOut ==
  /\ proc.pc = "retiring" /\ run \in holders
  /\ proc' = Stopped /\ holders' = {}
  /\ UNCHANGED <<Settings, run, Enrolling, spent>>

----------------------------------------------------------------------------
(* The owner's settings.                                                   *)

Accepting == proc.pc \in {"serving", "stopping"}
Saved == proc' = [proc EXCEPT !.handler = "flag"]

\* Typed commands change their own section of the file, under its lock.
SchedulingCommand ==
  /\ Accepting /\ proc.handler = None /\ Edit
  /\ file' = [file EXCEPT !.sched = @ + 1]
  /\ edits' = [edits EXCEPT !.sched = file.sched + 1]
  /\ Saved /\ UNCHANGED <<page, run, holders, Enrolling>>

DiscoveryCommand ==
  /\ Accepting /\ proc.handler = None /\ Edit
  /\ file' = [file EXCEPT !.disc = @ + 1]
  /\ Saved /\ UNCHANGED <<edits, page, run, holders, Enrolling>>

SaveAuth(auth) == /\ file' = [file EXCEPT !.auth = auth]
                  /\ edits' = [edits EXCEPT !.auth = auth]

\* The credential commands: legacy use, revocation, explicit rotation.
CredentialCommand ==
  /\ Accepting /\ proc.handler = None /\ Edit
  /\ \/ SaveAuth(Auth(file.auth.cred, file.auth.other + 1))
     \/ SaveAuth(Auth(Revoked, file.auth.other))
     \/ file.auth.cred # Absent /\ SaveAuth(Auth(spent.edits + 10, file.auth.other))
  /\ Saved /\ UNCHANGED <<page, run, holders, Enrolling>>

\* A client loads the settings page; it may save it much later.
LoadPage ==
  /\ Accepting /\ page # file
  /\ page' = file
  /\ UNCHANGED <<file, edits, proc, run, holders, Enrolling, spent>>

\* Variant: the page is saved as it is.
PageOverSaved == [page EXCEPT !.web = file.web + 1]

\* The page replaces everything but what the typed commands own.
PageOver == [page EXCEPT !.sched = file.sched, !.auth = file.auth, !.web = file.web + 1]

SaveConfiguration ==
  /\ Accepting /\ proc.handler = None /\ page # None /\ Edit
  /\ file' = PageOver
  /\ Saved /\ UNCHANGED <<edits, page, run, holders, Enrolling>>

\* The command that changed the file records that a restart is pending.
FlagPending ==
  /\ proc.handler = "flag"
  /\ proc' = [proc EXCEPT !.handler = None, !.pending = TRUE]
  /\ UNCHANGED <<Settings, run, holders, Enrolling, spent>>

----------------------------------------------------------------------------
(* Enrollment of a node on the same machine.                               *)

Ends == enroll' = [enroll EXCEPT !.pc = "done"]

\* The node snapshots its own connection and reads the coordinator's plan.
EnrollBegin ==
  /\ enroll.pc = "idle" /\ Accepting
  /\ file.auth.cred # Revoked
  /\ \E consent \in BOOLEAN :
       enroll' = [enroll EXCEPT !.pc = "prepare", !.run = run, !.conn = node.conn,
                                !.noderun = node.run, !.consent = consent]
  /\ UNCHANGED <<Settings, proc, run, holders, node, did, spent>>

\* Never revive a revocation, never repair lost trust, and nothing that would
\* need a restart without consent to one.
MayPrepare(auth, applied) ==
  /\ auth.cred # Revoked
  /\ ~(auth.cred = Absent /\ applied.cred # Absent)
  /\ auth.cred = Absent \/ auth # applied => enroll.consent

Provisioned(auth) == IF auth.cred \in {Absent, Revoked}
                     THEN Auth(spent.edits + 1, auth.other) ELSE auth

\* The coordinator's side of the preparation, and whether its reply arrives.
EnrollPrepare ==
  /\ enroll.pc = "prepare" /\ UNCHANGED <<page, run, holders, node>>
  /\ \/ /\ ~(Accepting /\ proc.handler = None /\ enroll.run = run
               /\ MayPrepare(file.auth, proc.applied.auth))
        /\ enroll' = [enroll EXCEPT !.pc = "done", !.changed = "unknown"]
        /\ UNCHANGED <<file, edits, proc, did, spent>>
     \/ /\ Accepting /\ proc.handler = None /\ enroll.run = run
        /\ MayPrepare(file.auth, proc.applied.auth)
        /\ LET auth == Provisioned(file.auth)
               changed == auth # file.auth
           IN /\ SaveAuth(auth)
              /\ IF changed THEN Saved ELSE UNCHANGED proc
              /\ did' = [did EXCEPT !.changed = changed]
              /\ \/ /\ enroll' = [enroll EXCEPT !.pc = IF auth # proc.applied.auth
                                                       THEN "restart" ELSE "poll",
                                    !.prepared = auth, !.needs = auth # proc.applied.auth,
                                    !.changed = IF changed THEN "yes" ELSE "no"]
                    /\ UNCHANGED spent
                 \/ /\ enroll' = [enroll EXCEPT !.pc = "done", !.changed = "unknown"]
                    /\ Fault

\* The restart is asked of exactly this runtime, for exactly this trust.
EnrollRestart ==
  /\ enroll.pc = "restart" /\ UNCHANGED <<Settings, run, holders, node>>
  /\ \/ /\ ~(Accepting /\ enroll.run = run /\ file.auth = enroll.prepared)
        /\ enroll' = [enroll EXCEPT !.pc = "done", !.restarted = "unknown"]
        /\ UNCHANGED <<proc, did, spent>>
     \/ /\ Accepting /\ enroll.run = run /\ file.auth = enroll.prepared
        /\ proc' = [proc EXCEPT !.restart = TRUE]
        /\ did' = [did EXCEPT !.restarted = TRUE]
        /\ \/ /\ enroll' = [enroll EXCEPT !.pc = "poll", !.restarted = "yes"]
              /\ UNCHANGED spent
           \/ /\ enroll' = [enroll EXCEPT !.pc = "done", !.restarted = "unknown"]
              /\ Fault

\* Variant: what the runtime applied is enough, whatever the file says by now.
AppliedButNotSaved == proc.applied.auth = enroll.prepared

\* The runtime's own policy and the file both hold the prepared trust.
AppliedAsPrepared == /\ file.auth = enroll.prepared
                     /\ proc.applied.auth = enroll.prepared

\* A status of the runtime that must have applied it decides; others are skipped.
EnrollPoll ==
  /\ enroll.pc = "poll" /\ UNCHANGED <<Settings, proc, run, holders, node, spent>>
  /\ \/ node.run # enroll.noderun /\ Ends /\ UNCHANGED did
     \/ /\ node.run = enroll.noderun /\ Accepting
        /\ enroll.needs = (run # enroll.run)
        /\ IF AppliedAsPrepared
           THEN /\ enroll' = [enroll EXCEPT !.pc = "save"]
                /\ did' = [did EXCEPT !.verified = IF file.auth = proc.applied.auth
                                                  THEN file.auth ELSE None]
           ELSE Ends /\ UNCHANGED did
     \/ Ends /\ UNCHANGED did              \* forty-five seconds are over

\* Variant: the pairing is saved over whatever the node has now.
UnchangedSinceAny == TRUE

\* Nothing of the node's connection changed since the snapshot.
UnchangedSince == node.run = enroll.noderun /\ node.conn = enroll.conn

EnrollSave ==
  /\ enroll.pc = "save" /\ UNCHANGED <<Settings, proc, run, holders, spent>>
  /\ IF UnchangedSince
     THEN /\ node' = [run |-> node.run + 1, conn |-> node.conn + 1,
                      paired |-> enroll.prepared.cred]
          /\ did' = [did EXCEPT !.overwrote = node.conn # enroll.conn]
          /\ enroll' = [enroll EXCEPT !.pc = "done", !.saved = "yes"]
     ELSE /\ enroll' = [enroll EXCEPT !.pc = "done", !.saved = "unknown"]
          /\ UNCHANGED <<node, did>>

\* Somebody edits the node's connection, or the node restarts.
NodeChanges ==
  /\ Fault
  /\ \/ node' = [node EXCEPT !.conn = @ + 1]
     \/ node' = [node EXCEPT !.run = @ + 1]
  /\ UNCHANGED <<Settings, proc, run, holders, enroll, did>>

Next == \/ LoadConfig \/ OpenJournal \/ ProcessEnds \/ RequestRestart \/ Shutdown
        \/ Drain \/ StoreDropped \/ Retire \/ RetirementTimesOut
        \/ SchedulingCommand \/ DiscoveryCommand \/ CredentialCommand
        \/ LoadPage \/ SaveConfiguration \/ FlagPending
        \/ EnrollBegin \/ EnrollPrepare \/ EnrollRestart \/ EnrollPoll \/ EnrollSave
        \/ NodeChanges

Spec == Init /\ [][Next]_vars

----------------------------------------------------------------------------
(* Properties                                                              *)

\* The process never ends its own restart by finding the journal still owned by
\* the runtime it just shut down (Runtime::retire, JournalRetirement::wait).
RestartNeverSelfDefeated == proc.exit # "journal_busy"

\* A settings page saved late never undoes what the scheduling and credential
\* commands saved meanwhile, and as long as the file differs from what runs, the
\* status says that a restart is pending (save_configuration, pending_restart).
SettingsKept == /\ file.sched = edits.sched /\ file.auth = edits.auth
                /\ proc.pc = "serving" /\ proc.handler = None /\ file # proc.applied
                     => proc.pending

\* A node is paired only with trust that a runtime had saved and applied, and never
\* over connection settings somebody changed during the enrollment
\* (enroll_local_on, save_credential_pair_checked).
PairedAsVerified ==
  /\ node.paired # None => did.verified # None /\ node.paired = did.verified.cred
                             /\ node.paired # Revoked
  /\ ~did.overwrote

\* The enrollment's report claims no more than it knows: what it says was or was
\* not changed, requested and saved is so.
EnrollmentToldTruth ==
  enroll.pc = "done" =>
    /\ enroll.changed # "unknown" => (enroll.changed = "yes") = did.changed
    /\ enroll.restarted # "unknown" => (enroll.restarted = "yes") = did.restarted
    /\ enroll.saved # "unknown" => (enroll.saved = "yes") = (node.paired # None)

=============================================================================
