---------------------------- MODULE ModelChecks ----------------------------
(***************************************************************************)
(* The owner's one fixed inference check of a node's request interpreter.  *)
(* A verification (eef/src/model_verification.rs) saves its intent, has    *)
(* the node prepare a source request (eefn/src/model_verification.rs),     *)
(* approves and executes it, and afterwards only inspects.  A setup check  *)
(* (setup_model_check*.rs) is a consent that a worker keeps until the      *)
(* chosen model is applied, when it launches that same verification.       *)
(*                                                                         *)
(* Replies are lost, the node and the coordinator restart, the node's      *)
(* owner prepares or the coordinator's owner executes a source themselves, *)
(* and a finished source may be removed, all between any two steps.        *)
(***************************************************************************)
EXTENDS Naturals, FiniteSets

CONSTANTS Ops,          \* operation ids of checks, all of one node
          Models,       \* models the node may apply as its interpreter
          MaxActive,    \* setup checks that may wait at once
          MaxCalls,     \* bound: commands of the owner
          MaxFaults,    \* bound: restarts, reselections and other meddling
          None

VARIABLES run,      \* runtime ids: the coordinator's and the node's
          node,     \* the applied interpreter, and the management consent
          closing,  \* the setup-check manager is closing
          checks,   \* retained setup-check records
          active,   \* operations the manager believes to have a worker
          worker,   \* the setup-check workers
          calls,    \* verification commands in progress, by caller
          lock,     \* the caller that owns the verification workflow
          intents,  \* retained verification intents
          plans,    \* the source requests in the job journal
          prep,     \* the preparation the node is busy with
          answer,   \* what became of the inference, by the node's own journal
          asked,    \* history: executions that checks requested
          said,     \* history: the last report of each operation
          spent     \* bounds: owner commands and faults so far
vars == <<run, node, closing, checks, active, worker, calls, lock, intents,
          plans, prep, answer, asked, said, spent>>

Owner == "owner"
Callers == {Owner} \cup Ops          \* a worker is named by its operation
Finals == {"text", "empty", "failed"}

Init == /\ run = [coord |-> 1, node |-> 1]
        /\ node \in [model : Models \cup {None}, consent : {TRUE}]
        /\ closing = FALSE
        /\ checks = [o \in Ops |-> None] /\ active = {}
        /\ worker = [o \in Ops |-> None]
        /\ calls = [c \in Callers |-> None] /\ lock = None
        /\ intents = [o \in Ops |-> None] /\ plans = [o \in Ops |-> None]
        /\ prep = None
        /\ answer = [o \in Ops |-> None] /\ asked = [o \in Ops |-> 0]
        /\ said = [o \in Ops |-> None]
        /\ spent = [calls |-> 0, faults |-> 0]

Command == spent.calls < MaxCalls /\ spent' = [spent EXCEPT !.calls = @ + 1]
Fault == spent.faults < MaxFaults /\ spent' = [spent EXCEPT !.faults = @ + 1]
Definition(m, r) == [model |-> m, run |-> r]

----------------------------------------------------------------------------
(* Verification: one command of a caller, from its lock to its report.     *)

Call(o, kind, d, pc) == [op |-> o, kind |-> kind, def |-> d, pc |-> pc, reply |-> None]
Unlocked(c) == IF lock = c THEN None ELSE lock

\* The report ends the call.  A worker goes on with it, the owner reads it.
Reply(c, state) ==
  LET o == calls[c].op
  IN  /\ calls' = [calls EXCEPT ![c] = None]
      /\ lock' = Unlocked(c)
      /\ IF c = Owner
         THEN /\ said' = [said EXCEPT ![o] = [state |-> state, result |-> answer[o]]]
              /\ UNCHANGED worker
         ELSE /\ worker' = [worker EXCEPT ![c].pc = IF state = "running" THEN "again" ELSE "finish",
                                          ![c].outcome = [state |-> state, result |-> answer[o]]]
              /\ UNCHANGED said

Goto(c, pc) == /\ calls' = [calls EXCEPT ![c].pc = pc]
               /\ UNCHANGED <<lock, worker, said>>

\* An error of any stage is reported as unconfirmed, never as a failure.
Unconfirmed(c) == Reply(c, "unconfirmed")

\* The owner starts a check of an exact model, of whatever is selected, or reads.
Ask(o, kind, d) ==
  /\ calls[Owner] = None /\ Command
  /\ calls' = [calls EXCEPT ![Owner] =
                 Call(o, kind, d, IF kind = "inspect" THEN "observe" ELSE "begin")]
  /\ UNCHANGED <<run, node, closing, checks, active, worker, lock, intents,
                 plans, prep, answer, asked, said>>

\* The definition an earlier command left: its intent, or a source without one.
Retained(o) == IF intents[o] # None THEN intents[o]
               ELSE IF plans[o] # None THEN plans[o].def ELSE None

\* start_model_verification: busy, conflicting, historical, or a new check.
Begin(c) ==
  /\ calls[c] # None /\ calls[c].pc = "begin"
  /\ LET o == calls[c].op
         kept == Retained(o)
     IN  IF lock # None THEN Unconfirmed(c)
         ELSE IF kept # None
         THEN IF calls[c].kind = "start" /\ kept # calls[c].def THEN Unconfirmed(c)
              ELSE /\ calls' = [calls EXCEPT ![c].pc = "observe"]
                   /\ lock' = c /\ UNCHANGED <<worker, said>>
         ELSE /\ calls' = [calls EXCEPT ![c].pc =
                             IF calls[c].kind = "start" THEN "reserve" ELSE "setup"]
              /\ lock' = c /\ UNCHANGED <<worker, said>>
  /\ UNCHANGED <<run, node, closing, checks, active, intents, plans, prep,
                 answer, asked, spent>>

\* selected_on, first read: exactly one applied interpreter, or not ready.
ReadSetup(c) ==
  /\ calls[c] # None /\ calls[c].pc = "setup"
  /\ \/ Unconfirmed(c)
     \/ node.model = None /\ Reply(c, "not_ready")
     \/ /\ node.model # None
        /\ calls' = [calls EXCEPT ![c].pc = "consent",
                                  ![c].def = Definition(node.model, run.node)]
        /\ UNCHANGED <<lock, worker, said>>
  /\ UNCHANGED <<run, node, closing, checks, active, intents, plans, prep,
                 answer, asked, spent>>

\* Second read, pinned to the runtime that the first one observed.
ReadConsent(c) ==
  /\ calls[c] # None /\ calls[c].pc = "consent"
  /\ \/ Unconfirmed(c)
     \/ calls[c].def.run = run.node /\ ~node.consent /\ Reply(c, "not_ready")
     \/ calls[c].def.run = run.node /\ node.consent /\ Goto(c, "reserve")
  /\ UNCHANGED <<run, node, closing, checks, active, intents, plans, prep,
                 answer, asked, spent>>

\* Variant: no intent is kept, only the plan tells that a check was made.
ReserveNothing(c) ==
  /\ calls[c] # None /\ calls[c].pc = "reserve" /\ Goto(c, "send")
  /\ UNCHANGED <<run, node, closing, checks, active, intents, plans, prep,
                 answer, asked, spent>>

\* The intent is saved before anything is asked of the node, and never removed.
ReserveIntent(c) ==
  /\ calls[c] # None /\ calls[c].pc = "reserve"
  /\ LET o == calls[c].op
     IN  \/ Unconfirmed(c) /\ UNCHANGED intents               \* history is full
         \/ /\ intents[o] = None
            /\ intents' = [intents EXCEPT ![o] = calls[c].def]
            /\ Goto(c, "send")
         \/ intents[o] = calls[c].def /\ Goto(c, "observe") /\ UNCHANGED intents
  /\ UNCHANGED <<run, node, closing, checks, active, plans, prep, answer,
                 asked, spent>>

\* The request reaches the node once, or not at all; the call only waits.
Send(c) ==
  /\ calls[c] # None /\ calls[c].pc = "send"
  /\ \/ Unconfirmed(c) /\ UNCHANGED prep
     \/ /\ prep = None
        /\ prep' = [op |-> calls[c].op, def |-> calls[c].def, for |-> c, pc |-> "admit"]
        /\ Goto(c, "wait")
  /\ UNCHANGED <<run, node, closing, checks, active, intents, plans, answer,
                 asked, spent>>

\* The reply is lost or late; a preparation on its way may still arrive.
LoseReply(c) ==
  /\ calls[c] # None /\ calls[c].pc = "wait"
  /\ Unconfirmed(c)
  /\ UNCHANGED <<run, node, closing, checks, active, intents, plans, prep,
                 answer, asked, spent>>

----------------------------------------------------------------------------
(* The node prepares the source, for the coordinator or for its own owner. *)

LocalPrepare(o, m) ==
  /\ prep = None /\ Fault
  /\ prep' = [op |-> o, def |-> Definition(m, run.node), for |-> None, pc |-> "admit"]
  /\ UNCHANGED <<run, node, closing, checks, active, worker, calls, lock,
                 intents, plans, answer, asked, said>>

\* Admission: this runtime, the exact single interpreter, and the owner's consent.
Admissible(p) == /\ p.def.run = run.node /\ p.def.model = node.model
                 /\ p.for # None => node.consent

Answered(p, reply) ==
  IF p.for # None /\ calls[p.for] # None /\ calls[p.for].pc = "wait" /\ calls[p.for].op = p.op
  THEN [calls EXCEPT ![p.for].pc = "prepared", ![p.for].reply = reply] ELSE calls
Refused == [ok |-> FALSE, reused |-> FALSE, run |-> 0]

Admit ==
  /\ prep # None /\ prep.pc = "admit"
  /\ IF Admissible(prep)
     THEN prep' = [prep EXCEPT !.pc = "submit"] /\ UNCHANGED calls
     ELSE prep' = None /\ calls' = Answered(prep, Refused)
  /\ UNCHANGED <<run, node, closing, checks, active, worker, lock, intents,
                 plans, answer, asked, said, spent>>

\* The submission creates the plan, finds it already made, or conflicts with it.
Submit ==
  /\ prep # None /\ prep.pc = "submit"
  /\ LET o == prep.op
         fresh == plans[o] = None
         same == ~fresh /\ plans[o].def = prep.def
     IN  /\ plans' = IF fresh
                     THEN [plans EXCEPT ![o] =
                             [def |-> prep.def, via |-> prep.for, run |-> run.coord,
                              status |-> "awaiting", by |-> None, report |-> None]]
                     ELSE plans
         /\ calls' = Answered(prep, IF fresh \/ same
                                    THEN [ok |-> TRUE, reused |-> same, run |-> run.coord]
                                    ELSE Refused)
  /\ prep' = None
  /\ UNCHANGED <<run, node, closing, checks, active, worker, lock, intents,
                 answer, asked, said, spent>>

----------------------------------------------------------------------------
(* The coordinator approves and executes only what it just had prepared.   *)

\* Variant: a source that already existed is approved like a fresh one.
FreshOrReused(c) ==
  LET p == plans[calls[c].op]
  IN  /\ calls[c].reply.ok
      /\ p # None /\ p.def = calls[c].def /\ p.status = "awaiting"

\* A fresh source of this runtime, exactly as asked for, still to be approved.
Fresh(c) ==
  LET p == plans[calls[c].op]
  IN  /\ calls[c].reply.ok /\ ~calls[c].reply.reused /\ calls[c].reply.run = run.coord
      /\ p # None /\ p.def = calls[c].def /\ p.status = "awaiting"

Prepared(c) ==
  /\ calls[c] # None /\ calls[c].pc = "prepared"
  /\ LET r == calls[c].reply
     IN  IF Fresh(c) THEN Goto(c, "approve")
         ELSE IF r.ok /\ r.reused /\ r.run = run.coord THEN Goto(c, "observe")
         ELSE Unconfirmed(c)
  /\ UNCHANGED <<run, node, closing, checks, active, intents, plans, prep,
                 answer, asked, spent>>

\* The approval names the revision that was read; any other change refuses it.
Approve(c) ==
  /\ calls[c] # None /\ calls[c].pc = "approve"
  /\ LET o == calls[c].op
     IN  \/ Unconfirmed(c) /\ UNCHANGED plans
         \/ /\ plans[o] # None /\ plans[o].status = "awaiting" /\ plans[o].by = None
            /\ plans' = [plans EXCEPT ![o].status = "approved", ![o].by = c]
            /\ Goto(c, "execute")
  /\ UNCHANGED <<run, node, closing, checks, active, intents, prep, answer,
                 asked, spent>>

\* The approval read back must be this one, still active and unexecuted.
Execute(c) ==
  /\ calls[c] # None /\ calls[c].pc = "execute"
  /\ LET o == calls[c].op
     IN  \/ Unconfirmed(c) /\ UNCHANGED <<plans, asked>>
         \/ /\ plans[o] # None /\ plans[o].status = "approved" /\ plans[o].by = c
            /\ plans' = [plans EXCEPT ![o].status = "running"]
            /\ asked' = [asked EXCEPT ![o] = @ + 1]
            /\ Goto(c, "observe")
  /\ UNCHANGED <<run, node, closing, checks, active, intents, prep, answer, spent>>

\* What the journal alone says of a check.
JournalState(o) ==
  LET p == plans[o]
  IN  IF p = None THEN IF intents[o] = None THEN "not_found" ELSE "unknown"
      ELSE IF p.report # None THEN p.report
      ELSE CASE p.status = "awaiting" -> "awaiting"
             [] p.status = "approved" -> "approved"
             [] p.status = "running" -> "running"
             [] p.status = "cancelled" -> "failed"
             [] OTHER -> "unknown"

\* observe_model_verification: an intent and a source that differ are an error,
\* and an attempt without a certain local report is looked up on the node.
Observe(c) ==
  /\ calls[c] # None /\ calls[c].pc = "observe"
  /\ LET o == calls[c].op
         p == plans[o]
     IN  IF p # None /\ intents[o] # None /\ p.def # intents[o] THEN Unconfirmed(c)
         ELSE IF p # None /\ p.status \in {"running", "interrupted"} THEN Goto(c, "lookup")
         ELSE Reply(c, JournalState(o))
  /\ UNCHANGED <<run, node, closing, checks, active, intents, plans, prep,
                 answer, asked, spent>>

\* Variant: an unanswered lookup is taken for a check that failed.
LookupFailed(c) == Reply(c, "failed")

\* An unanswered lookup proves nothing.
LookupLost(c) == Unconfirmed(c)

Lookup(c) ==
  /\ calls[c] # None /\ calls[c].pc = "lookup"
  /\ LET o == calls[c].op
     IN  \/ LookupLost(c)
         \/ answer[o] \in Finals /\ Reply(c, answer[o])
         \/ answer[o] \notin Finals /\ Reply(c, JournalState(o))
  /\ UNCHANGED <<run, node, closing, checks, active, intents, plans, prep,
                 answer, asked, spent>>

----------------------------------------------------------------------------
(* Setup checks: a consent, its worker, and the race with cancellation.    *)

Live(o) == checks[o].state \in {"waiting", "launching"}

Worker == [pc |-> "poll", cancelled |-> FALSE, def |-> None, outcome |-> None,
           expired |-> FALSE]

\* prepare: an existing consent is only read; workers whose record is settled
\* no longer count; then capacity, an intent's history, the record, the worker.
\* The task that would own the worker may turn out to be closing.
Arm(o, m) ==
  /\ Command
  /\ checks[o] = None
  /\ LET kept == {a \in active : Live(a)}
     IN  /\ ~closing /\ Cardinality(kept) < MaxActive /\ kept = {}
         /\ intents[o] = None
         /\ checks' = [checks EXCEPT ![o] =
                         [model |-> m, owner |-> run.coord, state |-> "waiting", outcome |-> None]]
         /\ \/ active' = kept \cup {o} /\ worker' = [worker EXCEPT ![o] = Worker]
            \/ active' = kept /\ UNCHANGED worker
  /\ UNCHANGED <<run, node, closing, calls, lock, intents, plans, prep, answer,
                 asked, said>>

\* Variant: a wait is cancelled even after its launch was claimed.
CancellableAlways(o) == checks[o] # None /\ Live(o)

Cancellable(o) == checks[o] # None /\ checks[o].state = "waiting"

\* The record decides, whoever owned it; then the worker is told.
CancelWait(o) ==
  /\ Cancellable(o) /\ Command
  /\ checks' = [checks EXCEPT ![o].state = "cancelled"]
  /\ worker' = IF worker[o] = None THEN worker ELSE [worker EXCEPT ![o].cancelled = TRUE]
  /\ UNCHANGED <<run, node, closing, active, calls, lock, intents, plans, prep,
                 answer, asked, said>>

Gone(o) == /\ worker' = [worker EXCEPT ![o] = None]
           /\ active' = active \ {o}

Poll(o) ==
  /\ worker[o] # None /\ worker[o].pc = "poll"
  /\ \/ worker[o].cancelled /\ Gone(o)
     \/ /\ ~worker[o].cancelled /\ UNCHANGED active
        /\ \/ UNCHANGED worker                 \* not ready or unconfirmed: wait
           \/ /\ node.model # None
              /\ worker' = [worker EXCEPT ![o].pc = "selected",
                                          ![o].def = Definition(node.model, run.node)]
  /\ UNCHANGED <<run, node, closing, checks, calls, lock, intents, plans, prep,
                 answer, asked, said, spent>>

\* Variant: the wait goes on to any applied interpreter.
ChosenAny(o) == TRUE

\* Only the model the consent names.
Chosen(o) == worker[o].def.model = checks[o].model

\* launch_setup_model_check: one update decides between launch and cancellation.
Claimed(o) == checks[o].owner = run.coord /\ checks[o].state = "waiting"

Launch(o) ==
  /\ worker[o] # None /\ worker[o].pc = "selected"
  /\ \/ /\ \/ ~Chosen(o)
           \/ ~(node.consent /\ worker[o].def.run = run.node)
        /\ worker' = [worker EXCEPT ![o].pc = "poll", ![o].def = None]
        /\ UNCHANGED <<checks, calls, active>>
     \/ /\ Chosen(o) /\ node.consent /\ worker[o].def.run = run.node
        /\ IF Claimed(o)
           THEN /\ checks' = [checks EXCEPT ![o].state = "launching"]
                /\ worker' = [worker EXCEPT ![o].pc = "infer"]
                /\ calls' = [calls EXCEPT ![o] = Call(o, "start", worker[o].def, "begin")]
                /\ UNCHANGED active
           ELSE Gone(o) /\ UNCHANGED <<checks, calls>>
  /\ UNCHANGED <<run, node, closing, lock, intents, plans, prep, answer, asked,
                 said, spent>>

\* While the check is running the worker inspects it again.
Again(o) ==
  /\ worker[o] # None /\ worker[o].pc = "again"
  /\ worker' = [worker EXCEPT ![o].pc = "infer"]
  /\ calls' = [calls EXCEPT ![o] = Call(o, "inspect", worker[o].def, "observe")]
  /\ UNCHANGED <<run, node, closing, checks, active, lock, intents, plans, prep,
                 answer, asked, said, spent>>

\* The deadline drops whatever the worker was doing, a verification included.
Deadline(o) ==
  /\ worker[o] # None /\ worker[o].pc # "finish" /\ Fault
  /\ worker' = [worker EXCEPT ![o].pc = "finish", ![o].expired = TRUE, ![o].outcome = None]
  /\ calls' = [calls EXCEPT ![o] = None]
  /\ lock' = Unlocked(o)
  /\ UNCHANGED <<run, node, closing, checks, active, intents, plans, prep,
                 answer, asked, said>>

\* Variant: an outcome that is not final still finishes the check.
FinishedAny(w) == w.outcome # None

\* Only a certain outcome before the deadline finishes a check.
Finished(w) == ~w.expired /\ w.outcome # None /\ w.outcome.state \in Finals

\* finish_setup_model_check; the write may fail, and nothing retries it.
Finish(o) ==
  /\ worker[o] # None /\ worker[o].pc = "finish"
  /\ LET w == worker[o]
         s == checks[o].state
         next == CASE s = "waiting" /\ w.expired -> "expired"
                   [] s = "launching" /\ Finished(w) -> "finished"
                   [] s \in {"waiting", "launching"} -> "unknown"
                   [] OTHER -> s
     IN  \/ UNCHANGED checks
         \/ checks' = [checks EXCEPT ![o].state = next,
                                     ![o].outcome = IF Live(o) THEN w.outcome ELSE @]
  /\ Gone(o)
  /\ UNCHANGED <<run, node, closing, calls, lock, intents, plans, prep, answer,
                 asked, said, spent>>

----------------------------------------------------------------------------
(* Execution of the source, its owner, restarts.                           *)

Infer(o) ==
  /\ plans[o] # None /\ plans[o].status = "running" /\ answer[o] = None
  /\ node.model = plans[o].def.model
  /\ answer' = [answer EXCEPT ![o] = "started"]
  /\ UNCHANGED <<run, node, closing, checks, active, worker, calls, lock,
                 intents, plans, prep, asked, said, spent>>

Answer(o, result) ==
  /\ answer[o] = "started"
  /\ answer' = [answer EXCEPT ![o] = result]
  /\ UNCHANGED <<run, node, closing, checks, active, worker, calls, lock,
                 intents, plans, prep, asked, said, spent>>

Deliver(o) ==
  /\ plans[o] # None /\ plans[o].status = "running" /\ answer[o] \in Finals
  /\ plans' = [plans EXCEPT ![o].status = "ended", ![o].report = answer[o]]
  /\ UNCHANGED <<run, node, closing, checks, active, worker, calls, lock,
                 intents, prep, answer, asked, said, spent>>

\* The owner handles the source like any request: approves, executes or abandons
\* it, or removes it once it ended, when its answer is no longer looked up.
OwnerActs(o, act) ==
  /\ plans[o] # None /\ Fault
  /\ \/ /\ act = "approve" /\ plans[o].status = "awaiting"
        /\ plans' = [plans EXCEPT ![o].status = "approved"] /\ UNCHANGED answer
     \/ /\ act = "execute" /\ plans[o].status = "approved"
        /\ plans' = [plans EXCEPT ![o].status = "running"] /\ UNCHANGED answer
     \/ /\ act = "abandon" /\ plans[o].status \in {"awaiting", "approved"}
        /\ plans' = [plans EXCEPT ![o].status = "cancelled"] /\ UNCHANGED answer
     \/ /\ act = "remove" /\ plans[o].status \in {"ended", "cancelled"}
        /\ plans' = [plans EXCEPT ![o] = None] /\ answer' = [answer EXCEPT ![o] = None]
  /\ UNCHANGED <<run, node, closing, checks, active, worker, calls, lock,
                 intents, prep, asked, said>>

\* The node restarts or applies another selection or consent; a restart ends
\* the preparation in progress.
ChangeNode(n) ==
  /\ Fault /\ node' = n
  /\ run' = [run EXCEPT !.node = @ + 1]
  /\ prep' = None
  /\ calls' = IF prep = None THEN calls ELSE Answered(prep, Refused)
  /\ UNCHANGED <<closing, checks, active, worker, lock, intents, plans, answer,
                 asked, said>>

\* Shutdown closes the manager and aborts its workers and their calls.
Close ==
  /\ ~closing /\ Fault
  /\ closing' = TRUE
  /\ worker' = [o \in Ops |-> None] /\ active' = {}
  /\ calls' = [c \in Callers |-> IF c = Owner THEN calls[c] ELSE None]
  /\ lock' = IF lock \in Ops THEN None ELSE lock
  /\ UNCHANGED <<run, node, checks, intents, plans, prep, answer, asked, said>>

\* The next process, after a shutdown or a crash: only the journal is left.
Restart ==
  /\ IF closing THEN UNCHANGED spent ELSE Fault
  /\ run' = [run EXCEPT !.coord = @ + 1]
  /\ closing' = FALSE
  /\ worker' = [o \in Ops |-> None] /\ active' = {}
  /\ calls' = [c \in Callers |-> None] /\ lock' = None
  /\ plans' = [o \in Ops |-> IF plans[o] # None /\ plans[o].status = "running"
                             THEN [plans[o] EXCEPT !.status = "interrupted"] ELSE plans[o]]
  /\ UNCHANGED <<node, checks, intents, prep, answer, asked, said>>

Next ==
  \/ \E o \in Ops :
       \/ \E m \in Models : \/ Arm(o, m) \/ LocalPrepare(o, m)
                            \/ Ask(o, "start", Definition(m, run.node))
       \/ Ask(o, "selected", None) \/ Ask(o, "inspect", None)
       \/ CancelWait(o) \/ Poll(o) \/ Launch(o) \/ Again(o) \/ Deadline(o) \/ Finish(o)
       \/ Infer(o) \/ Deliver(o)
       \/ \E act \in {"approve", "execute", "abandon", "remove"} : OwnerActs(o, act)
       \/ \E result \in Finals \cup {"unknown"} : Answer(o, result)
  \/ \E c \in Callers :
       \/ Begin(c) \/ ReadSetup(c) \/ ReadConsent(c) \/ ReserveIntent(c) \/ Send(c)
       \/ LoseReply(c) \/ Prepared(c) \/ Approve(c) \/ Execute(c) \/ Observe(c) \/ Lookup(c)
  \/ Admit \/ Submit \/ Close \/ Restart
  \/ \E n \in [model : Models \cup {None}, consent : BOOLEAN] : ChangeNode(n)

Spec == Init /\ [][Next]_vars

----------------------------------------------------------------------------
(* Properties                                                              *)

\* However often an operation is armed, started, lost, inspected or resumed, and
\* even when its source was removed, checks request at most one execution for it
\* (model_verification_intents.rs reserve_model_verification_intent).
CheckedAtMostOnce == \A o \in Ops : asked[o] <= 1

\* A check approves only the source that it had prepared itself, for the very
\* model and node runtime of its intent: one that the node's owner prepared in
\* the meantime stays with its owner (start_model_verification, creation_reused).
OwnSourceOnly ==
  \A o \in Ops : plans[o] # None /\ plans[o].by # None =>
    /\ plans[o].via = plans[o].by /\ plans[o].def = intents[o]
    /\ plans[o].by = o => checks[o] # None /\ plans[o].def.model = checks[o].model

\* A wait that was cancelled or expired never launches its check: no worker of
\* it requests a verification any more (launch_ and cancel_setup_model_check_wait).
CancelledNeverLaunches ==
  \A o \in Ops : checks[o] # None /\ checks[o].state \in {"cancelled", "expired"} =>
    /\ calls[o] = None
    /\ plans[o] # None => plans[o].by # o

\* Text is reported, and a setup check finished with it, only if the node's own
\* journal has it; a report of failure never hides text or a running inference
\* (observe_model_verification, finish_setup_model_check).
ChecksReportTruth ==
  LET True(report) == /\ report.state = "text" => report.result = "text"
                      /\ report.state = "failed" => report.result \notin {"text", "started"}
                      /\ report.state = "not_found" => report.result = None
  IN  \A o \in Ops :
        /\ said[o] # None => True(said[o])
        /\ checks[o] # None /\ checks[o].state = "finished" =>
             checks[o].outcome.state \in Finals /\ True(checks[o].outcome)

=============================================================================
