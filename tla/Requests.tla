------------------------------ MODULE Requests ------------------------------
(***************************************************************************)
(* A request on its way from an operator's text to an approved plan.       *)
(* eef keeps it as one journal record (the draft with its proposals and    *)
(* answers, then the compiled plan, then the owner's approval) that every  *)
(* edit moves to the next revision.  The origin node edits it with single  *)
(* commands and with two workflows that chain several: an input opens and  *)
(* prepares, a response answers, resolves and prepares.  Every command     *)
(* names a receipt and the revision it was made from.  The node asks once: *)
(* a reply may be lost, the runtime may be replaced while the command is   *)
(* on its way, and the operator may repeat the command later.              *)
(*                                                                         *)
(* One request is followed; `runs` are the node's calls, numbered.         *)
(***************************************************************************)
EXTENDS Naturals, Sequences, FiniteSets

CONSTANTS None,
          Ids,       \* receipts the operator chooses; Opening is the request's own
          Opening,
          Texts,     \* operator texts
          MaxRuns,   \* bound on the node's calls
          MaxRuntime \* bound on the runtimes a node goes through

VARIABLES plan,     \* the journal record, None before the opening
          calls,    \* commands eef has received and not answered
          runs,     \* the node's calls: what each knows and reports
          runtime,  \* the node's runtime generation
          policy,   \* the applied input policy
          applied   \* history: which call of the node changed the record

vars == <<plan, calls, runs, runtime, policy, applied>>

(***************************************************************************)
(* Receipts                                                                *)
(***************************************************************************)

Own(id) == <<id, "own", 0>>

\* request_response::stage_receipt
StageReceipt(id, stage, rev) == <<id, stage, rev>>

\* request_input::preparation_receipt
PreparationReceipt(id) == <<id, "input", 0>>

\* request_submission::compilation_receipt
CompilationReceipt(id) == <<id, "compile", 0>>

(***************************************************************************)
(* The retained draft                                                      *)
(***************************************************************************)

Last(s) == s[Len(s)]

\* DraftRecord::current: the latest proposal asks for clarification.
Asking(p) == Last(p.proposals).ask

\* DraftRecord::resolvable: the question asked last has an answer.
Resolvable(p) ==
    /\ Asking(p)
    /\ \E i \in DOMAIN p.answers : p.answers[i].index = Len(p.proposals)

\* request_preparation::eligible
Eligible(p) == ~p.concrete /\ ~Asking(p)

ReceiptsOf(s) == [i \in DOMAIN s |-> s[i].op]
Has(s, op) == \E i \in DOMAIN s : s[i].op = op
At(s, op) == s[CHOOSE i \in DOMAIN s : s[i].op = op]

\* source_digest: receipts identify a draft's entries, so they stand for its text.
Digest(p) == <<ReceiptsOf(p.proposals), ReceiptsOf(p.answers)>>

Extends(s, t) == Len(s) <= Len(t) /\ SubSeq(t, 1, Len(s)) = s

\* DraftRecord::same_opening
SameOpening(p, c) ==
    /\ p.text = c.text
    /\ p.concrete = (c.kind = "concrete")
    /\ p.proposals[1].ask = c.ask

\* store_review
Opened(c) ==
    [status |-> "review", rev |-> 1, text |-> c.text, concrete |-> c.kind = "concrete",
     proposals |-> <<[op |-> Own(Opening), ask |-> c.ask, rev |-> 0, how |-> "open", from |-> None]>>,
     answers |-> <<>>, planning |-> None, approval |-> None]

(***************************************************************************)
(* eef: one edit per command, checked again inside the edit                *)
(***************************************************************************)

Present == plan # None
InReview(c) == Present /\ plan.status = "review" /\ plan.rev = c.rev

\* The command's receipt is retained with exactly this content: nothing changes.
SameAnswer(c) ==
    /\ Has(plan.answers, c.op)
    /\ At(plan.answers, c.op).text = c.text /\ At(plan.answers, c.op).rev = c.rev

SameProposal(c) ==
    /\ Has(plan.proposals, c.op)
    /\ LET p == At(plan.proposals, c.op) IN
        /\ p.ask = c.ask /\ p.how \in {"open", "revise", "resolve"}
        /\ (p.how = "resolve") = (c.kind = "resolve")
        /\ c.kind = "resolve" => p.rev = c.rev /\ p.from = c.from

SamePlanning(c) ==
    /\ plan.planning # None
    /\ plan.planning.op = c.op /\ plan.planning.rev = c.rev
    /\ plan.planning.from = c.from

\* exact_receipt
SameCheckpoint(c) ==
    \/ ~c.ask /\ c.from # None /\ SamePlanning(c)
    \/ /\ c.ask /\ Has(plan.proposals, c.op)
       /\ At(plan.proposals, c.op).how = "question" /\ At(plan.proposals, c.op).from = c.from
       /\ At(plan.proposals, c.op).rev = c.rev

\* ApprovalRecord::confirms
SameApproval(c) == plan.approval # None /\ plan.approval.op = c.op /\ plan.approval.rev = c.rev

Same(c) ==
    /\ Present
    /\ CASE c.kind = "open" -> SameOpening(plan, c)
         [] c.kind = "answer" -> SameAnswer(c)
         [] c.kind \in {"revise", "resolve"} -> SameProposal(c)
         [] c.kind \in {"compile", "concrete"} -> SamePlanning(c)
         [] c.kind = "prepare" -> SameCheckpoint(c)
         [] c.kind = "approve" -> SameApproval(c)

\* Variant: only proposals are searched for the receipt.
UnusedByProposals(c) == ~Has(plan.proposals, c.op)

\* The receipt is not one the draft already uses for something else.
Unused(c) == ~Has(plan.proposals, c.op) /\ ~Has(plan.answers, c.op)

\* request_drafts::command
AnswerAdmitted(c) == InReview(c) /\ Unused(c) /\ Asking(plan)

\* Revise and Resolve: the proposal is validated again before it is kept.
ProposalAdmitted(c) ==
    /\ InReview(c) /\ Unused(c)
    /\ c.kind = "resolve" => Resolvable(plan) /\ c.from = Digest(plan)

\* planning_command_scoped, with validate_preparation and validate_retained.
CompileAdmitted(c) ==
    /\ InReview(c) /\ plan.planning = None /\ Unused(c)
    /\ ~Asking(plan)
    /\ c.from # None => c.from = Digest(plan) /\ Eligible(plan)

\* question_checkpoint
QuestionAdmitted(c) ==
    /\ InReview(c) /\ plan.planning = None /\ Unused(c)
    /\ Eligible(plan) /\ c.from = Digest(plan)

\* request_approval::approve and checkpoint
ApprovalAdmitted(c) ==
    /\ Present /\ plan.approval = None
    /\ plan.status = "awaiting_approval" /\ plan.rev = c.rev

Admitted(c) ==
    CASE c.kind = "open" -> ~Present
      [] c.kind = "answer" -> AnswerAdmitted(c)
      [] c.kind \in {"revise", "resolve"} -> ProposalAdmitted(c)
      [] c.kind \in {"compile", "concrete"} -> CompileAdmitted(c)
      [] c.kind = "prepare" -> IF c.ask THEN QuestionAdmitted(c) ELSE CompileAdmitted(c)
      [] c.kind = "approve" -> ApprovalAdmitted(c)

AnswerSaved(c) ==
    [plan EXCEPT !.rev = @ + 1,
                 !.answers = Append(@, [op |-> c.op, text |-> c.text, rev |-> c.rev,
                                        index |-> Len(plan.proposals), from |-> Digest(plan)])]

ProposalSaved(c, how) ==
    [plan EXCEPT !.rev = @ + 1,
                 !.proposals = Append(@, [op |-> c.op, ask |-> c.ask, rev |-> c.rev,
                                          how |-> how, from |-> c.from])]

\* The plan is built from the record read before the await: c.saved.
CompileSaved(c) ==
    [plan EXCEPT !.rev = @ + 1, !.status = "awaiting_approval",
                 !.planning = [op |-> c.op, rev |-> c.rev, from |-> c.from,
                               built |-> Digest(c.saved)]]

ApprovalSaved(c) ==
    [plan EXCEPT !.rev = @ + 1, !.status = "approved",
                 !.approval = [op |-> c.op, rev |-> c.rev, plan |-> c.saved.planning]]

Saved(c) ==
    CASE c.kind = "open" -> Opened(c)
      [] c.kind = "answer" -> AnswerSaved(c)
      [] c.kind \in {"revise", "resolve"} -> ProposalSaved(c, c.kind)
      [] c.kind \in {"compile", "concrete"} -> CompileSaved(c)
      [] c.kind = "prepare" -> IF c.ask THEN ProposalSaved(c, "question") ELSE CompileSaved(c)
      [] c.kind = "approve" -> ApprovalSaved(c)

\* After an await the edit also compares the source it was made from.
Unchanged(c) ==
    c.kind \in {"compile", "concrete", "prepare"} /\ c.saved # None => Digest(plan) = Digest(c.saved)

(***************************************************************************)
(* The node's side of a call                                               *)
(***************************************************************************)

Workflows == {"input", "respond"}
Direct == {"answer", "revise", "compile", "concrete"}  \* one submission, no runtime watched
Watched == Workflows \cup {"resolve", "prepare"}

FirstStage(kind) ==
    CASE kind = "input" -> "open" [] kind = "respond" -> "answer" [] OTHER -> kind

Running(r) == runs[r] # None /\ runs[r].at # "done"

\* input_workflow_permit; the interpreter's permit is a second one, kept by
\* resolve_request and prepare_request until their save is answered.
WorkflowFree == \A r \in DOMAIN runs : Running(r) => runs[r].kind \notin Workflows
Interpreting(r) ==
    /\ Running(r)
    /\ \/ runs[r].at = "infer"
       \/ runs[r].at = "wait" /\ runs[r].stage \in {"resolve", "prepare"}
InterpreterFree == \A r \in DOMAIN runs : ~Interpreting(r)

\* A watched call goes on only in the runtime it began in (within_runtime).
Alive(r) == Running(r) /\ (runs[r].kind \in Watched => runs[r].runtime = runtime)

Set(r, run) == runs' = [runs EXCEPT ![r] = run]

\* A report that is not a success; unknown is its outcome_unknown.
Ended(run) == [run EXCEPT !.at = "done", !.stage = FirstStage(run.kind), !.op = Own(run.id),
                          !.rev = run.asked, !.source = None, !.ask = FALSE, !.runtime = 0]
Failed(run, unknown) == [Ended(run) EXCEPT !.unknown = unknown]
Succeeded(run) == [Ended(run) EXCEPT !.ok = TRUE]

\* The next stage of a workflow, made from the view eef just confirmed.
Staged(run, stage, op, view) ==
    [run EXCEPT !.stage = stage, !.at = "inspect", !.op = op, !.rev = view.rev, !.source = view]

\* respond_inner and input_request_inner once a stage is confirmed.
After(run, fresh, view) ==
    CASE run.stage = "open" /\ fresh /\ policy.prepare /\ Eligible(view) ->
            Staged(run, "prepare", PreparationReceipt(run.id), view)
      [] run.stage = "answer" /\ run.kind = "respond" /\ fresh /\ policy.resolve ->
            Staged(run, "resolve", StageReceipt(run.id, "resolve", view.rev), view)
      [] run.stage = "resolve" /\ run.kind = "respond" /\ fresh /\ policy.prepare /\ Eligible(view) ->
            Staged(run, "prepare", StageReceipt(run.id, "prepare", view.rev), view)
      [] OTHER -> Succeeded(run)

\* The node's own reading of a reply: answer_transition, matched_answer_source,
\* resolution_source, confirms_preparation_source and the confirmed functions.
AnswerConfirmed(run, fresh, view) ==
    /\ Has(view.answers, run.op)
    /\ LET a == At(view.answers, run.op) IN
        /\ a.text = run.text /\ a.rev = run.rev
        /\ run.kind = "respond" => a.from = Digest(run.source)
    /\ fresh => view.rev = run.rev + 1 /\ view.status = "review" /\ Last(view.answers).op = run.op
    /\ run.kind = "respond" /\ fresh =>
        /\ view.proposals = run.source.proposals
        /\ Len(view.answers) = Len(run.source.answers) + 1
        /\ Extends(run.source.answers, view.answers)

ProposalConfirmed(run, fresh, view) ==
    /\ Has(view.proposals, run.op)
    /\ run.stage = "resolve" => At(view.proposals, run.op).rev = run.rev
    /\ fresh => view.rev = run.rev + 1 /\ view.status = "review" /\ Last(view.proposals).op = run.op
    /\ run.stage = "resolve" /\ fresh =>
        /\ view.answers = run.source.answers
        /\ Len(view.proposals) = Len(run.source.proposals) + 1
        /\ Extends(run.source.proposals, view.proposals)

PlanningConfirmed(run, fresh, view) ==
    /\ view.planning # None
    /\ view.planning.op = run.op /\ view.planning.rev = run.rev
    /\ fresh => view.rev = run.rev + 1 /\ view.status = "awaiting_approval"

\* saved_checkpoint and confirmed_checkpoint
CheckpointConfirmed(run, fresh, view) ==
    LET planned == view.planning # None /\ view.planning.op = run.op
        kept == IF planned THEN view.planning ELSE At(view.proposals, run.op)
    IN  /\ planned \/ Has(view.proposals, run.op)
        /\ kept.from = Digest(run.source) /\ kept.rev = run.rev
        /\ fresh => view.rev = run.rev + 1

OpeningConfirmed(run, fresh, view) ==
    /\ view.proposals[1].op = run.op /\ view.text = run.text /\ ~view.concrete
    /\ view.proposals[1].ask = run.ask

Confirmed(run, fresh, view) ==
    CASE run.stage = "open" -> OpeningConfirmed(run, fresh, view)
      [] run.stage = "answer" -> AnswerConfirmed(run, fresh, view)
      [] run.stage \in {"revise", "resolve"} -> ProposalConfirmed(run, fresh, view)
      [] run.stage = "compile" -> PlanningConfirmed(run, fresh, view)
      [] run.stage = "concrete" ->
            PlanningConfirmed([run EXCEPT !.op = CompilationReceipt(Opening)], fresh, view)
      [] run.stage = "prepare" -> CheckpointConfirmed(run, fresh, view)

\* A concrete request is saved and compiled under two receipts.
Covered(run) ==
    {run.op} \cup (IF run.stage = "concrete" THEN {CompilationReceipt(Opening)} ELSE {})

\* Variant: a refusal is taken as proof that nothing was saved.
HeardCertain(run, verdict, view) ==
    IF verdict = "refused" THEN Failed(run, FALSE)
    ELSE IF ~Confirmed(run, verdict = "saved", view)
         THEN [Failed(run, TRUE) EXCEPT !.misread = TRUE]
         ELSE After([run EXCEPT !.got = @ \cup Covered(run)], verdict = "saved", view)

\* draft_command, planning_request, concrete_request, review_prepared and
\* checkpoint_submission: a refusal is no proof that nothing was saved.
Heard(run, verdict, view) ==
    IF verdict = "refused" THEN Failed(run, TRUE)
    ELSE IF ~Confirmed(run, verdict = "saved", view)
         THEN [Failed(run, TRUE) EXCEPT !.misread = TRUE]
         ELSE After([run EXCEPT !.got = @ \cup Covered(run)], verdict = "saved", view)

\* The reply reaches the waiting call, or it does not: the connection or the
\* call itself may be gone.
Reply(c, verdict, view) ==
    \/ /\ c.run # 0 /\ runs[c.run].at = "wait" /\ Alive(c.run)
       /\ Set(c.run, Heard(runs[c.run], verdict, view))
    \/ UNCHANGED runs

(***************************************************************************)
(* eef handles a command                                                   *)
(***************************************************************************)

\* Commands that await the disclosed nodes, bindings or sessions before their edit.
Awaits == {"compile", "prepare", "approve"}

Answered(c, verdict, view) == calls' = calls \ {c} /\ Reply(c, verdict, view)

Refuse(c) == Answered(c, "refused", plan) /\ UNCHANGED <<plan, applied>>

Reuse(c) == Same(c) /\ Answered(c, "reused", plan) /\ UNCHANGED <<plan, applied>>

Save(c) ==
    /\ ~Same(c) /\ Admitted(c) /\ Unchanged(c)
    /\ plan' = Saved(c)
    /\ applied' = applied \cup {[run |-> c.run, op |-> c.op]}
    /\ Answered(c, "saved", plan')

Edit(c) ==
    \/ Reuse(c)
    \/ Save(c)
    \/ ~Same(c) /\ ~(Admitted(c) /\ Unchanged(c)) /\ Refuse(c)

\* open, command: one edit.
HandleEdit(c) ==
    /\ c.phase = "sent" /\ c.kind \notin Awaits \cup {"concrete"}
    /\ Edit(c)

\* planning_command_scoped, origin_preparation_checkpoint, approve: the record is
\* read and checked, and what is found is used after the await.
HandleRead(c) ==
    /\ c.phase = "sent" /\ c.kind \in Awaits
    /\ \/ Reuse(c)
       \/ ~Same(c) /\ ~Admitted(c) /\ Refuse(c)
       \/ /\ ~Same(c) /\ Admitted(c)
          /\ calls' = (calls \ {c}) \cup {[c EXCEPT !.phase = "held", !.saved = plan]}
          /\ UNCHANGED <<plan, runs, applied>>

\* The await may fail (no executor, no binding, no session); otherwise the edit
\* checks again.
HandleHeld(c) ==
    /\ c.phase = "held" /\ c.kind \in Awaits
    /\ Edit(c) \/ Refuse(c)

\* origin_concrete_request_with_source: the opening is retained before the
\* compilation is tried, under its own receipt.
HandleConcrete(c) ==
    /\ c.kind = "concrete" /\ c.phase = "sent"
    /\ \/ Present /\ ~SameOpening(plan, c) /\ Refuse(c)
       \/ ~Present /\ Refuse(c)
       \/ /\ Present => SameOpening(plan, c)
          /\ plan' = IF Present THEN plan ELSE Opened(c)
          /\ applied' = IF Present THEN applied
                        ELSE applied \cup {[run |-> c.run, op |-> Own(Opening)]}
          /\ calls' = (calls \ {c}) \cup
                {[c EXCEPT !.phase = "opened", !.op = CompilationReceipt(Opening), !.rev = 1]}
          /\ UNCHANGED runs

HandleConcreteRead(c) ==
    /\ c.kind = "concrete" /\ c.phase = "opened"
    /\ \/ Reuse(c)
       \/ ~Same(c) /\ ~Admitted(c) /\ Refuse(c)
       \/ /\ ~Same(c) /\ Admitted(c)
          /\ calls' = (calls \ {c}) \cup {[c EXCEPT !.phase = "held", !.saved = plan]}
          /\ UNCHANGED <<plan, runs, applied>>

HandleConcreteHeld(c) ==
    /\ c.kind = "concrete" /\ c.phase = "held"
    /\ \/ Refuse(c)
       \/ Reuse(c)
       \/ /\ ~Same(c) /\ Admitted(c) /\ Unchanged(c)
          /\ plan' = Saved(c)
          /\ applied' = applied \cup {[run |-> c.run, op |-> c.op]}
          /\ calls' = (calls \ {c}) \cup {[c EXCEPT !.phase = "compiled", !.saved = plan']}
          /\ UNCHANGED runs

\* The record is read once more and must still be the one just compiled.
HandleConcreteDone(c) ==
    /\ c.kind = "concrete" /\ c.phase = "compiled"
    /\ IF plan = c.saved THEN Answered(c, "saved", plan) /\ UNCHANGED <<plan, applied>>
                         ELSE Refuse(c)

Handle ==
    /\ \E c \in calls :
        \/ HandleEdit(c) \/ HandleRead(c) \/ HandleHeld(c)
        \/ HandleConcrete(c) \/ HandleConcreteRead(c) \/ HandleConcreteHeld(c)
        \/ HandleConcreteDone(c)
    /\ UNCHANGED <<runtime, policy>>

Call(run, kind, op, text, ask, rev, from) ==
    [run |-> run, kind |-> kind, op |-> op, text |-> text, ask |-> ask, rev |-> rev,
     from |-> from, phase |-> "sent", saved |-> None]

\* The owner approves the revision it inspected; only the owner may.
Approve ==
    /\ Present /\ plan.status = "awaiting_approval"
    /\ \A c \in calls : c.kind # "approve"
    /\ calls' = calls \cup {Call(0, "approve", <<0, "approve", 0>>, None, FALSE, plan.rev, None)}
    /\ UNCHANGED <<plan, runs, runtime, policy, applied>>

\* TaskEngine::cancel before anything runs.
Cancel ==
    /\ Present /\ plan.status # "cancelled"
    /\ plan' = [plan EXCEPT !.status = "cancelled", !.rev = @ + 1]
    /\ UNCHANGED <<calls, runs, runtime, policy, applied>>

(***************************************************************************)
(* The node calls                                                          *)
(***************************************************************************)

\* A call that inspects first does so before anything is sent or interpreted.
FirstStep(kind) == IF kind \in Direct THEN "send" ELSE "inspect"

Begin(kind, id, text, rev) ==
    \E r \in 1..MaxRuns :
        /\ runs[r] = None /\ \A q \in 1..(r - 1) : runs[q] # None
        /\ kind \in Workflows => WorkflowFree
        /\ Set(r, [kind |-> kind, id |-> id, op |-> Own(id), text |-> text, rev |-> rev, asked |-> rev,
                   stage |-> FirstStage(kind), at |-> FirstStep(kind), runtime |-> runtime,
                   ask |-> FALSE, source |-> None, got |-> {}, ok |-> FALSE,
                   unknown |-> FALSE, misread |-> FALSE])
        /\ UNCHANGED <<plan, calls, runtime, policy, applied>>

\* The operator works from the record as last inspected, or repeats a command.
Start ==
    \/ \E kind \in {"input", "concrete"}, text \in Texts : Begin(kind, Opening, text, 1)
    \/ /\ Present
       /\ \E id \in Ids :
            \/ \E kind \in {"respond", "answer"}, text \in Texts : Begin(kind, id, text, plan.rev)
            \/ \E kind \in {"resolve", "prepare", "revise", "compile"} :
                    Begin(kind, id, plan.text, plan.rev)
    \/ \E r \in 1..MaxRuns :
            runs[r] # None /\ runs[r].at = "done" /\ Begin(runs[r].kind, runs[r].id, runs[r].text, runs[r].asked)

Policies == [resolve : BOOLEAN, prepare : BOOLEAN]

\* input_request_inner: a found request is inspected, never opened again.
InspectOpening(run) ==
    IF Present
    THEN IF plan.text = run.text /\ ~plan.concrete
         THEN Succeeded([run EXCEPT !.got = {run.op}]) ELSE Failed(run, FALSE)
    ELSE IF InterpreterFree THEN [run EXCEPT !.at = "infer"] ELSE Failed(run, FALSE)

\* respond_inner before anything is sent
InspectAnswer(run) ==
    IF Has(plan.answers, run.op)
    THEN IF SameAnswer(run) THEN Succeeded([run EXCEPT !.got = {run.op}]) ELSE Failed(run, FALSE)
    ELSE IF InReview(run) /\ Unused(run) /\ Asking(plan)
         THEN [run EXCEPT !.at = "send", !.source = plan] ELSE Failed(run, FALSE)

\* resolve_request: a retained resolution is reported, not made again.
InspectResolution(run) ==
    IF Has(plan.proposals, run.op)
    THEN IF At(plan.proposals, run.op).how = "resolve" /\ At(plan.proposals, run.op).rev = run.rev
         THEN After([run EXCEPT !.got = @ \cup {run.op}], FALSE, plan) ELSE Failed(run, FALSE)
    ELSE IF InReview(run) /\ Unused(run) /\ Resolvable(plan) /\ InterpreterFree
         THEN [run EXCEPT !.at = "infer", !.source = plan] ELSE Failed(run, FALSE)

\* prepare_request, saved_checkpoint
InspectPreparation(run) ==
    LET planned == plan.planning # None /\ plan.planning.op = run.op
        asked == Has(plan.proposals, run.op)
    IN  IF planned \/ asked
        THEN LET kept == IF planned THEN plan.planning ELSE At(plan.proposals, run.op)
             IN IF kept.from # None /\ kept.rev = run.rev /\ (asked => kept.how = "question")
                THEN Succeeded([run EXCEPT !.got = @ \cup {run.op}]) ELSE Failed(run, FALSE)
        ELSE IF InReview(run) /\ Unused(run) /\ plan.planning = None /\ Eligible(plan) /\ InterpreterFree
             THEN [run EXCEPT !.at = "infer", !.source = plan] ELSE Failed(run, FALSE)

Inspected(run) ==
    CASE run.stage = "open" -> InspectOpening(run)
      [] run.stage = "answer" -> InspectAnswer(run)
      [] run.stage = "resolve" -> InspectResolution(run)
      [] run.stage = "prepare" -> InspectPreparation(run)

\* The lookup itself may stay unanswered; nothing was sent under this receipt.
Inspect(r) ==
    /\ Alive(r) /\ runs[r].at = "inspect"
    /\ \/ Set(r, Inspected(runs[r]))
       \/ Set(r, Failed(runs[r], FALSE))
    /\ UNCHANGED <<plan, calls, runtime, policy, applied>>

\* The selected interpreter answers with a question or a proposal, or fails.
Infer(r) ==
    /\ Alive(r) /\ runs[r].at = "infer"
    /\ \/ \E ask \in BOOLEAN : Set(r, [runs[r] EXCEPT !.at = "send", !.ask = ask])
       \/ Set(r, Failed(runs[r], FALSE))
    /\ UNCHANGED <<plan, calls, runtime, policy, applied>>

\* request_correlated: sent once, or known not to have been sent.
Sending(r, ask) ==
    LET run == runs[r]
        from == IF run.stage \in {"resolve", "prepare"} THEN Digest(run.source) ELSE None
    IN  /\ calls' = calls \cup {Call(r, run.stage, run.op, run.text, ask, run.rev, from)}
        /\ Set(r, [run EXCEPT !.at = "wait", !.ask = ask])

Send(r) ==
    /\ Alive(r) /\ runs[r].at = "send"
    /\ \/ Set(r, Failed(runs[r], FALSE)) /\ UNCHANGED calls
       \/ runs[r].stage # "revise" /\ Sending(r, runs[r].ask)
       \/ runs[r].stage = "revise" /\ \E ask \in BOOLEAN : Sending(r, ask)
    /\ UNCHANGED <<plan, runtime, policy, applied>>

\* What the reports say when the call ends without an answer: the stage itself
\* knows whether it had sent its save, a workflow whether it had begun to write.
StageUnknown(run) == run.at = "wait"
WorkflowUnknown(run) ==
    \/ run.stage # FirstStage(run.kind)
    \/ run.kind = "input" /\ run.at # "inspect"
    \/ run.kind = "respond" /\ run.at \in {"send", "wait"}

\* A timeout, a lost reply or a replaced runtime.
GiveUp(r) ==
    LET run == runs[r] IN
    /\ Running(r)
    /\ run.kind \in Direct => run.at = "wait"
    /\ \/ Set(r, Failed(run, StageUnknown(run)))
       \/ run.kind \in Workflows /\ Set(r, Failed(run, WorkflowUnknown(run)))
    /\ UNCHANGED <<plan, calls, runtime, policy, applied>>

\* attach_preview_runtime_with_policy, PreviewGuard::drop.  The applied policy is
\* chosen at the start: no call of the node outlives the runtime it began in.  A
\* replacement is seen only by the watched calls that are going on.
ReplaceRuntime ==
    /\ \E r \in DOMAIN runs : Alive(r) /\ runs[r].kind \in Watched
    /\ runtime < MaxRuntime /\ runtime' = runtime + 1
    /\ UNCHANGED <<plan, calls, runs, policy, applied>>

Init ==
    /\ calls = {} /\ applied = {}
    /\ \/ plan = None
       \/ \E ask \in BOOLEAN : plan = Opened([kind |-> "open", text |-> CHOOSE t \in Texts : TRUE, ask |-> ask])
    /\ runs = [r \in 1..MaxRuns |-> None]
    /\ runtime = 1 /\ policy \in Policies

Next ==
    \/ Start \/ Handle \/ Approve \/ Cancel \/ ReplaceRuntime
    \/ \E r \in 1..MaxRuns : Inspect(r) \/ Infer(r) \/ Send(r) \/ GiveUp(r)

Spec == Init /\ [][Next]_vars

(***************************************************************************)
(* Properties                                                              *)
(***************************************************************************)

\* A plan is compiled, and approved, from exactly the draft that is retained
\* with it: no answer, proposal or other plan slipped in while the coordinator
\* awaited bindings or sessions (planning_command_scoped, approve).
PlanMatchesReview ==
    Present =>
        /\ plan.planning # None =>
            /\ plan.planning.built = Digest(plan)
            /\ plan.planning.from # None => plan.planning.from = Digest(plan)
            /\ ~Asking(plan) /\ plan.planning.rev < plan.rev
        /\ plan.approval # None => plan.approval.plan = plan.planning

\* A receipt stands for one entry of the record, whatever is repeated, delayed
\* or sent under another command (DraftRecord::validate, validate_retained).
ReceiptsOnce ==
    Present =>
        LET all == ReceiptsOf(plan.proposals) \o ReceiptsOf(plan.answers)
                    \o (IF plan.planning # None THEN <<plan.planning.op>> ELSE <<>>)
        IN  Cardinality({all[i] : i \in DOMAIN all}) = Len(all)

\* A report that does not declare its outcome unknown confirms every change its
\* call made, and leaves none on its way (respond_request, input_request,
\* draft_command, resolve_request, prepare_request, concrete_request).
UncertaintyReported ==
    \A r \in DOMAIN runs :
        runs[r] # None /\ runs[r].at = "done" /\ ~runs[r].unknown =>
            /\ \A a \in applied : a.run = r => a.op \in runs[r].got
            /\ \A c \in calls : c.run # r

\* The node understands every reply eef gives it: what eef confirmed is never
\* reported as unconfirmed because the two sides disagree about its meaning.
RepliesUnderstood == \A r \in DOMAIN runs : runs[r] # None => ~runs[r].misread

\* History is only added to: no edit drops, reorders or rewrites an entry, and
\* a retained plan or approval is never replaced.
HistoryKept ==
    plan # None =>
        /\ Extends(plan.proposals, plan'.proposals)
        /\ Extends(plan.answers, plan'.answers)
        /\ plan.planning # None => plan'.planning = plan.planning
        /\ plan.approval # None => plan'.approval = plan.approval
        /\ plan'.rev \in {plan.rev, plan.rev + 1}
        /\ plan'.rev = plan.rev => plan' = plan
=============================================================================
