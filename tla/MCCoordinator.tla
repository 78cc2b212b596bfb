---------------------------- MODULE MCCoordinator ----------------------------
(***************************************************************************)
(* Parts of the coordinator, each explored on its own: the gateway's       *)
(* report queues and report workers (NodeGateway), and the components      *)
(* instantiated below.  None reads another's state, so a behaviour is a    *)
(* behaviour of one of them and `part` says which.  The state space is     *)
(* their sum, and v1, v2, ... hold the variables of the component that is  *)
(* explored.                                                               *)
(***************************************************************************)
EXTENDS NodeGateway, Sequences, TLC

CONSTANTS
    j1, j2, p1, Rows, Limits, MaxCount, RecordLimit, MaxResult, MaxSize, None,
    Providers, Caps, Holders, Submissions, MaxQueue, MaxBus, MaxWorkers,
    MaxInFlight, NodeLimit, Ceiling, Adverts, MaxInputs, Ops, Models,
    MaxActive, MaxCalls, MaxFaults, MaxLosses, MaxTries, MaxEdits, MaxBoots,
    Opening, ReceiptIds, Texts, MaxRuns, MaxRuntime

VARIABLES part,
          v1, v2, v3, v4, v5, v6, v7, v8, v9, v10, v11, v12, v13, v14, v15

stored == <<v1, v2, v3, v4, v5, v6, v7, v8, v9, v10, v11, v12, v13, v14, v15>>
partVars == <<part, vars, stored>>

\* The storage beyond the first k variables, kept blank by a component that has k.
Above14 == <<v15>>
Above11 == <<v12, v13, v14, Above14>>
Above10 == <<v11, Above11>>
Above6 == <<v7, v8, v9, v10, Above10>>
Above5 == <<v6, Above6>>

Blank14 == v15 = None
Blank11 == v12 = None /\ v13 = None /\ v14 = None /\ Blank14
Blank10 == v11 = None /\ Blank11
Blank6 == v7 = None /\ v8 = None /\ v9 = None /\ v10 = None /\ Blank10
Blank5 == v6 = None /\ Blank6
Blank0 == v1 = None /\ v2 = None /\ v3 = None /\ v4 = None /\
            v5 = None /\ Blank5

\* The job journal's shared budget
Quota == INSTANCE JournalQuota WITH
    Jobs <- Rows, up <- v1, limit <- v2, peak <- v3, job <- v4, held <- v5

\* What the coordinator believes about its nodes
Registry == INSTANCE NodeRegistry WITH
    Nodes <- Providers, Jobs <- Holders, conn <- v1, unsent <- v2,
    queue <- v3, lagged <- v4, listener <- v5, entries <- v6, holds <- v7,
    models <- v8, metrics <- v9, bus <- v10, world <- v11, missed <- v12,
    served <- v13, used <- v14

\* Fixed inference checks of selected and newly set up models
Check == INSTANCE ModelChecks WITH
    run <- v1, node <- v2, closing <- v3, checks <- v4, active <- v5,
    worker <- v6, calls <- v7, lock <- v8, intents <- v9, plans <- v10,
    prep <- v11, answer <- v12, asked <- v13, said <- v14, spent <- v15

\* One owner command, from the command line to its effect
Command == INSTANCE OwnerCommands WITH
    MaxFaults <- MaxLosses, kind <- v1, cli <- v2, server <- v3,
    response <- v4, mail <- v5, node <- v6, coord <- v7, applied <- v8,
    fitting <- v9, report <- v10, spent <- v11

\* Configuration, runtimes and local enrollment
Process == INSTANCE CoordinatorProcess WITH
    MaxStarts <- MaxBoots, file <- v1, edits <- v2, page <- v3, proc <- v4,
    run <- v5, holders <- v6, enroll <- v7, node <- v8, did <- v9,
    spent <- v10

\* Operator requests and their drafts
Request == INSTANCE Requests WITH
    Ids <- ReceiptIds, plan <- v1, calls <- v2, runs <- v3, runtime <- v4,
    policy <- v5, applied <- v6

PartsInit ==
    /\ Init
    /\ \/ part = "gateway" /\ Blank0
       \/ part = "quota" /\ Quota!Init /\ Blank5
       \/ part = "registry" /\ Registry!Init /\ Blank14
       \/ part = "checks" /\ Check!Init
       \/ part = "commands" /\ Command!Init /\ Blank11
       \/ part = "process" /\ Process!Init /\ Blank10
       \/ part = "requests" /\ Request!Init /\ Blank6

PartsNext ==
    \/ part = "gateway" /\ Next /\ UNCHANGED <<part, stored>>
    \/ part = "quota" /\ Quota!Next /\ UNCHANGED <<part, vars, Above5>>
    \/ part = "registry" /\ Registry!Next /\ UNCHANGED <<part, vars, Above14>>
    \/ part = "checks" /\ Check!Next /\ UNCHANGED <<part, vars>>
    \/ part = "commands" /\ Command!Next /\ UNCHANGED <<part, vars, Above11>>
    \/ part = "process" /\ Process!Next /\ UNCHANGED <<part, vars, Above10>>
    \/ part = "requests" /\ Request!Next /\ UNCHANGED <<part, vars, Above6>>

Parts == PartsInit /\ [][PartsNext]_partVars

\* A limit that holds one issued attempt and little else, and one below what
\* such a job needs.
MCLimits == {12, 40}

\* A registration advertises nothing, or everything and a model.
MCAdverts == {[caps |-> {}, model |-> FALSE], [caps |-> Caps, model |-> TRUE]}

\* One node has a limit of its own.
MCNodeLimit == [n \in Providers |-> IF n = p1 THEN 1 ELSE 2]

\* Sessions are alike, whichever part is explored.
Symmetry == Permutations(Conns)

\* Limits hold with everything counted: the rows of all kinds in the journal's
\* budget, whose reserves pay for every later acknowledgement, report,
\* interruption, cancellation and stop even above a limit lowered since
\* (check_size, reserve, reserved_bytes); the envelopes and saves of all sessions
\* in the report permits (server_report_queue, server_report_workers); and the
\* live reservations in the providers' in-flight counts, whatever registers,
\* refreshes or disconnects meanwhile (reserve_bundle, ProviderReservation::drop).
LimitsHold ==
    /\ part = "quota" => Quota!SharedBudget /\ Quota!LifecycleFits
    /\ part = "gateway" => ReportsBounded
    /\ part = "registry" => Registry!InFlightTrue

\* What is confirmed is saved and tells one story: a caller learns an outcome,
\* and an acceptance is announced, only after the observer recorded it
\* (resolve_response, resolve_grant_ack); a model check's result is its own
\* source's and a cancelled check never ran (observe_model_verification,
\* setup_model_check_store launch); and what a command tells its owner about
\* success and failure is so, whichever reply was lost (models_on, restart_on,
\* the exchanges of main.rs, enroll_local_on); and a request's report declares
\* every change it cannot vouch for (respond_request, draft_command).
ConfirmedIsSaved ==
    /\ part = "gateway" => SavedBeforeConfirmed /\ OneStory
    /\ part = "checks" => /\ Check!ChecksReportTruth
                          /\ Check!CancelledNeverLaunches
    /\ part = "commands" => Command!OwnerToldTruth
    /\ part = "process" => Process!EnrollmentToldTruth
    /\ part = "requests" => Request!UncertaintyReported /\ Request!RepliesUnderstood

\* What is decided is decided on current knowledge: an idle listener's registries
\* match the sessions after any loss of events (reconcile), a check runs once and
\* on the source reserved for it (start_model_verification), a command takes
\* effect once and on the version its owner saw (policy CAS, receipts), a
\* runtime, a settings page or an enrollment never builds on state replaced
\* meanwhile (retire, save_configuration, enroll_local_on), and a request is
\* planned and approved from the draft under review, whose history only grows
\* (planning_command_scoped, approve, validate_retained).
ViewIsCurrent ==
    /\ [](/\ part = "registry" => Registry!RegistryCurrent
          /\ part = "checks" => Check!CheckedAtMostOnce /\ Check!OwnSourceOnly
          /\ part = "commands" => Command!EffectOnceAsSeen
          /\ part = "process" => /\ Process!RestartNeverSelfDefeated
                                 /\ Process!SettingsKept
                                 /\ Process!PairedAsVerified
          /\ part = "requests" => Request!PlanMatchesReview /\ Request!ReceiptsOnce)
    /\ [][part = "requests" => Request!HistoryKept]_partVars
=============================================================================
