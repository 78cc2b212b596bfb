--------------------------- MODULE ModelResidency ---------------------------
(***************************************************************************)
(* The model processes one node runtime owns (ModelServer), the lifecycle  *)
(* worker that loads and unloads them on command (ModelRuntime), the       *)
(* inferences that pin them, and the shutdown that must see every process  *)
(* exit before another runtime may start.                                  *)
(*                                                                         *)
(* The residency gate and the process tables are synchronous mutexes: a    *)
(* section under them is one step.  The operation mutex is held across     *)
(* awaits and is a variable.  A future that is dropped at an await runs    *)
(* its guards' Drop code, which is modelled where it can happen.           *)
(***************************************************************************)
EXTENDS Naturals, FiniteSets, Sequences

CONSTANTS
  None,
  Models,      \* the selected slots of the runtime
  Users,       \* inferences, each asking for one model once
  Commands,    \* identifiers of lifecycle commands, each sent once
  MaxProcs,    \* bound: processes ever spawned
  MaxStops,    \* bound: attempts to stop the group
  QueueCap     \* policy.queue_capacity

VARIABLES
  mode,        \* [startup, idle]: the applied lifecycle policy
  allowed,     \* the saved settings still authorise this runtime
  phase,       \* running, left, closed, stopping, released
  slots,       \* the residency gate's slot records
  closed,      \* the gate's closed flag
  procs,       \* every process spawned: model, holder, alive
  observed,    \* exit_observed
  op,          \* holder of the operation mutex
  tasks,       \* the futures that may hold the operation mutex
  receipts,    \* lifecycle receipts by command
  queue,       \* the worker's bounded queue
  stops        \* attempts to stop the group so far

vars == <<mode, allowed, phase, slots, closed, procs, observed, op, tasks,
          receipts, queue, stops>>

Owners == {"start", "worker", "monitor", "stop"}
Tasks == Owners \union Users
Ids == 1 .. MaxProcs

Resident == {"ready", "active", "warm"}

Rest == [pc |-> "off", model |-> None, gen |-> 0, id |-> None, held |-> {},
         fences |-> {}, missing |-> FALSE, out |-> None]

Done == [Rest EXCEPT !.pc = "done"]

---------------------------------------------------------------------------
(* What the gate's helpers compute.                                        *)

Fresh == [state |-> "unloaded", gen |-> 0, active |-> 0, control |-> None,
          since |-> "none"]

Unsure(s) == s.state \in {"unloading", "unconfirmed"}

SetSlot(s, state) ==
  [state |-> IF Unsure(s) THEN "unconfirmed" ELSE state,
   gen |-> s.gen + 1, active |-> 0, control |-> None,
   since |-> IF state = "ready" /\ ~Unsure(s) THEN "fresh" ELSE "none"]

SetAll(state) == [m \in Models |-> SetSlot(slots[m], state)]

Lifecycle ==
  LET has(S) == \E m \in Models : slots[m].state \in S IN
  IF has(Resident) THEN "ready"
  ELSE IF has({"unloading"}) THEN "unloading"
  ELSE IF has({"unconfirmed"}) THEN "unconfirmed"
  ELSE IF has({"loading"}) THEN "loading"
  ELSE IF has({"error"}) THEN "error" ELSE "unloaded"

At(place, m) == {i \in Ids : procs[i].at = place /\ procs[i].model = m}

Owned(m) == At("owned", m) # {}

Running(m) == \E i \in At("owned", m) : procs[i].alive

Move(S, place) ==
  [i \in Ids |-> IF i \in S THEN [procs[i] EXCEPT !.at = place] ELSE procs[i]]

AllAt(place) == {i \in Ids : procs[i].at = place}

\* Exited processes of slots in error are forgotten; nothing else is.
ReleaseObserved ==
  {i \in AllAt("retired") :
     ~closed /\ slots[procs[i].model].state = "error" /\ ~procs[i].alive}

Released == Move(ReleaseObserved, "gone")

ModelReady(m) ==
  slots[m].control = None /\ slots[m].state \in Resident /\ Running(m)

Authorized == allowed /\ ~closed

DemandAuthorized == mode.startup = "on_demand" /\ Authorized

CanInfer(m) ==
  \/ ModelReady(m)
  \/ /\ DemandAuthorized
     /\ ~closed
     /\ \/ slots[m].state = "unloaded" /\ slots[m].control = None
        \/ slots[m].state = "loading" /\ slots[m].control \in Users

\* Variant: a process that was not seen to exit is forgotten.
LoadableBesideRetired(m, gen) ==
  /\ ~closed
  /\ slots[m].state \in {"unloaded", "error"}
  /\ slots[m].gen = gen
  /\ slots[m].active = 0
  /\ slots[m].control = None
  /\ ~Owned(m)

Loadable(m, gen) ==
  /\ ~closed
  /\ slots[m].state \in {"unloaded", "error"}
  /\ slots[m].gen = gen
  /\ slots[m].active = 0
  /\ slots[m].control = None
  /\ At("retired", m) \ ReleaseObserved = {}
  /\ ~Owned(m)

Unloadable(m, gen) ==
  /\ ~closed
  /\ slots[m].state \in {"ready", "warm"}
  /\ slots[m].gen = gen
  /\ slots[m].active = 0
  /\ slots[m].control = None

IdleEligible(m) ==
  /\ slots[m].active = 0
  /\ slots[m].control = None
  /\ slots[m].state \in {"ready", "warm"}
  /\ slots[m].since = "aged"

---------------------------------------------------------------------------
(* The guards' Drop code, as the slots and processes it leaves.            *)

\* SlotStartupCleanup: a load that does not complete retires its process.
LoadDropped(t) ==
  LET k == tasks[t]  mine == slots[k.model].control = k.id IN
  /\ slots' = IF mine
              THEN [slots EXCEPT ![k.model] =
                      [state |-> "error", gen |-> @.gen + 1, active |-> @.active,
                       control |-> None, since |-> "none"]]
              ELSE slots
  /\ procs' = IF mine THEN Move(At("owned", k.model), "retired") ELSE procs
  /\ observed' = (observed /\ ~(mine /\ Owned(k.model)))

\* SlotUnloadCleanup and PendingProcess: the exit was not observed.
Matches(f, id) ==
  /\ slots[f.model].gen = f.gen
  /\ slots[f.model].control = id
  /\ slots[f.model].state = "unloading"

Unconfirmed(S, id) ==
  [m \in Models |->
     IF \E f \in S : f.model = m /\ Matches(f, id)
     THEN [slots[m] EXCEPT !.state = "unconfirmed", !.control = None]
     ELSE slots[m]]

---------------------------------------------------------------------------
(* Loading one slot: load_reserved_inner, for a command or an inference.   *)

BeginLoad(t, m, id) ==
  /\ op' = t
  /\ slots' = [slots EXCEPT ![m] =
                 [@ EXCEPT !.state = "loading", !.gen = @ + 1,
                           !.control = id, !.since = "none"]]
  /\ tasks' = [tasks EXCEPT ![t] =
                 [@ EXCEPT !.pc = "spawn", !.model = m, !.id = id]]

Loading(t) == tasks[t].pc \in {"spawn", "health", "complete"}

\* The worker still has its receipt to write; an inference just fails.
After(t, out) ==
  IF t = "worker" THEN [tasks[t] EXCEPT !.pc = "record", !.out = out,
                                        !.held = {}]
  ELSE Done

LoadFails(t) ==
  /\ Loading(t)
  /\ LoadDropped(t)
  /\ op' = None
  /\ tasks' = [tasks EXCEPT ![t] = After(t, "failed")]

SpawnAllowed(m, id) ==
  /\ ~closed
  /\ slots[m].state = "loading"
  /\ slots[m].control = id
  /\ ~Owned(m)

Unborn == {i \in Ids : procs[i].at = "unborn"}

Born(m) ==
  LET i == CHOOSE i \in Unborn : \A j \in Unborn : i <= j IN
  [procs EXCEPT ![i] = [model |-> m, at |-> "owned", alive |-> TRUE]]

Spawn(t) ==
  LET k == tasks[t] IN
  /\ k.pc = "spawn"
  /\ Authorized
  /\ SpawnAllowed(k.model, k.id)
  /\ Unborn # {}
  /\ procs' = Born(k.model)
  /\ observed' = FALSE
  /\ tasks' = [tasks EXCEPT ![t].pc = "health"]
  /\ UNCHANGED <<slots, op>>

Healthy(t) ==
  /\ tasks[t].pc = "health"
  /\ ~closed
  /\ Running(tasks[t].model)
  /\ tasks' = [tasks EXCEPT ![t].pc = "complete"]
  /\ UNCHANGED <<slots, procs, observed, op>>

Complete(t) ==
  LET k == tasks[t]  pin == t \in Users IN
  /\ k.pc = "complete"
  /\ Authorized
  /\ Running(k.model)
  /\ slots[k.model].control = k.id
  /\ slots' = [slots EXCEPT ![k.model] =
                 [@ EXCEPT !.state = IF pin THEN "active" ELSE "ready",
                           !.active = IF pin THEN 1 ELSE 0,
                           !.since = IF pin THEN "none" ELSE "fresh",
                           !.control = None]]
  /\ op' = None
  /\ tasks' = [tasks EXCEPT ![t] =
                 IF pin THEN [@ EXCEPT !.pc = "using", !.gen = slots[k.model].gen]
                 ELSE After(t, "completed")]
  /\ UNCHANGED <<procs, observed>>

Load(t) ==
  /\ Spawn(t) \/ Healthy(t) \/ Complete(t) \/ LoadFails(t)
  /\ UNCHANGED <<mode, allowed, phase, closed, receipts, queue, stops>>

---------------------------------------------------------------------------
(* Inferences: pin a resident model, or load it on demand.                 *)

Pinnable(m) == ~closed /\ ModelReady(m)

Pin(u, m) ==
  /\ slots' = [slots EXCEPT ![m] = [@ EXCEPT !.state = "active",
                                             !.active = @ + 1,
                                             !.since = "none"]]
  /\ tasks' = [tasks EXCEPT ![u] = [Rest EXCEPT !.pc = "using", !.model = m,
                                                !.gen = slots[m].gen]]

Ask(u, m) ==
  /\ tasks[u].pc = "off"
  /\ \/ Pinnable(m) /\ Pin(u, m)
     \/ /\ ~Pinnable(m)
        /\ tasks' = [tasks EXCEPT ![u] =
                       IF DemandAuthorized /\ CanInfer(m)
                       THEN [Rest EXCEPT !.pc = "wait", !.model = m]
                       ELSE Done]
        /\ UNCHANGED slots
  /\ UNCHANGED <<mode, allowed, phase, closed, procs, observed, op, receipts,
                 queue, stops>>

Demand(u) ==
  LET m == tasks[u].model IN
  /\ u \in Users
  /\ tasks[u].pc = "wait"
  /\ op = None
  /\ \/ Authorized /\ Pinnable(m) /\ Pin(u, m) /\ UNCHANGED <<procs, op>>
     \/ /\ Authorized /\ ~ModelReady(m) /\ CanInfer(m)
        /\ Loadable(m, slots[m].gen)
        /\ procs' = Released
        /\ BeginLoad(u, m, u)
     \/ /\ ~(Authorized /\ (Pinnable(m) \/ (CanInfer(m) /\ Loadable(m, slots[m].gen))))
        /\ tasks' = [tasks EXCEPT ![u] = Done]
        /\ UNCHANGED <<slots, procs, op>>
  /\ UNCHANGED <<mode, allowed, phase, closed, observed, receipts, queue, stops>>

\* The request is dropped while it waits.
Abandon(u) ==
  /\ u \in Users
  /\ \/ tasks[u].pc = "wait" /\ UNCHANGED <<slots, procs, observed, op>>
     \/ tasks[u].pc = "health" /\ LoadDropped(u) /\ op' = None
  /\ tasks' = [tasks EXCEPT ![u] = Done]
  /\ UNCHANGED <<mode, allowed, phase, closed, receipts, queue, stops>>

Unpin(s, gen) ==
  IF s.gen # gen \/ s.active = 0 THEN s
  ELSE IF s.active > 1 \/ s.state # "active" THEN [s EXCEPT !.active = @ - 1]
  ELSE [s EXCEPT !.active = 0, !.state = "warm", !.since = "fresh"]

Infer(u) ==
  /\ u \in Users
  /\ tasks[u].pc = "using"
  /\ slots' = [slots EXCEPT ![tasks[u].model] = Unpin(@, tasks[u].gen)]
  /\ tasks' = [tasks EXCEPT ![u] = Done]
  /\ UNCHANGED <<mode, allowed, phase, closed, procs, observed, op, receipts,
                 queue, stops>>

---------------------------------------------------------------------------
(* Lifecycle commands and the worker that carries them out in order.       *)

Known(c) == receipts[c] # None

Receipt(kind, m) == [kind |-> kind, model |-> m, phase |-> "queued",
                     held |-> {}, settled |-> FALSE]

\* Admission reserves the slot before the command is queued.
Command(c, kind, m) ==
  /\ ~Known(c)
  /\ Authorized
  /\ Len(queue) < QueueCap
  /\ \/ kind = "load" /\ Loadable(m, slots[m].gen)
     \/ kind = "unload" /\ Unloadable(m, slots[m].gen)
  /\ procs' = Released
  /\ slots' = [slots EXCEPT ![m].control = c]
  /\ queue' = Append(queue, c)
  /\ receipts' = [receipts EXCEPT ![c] = Receipt(kind, m)]
  /\ UNCHANGED <<mode, allowed, phase, closed, observed, op, tasks, stops>>

Cancel(c) ==
  /\ Known(c) /\ ~closed
  /\ receipts[c].kind = "load"
  /\ receipts[c].phase \in {"queued", "running"}
  /\ receipts' = [receipts EXCEPT ![c].phase = "cancel_requested"]
  /\ UNCHANGED <<mode, allowed, phase, slots, closed, procs, observed, op,
                 tasks, queue, stops>>

\* Any report first forgets observed exits of slots in error.
Inspect ==
  /\ ReleaseObserved # {}
  /\ procs' = Released
  /\ UNCHANGED <<mode, allowed, phase, slots, closed, observed, op, tasks,
                 receipts, queue, stops>>

Worker == tasks["worker"]

SetWorker(k) == tasks' = [tasks EXCEPT !["worker"] = k]

Take ==
  LET c == Head(queue)  r == receipts[c] IN
  /\ phase = "running"
  /\ Worker.pc = "off"
  /\ queue # <<>>
  /\ queue' = Tail(queue)
  /\ SetWorker([Rest EXCEPT
       !.pc = IF r.phase = "cancel_requested" THEN "record" ELSE r.kind,
       !.out = "cancelled", !.model = r.model, !.id = c])
  /\ receipts' = [receipts EXCEPT ![c].phase = "running"]
  /\ UNCHANGED <<mode, allowed, phase, slots, closed, procs, observed, op, stops>>

\* The reserved load, re-checked once the operation mutex is held.
WorkerLoads ==
  LET m == Worker.model  s == slots[m] IN
  /\ Worker.pc = "load"
  /\ op = None
  /\ IF ~closed /\ s.control = Worker.id /\ s.active = 0
        /\ s.state \in {"unloaded", "error"}
     THEN BeginLoad("worker", m, Worker.id)
     ELSE SetWorker(After("worker", "failed")) /\ UNCHANGED <<slots, op>>
  /\ UNCHANGED <<mode, allowed, phase, closed, procs, observed, receipts, queue,
                 stops>>

\* select! is biased to the cancellation at every await of the load.
WorkerCancelled ==
  /\ Worker.pc \in {"load", "health"}
  /\ receipts[Worker.id].phase = "cancel_requested"
  /\ \/ Worker.pc = "load" /\ UNCHANGED <<slots, procs, observed, op>>
     \/ Worker.pc = "health" /\ LoadDropped("worker") /\ op' = None
  /\ SetWorker(After("worker", "cancelled"))
  /\ UNCHANGED <<mode, allowed, phase, closed, receipts, queue, stops>>

UnloadHeld ==
  LET s == slots[Worker.model] IN
  /\ Authorized
  /\ s.control = Worker.id
  /\ s.active = 0
  /\ s.state \in {"ready", "warm"}

\* The process leaves the owned table in the step that marks the slot.
WorkerUnloads ==
  LET m == Worker.model  p == At("owned", m) IN
  /\ Worker.pc = "unload"
  /\ op = None
  /\ \/ /\ UnloadHeld
        /\ op' = "worker"
        /\ slots' = [slots EXCEPT ![m] = [@ EXCEPT !.state = "unloading",
                                           !.gen = @ + 1, !.since = "none"]]
        /\ procs' = Move(p, "pending")
        /\ SetWorker([Worker EXCEPT !.pc = "observe", !.held = p,
             !.fences = @ \union {[model |-> m, gen |-> slots[m].gen + 1,
                                   sticky |-> FALSE]}])
        /\ receipts' = IF Worker.id \in Commands
                       THEN [receipts EXCEPT ![Worker.id].held = p] ELSE receipts
     \/ /\ ~UnloadHeld
        /\ SetWorker(After("worker", "failed"))
        /\ UNCHANGED <<op, slots, procs, receipts>>
  /\ UNCHANGED <<mode, allowed, phase, closed, observed, queue, stops>>

Own(k) == {f \in k.fences : f.model = k.model}

\* terminate_until answers before the deadline with the exit observed, or not.
WorkerObserves ==
  LET k == Worker  m == Worker.model IN
  /\ k.pc = "observe"
  /\ op' = None
  /\ \/ /\ k.held # {} /\ (\A i \in k.held : ~procs[i].alive)
        /\ ~closed /\ \A f \in Own(k) : Matches(f, k.id)
        /\ slots' = [slots EXCEPT ![m] = [@ EXCEPT !.state = "unloaded",
                                                   !.control = None]]
        /\ procs' = Move(k.held, "gone")
        /\ SetWorker([After("worker", "completed") EXCEPT !.fences = @ \ Own(k)])
        /\ UNCHANGED observed
     \/ /\ slots' = Unconfirmed(Own(k), k.id)
        /\ procs' = Move(k.held, "retired")
        /\ observed' = (observed /\ k.held = {})
        /\ SetWorker([After("worker", "failed") EXCEPT !.fences = @ \ Own(k)])
  /\ UNCHANGED <<mode, allowed, phase, closed, receipts, queue, stops>>

\* The receipt is settled and the reservation, if still there, is released.
Record ==
  LET k == Worker  mine == slots[k.model].control = k.id IN
  /\ k.pc = "record"
  /\ slots' = IF mine THEN [slots EXCEPT ![k.model].control = None] ELSE slots
  /\ receipts' = IF k.id \in Commands
                 THEN [receipts EXCEPT ![k.id].phase = k.out,
                                       ![k.id].settled = TRUE]
                 ELSE receipts
  /\ SetWorker(IF k.id \in Commands THEN Rest
               ELSE [Rest EXCEPT !.pc = "idle", !.fences = k.fences])
  /\ UNCHANGED <<mode, allowed, phase, closed, procs, observed, op, queue, stops>>

Candidates ==
  {[model |-> m, gen |-> slots[m].gen, sticky |-> FALSE] :
     m \in {m \in Models : IdleEligible(m)}}

IdleTick ==
  /\ phase = "running"
  /\ Worker.pc = "off" /\ queue = <<>>
  /\ mode.idle /\ ~closed
  /\ Candidates # {}
  /\ SetWorker([Rest EXCEPT !.pc = "idle", !.fences = Candidates])
  /\ UNCHANGED <<mode, allowed, phase, slots, closed, procs, observed, op,
                 receipts, queue, stops>>

IdleReservable(f) ==
  Authorized /\ slots[f.model].gen = f.gen /\ IdleEligible(f.model)

IdleNext ==
  /\ Worker.pc = "idle"
  /\ \/ Worker.fences = {} /\ SetWorker(Rest) /\ UNCHANGED slots
     \/ \E f \in Worker.fences :
          LET rest == Worker.fences \ {f} IN
          IF IdleReservable(f)
          THEN /\ slots' = [slots EXCEPT ![f.model].control = "idle"]
               /\ SetWorker([Rest EXCEPT !.pc = "unload", !.model = f.model,
                                         !.id = "idle", !.fences = rest])
          ELSE SetWorker([Worker EXCEPT !.fences = rest]) /\ UNCHANGED slots
  /\ UNCHANGED <<mode, allowed, phase, closed, procs, observed, op, receipts,
                 queue, stops>>

---------------------------------------------------------------------------
(* Stopping the whole group: at a failed startup, a lost process or the    *)
(* end of the runtime.                                                     *)

\* From the slots in S: everything owned or retired is taken to be observed.
StopChildren(t, S) ==
  LET gone == AllAt("owned") \union AllAt("retired")
      has(m) == \E i \in gone : procs[i].model = m
      seen == observed /\ AllAt("owned") = {} IN
  /\ procs' = Move(gone, "pending")
  /\ observed' = seen
  /\ slots' = [m \in Models |->
       IF has(m) THEN [state |-> "unloading", gen |-> S[m].gen + 1, active |-> 0,
                       control |-> t, since |-> "none"]
       ELSE S[m]]
  /\ op' = t
  /\ tasks' = [tasks EXCEPT ![t] = [Rest EXCEPT
       !.pc = "stopping", !.id = t, !.held = gone,
       !.missing = (\E m \in Models :
                      ~has(m) /\ S[m].state = "unconfirmed" /\ ~seen),
       !.fences = {[model |-> m, gen |-> S[m].gen + 1,
                    sticky |-> S[m].state = "unconfirmed"] :
                     m \in {m \in Models : has(m)}}]]

Confirmed(k) ==
  /\ ~k.missing
  /\ \A i \in k.held : ~procs[i].alive
  /\ \A f \in k.fences : Matches(f, k.id)

Stopped(k) ==
  [m \in Models |->
     IF \E f \in k.fences : f.model = m
     THEN [slots[m] EXCEPT !.control = None,
             !.state = IF \E f \in k.fences : f.model = m /\ f.sticky
                       THEN "unconfirmed" ELSE "unloaded"]
     ELSE slots[m]]

All(S, state) == [m \in Models |-> SetSlot(S[m], state)]

\* What each caller does once its stop has an answer.
StopAnswered(t, S, ok) ==
  /\ slots' = IF t = "stop" THEN (IF ok THEN All(S, "unloaded") ELSE S)
              ELSE All(S, "error")
  /\ tasks' = [tasks EXCEPT ![t] = IF t = "start" THEN Done ELSE Rest]
  /\ phase' = IF t = "stop" /\ ok THEN "released" ELSE phase
  /\ op' = None

ObserveStop(t) ==
  LET k == tasks[t] IN
  /\ k.pc = "stopping"
  /\ \/ /\ Confirmed(k)
        /\ procs' = Move(k.held, "gone")
        /\ observed' = TRUE
        /\ StopAnswered(t, Stopped(k), TRUE)
     \/ /\ procs' = Move(k.held, "retired")
        /\ observed' = (observed /\ k.held = {})
        /\ StopAnswered(t, Unconfirmed(k.fences, k.id), FALSE)
  /\ UNCHANGED <<mode, allowed, closed, receipts, queue, stops>>

---------------------------------------------------------------------------
(* Startup of the configured group, and the monitor behind it.             *)

StartAdmitted ==
  /\ AllAt("retired") \ ReleaseObserved = {}
  /\ \A m \in Models : /\ slots[m].active = 0
                       /\ slots[m].control = None
                       /\ ~Unsure(slots[m])
  /\ Lifecycle # "ready"

Start ==
  /\ phase = "running"
  /\ mode.startup = "eager"
  /\ tasks["start"].pc = "off"
  /\ op = None
  /\ ~closed
  /\ procs' = Released
  /\ \/ /\ StartAdmitted
        /\ op' = "start"
        /\ slots' = SetAll("loading")
        /\ tasks' = [tasks EXCEPT !["start"] = [Rest EXCEPT !.pc = "spawning"]]
     \/ /\ ~StartAdmitted
        /\ tasks' = [tasks EXCEPT !["start"] = Done]
        /\ UNCHANGED <<op, slots>>
  /\ UNCHANGED <<mode, allowed, phase, closed, observed, receipts, queue, stops>>

StartSpawns ==
  /\ tasks["start"].pc = "spawning"
  /\ \/ \E m \in Models : /\ SpawnAllowed(m, None)
                          /\ Unborn # {}
                          /\ procs' = Born(m)
                          /\ observed' = FALSE
                          /\ UNCHANGED tasks
     \/ /\ \A m \in Models : Owned(m)
        /\ tasks' = [tasks EXCEPT !["start"].pc = "health"]
        /\ UNCHANGED <<procs, observed>>
  /\ UNCHANGED <<mode, allowed, phase, slots, closed, op, receipts, queue, stops>>

Expected == {m \in Models : slots[m].state \in Resident \union {"loading"}}

CheckChildren ==
  /\ Cardinality({m \in Models : Owned(m)}) = Cardinality(Expected)
  /\ \A i \in AllAt("owned") : procs[i].alive

StartEnds ==
  /\ \/ /\ tasks["start"].pc = "health"
        /\ CheckChildren
        /\ slots' = SetAll("ready")
        /\ op' = None
        /\ tasks' = [tasks EXCEPT !["start"] = Done]
        /\ UNCHANGED <<procs, observed>>
     \/ /\ tasks["start"].pc \in {"spawning", "health"}
        /\ StopChildren("start", slots)
  /\ UNCHANGED <<mode, allowed, phase, closed, receipts, queue, stops>>

Monitor ==
  /\ phase = "running"
  /\ tasks["monitor"].pc = "off"
  /\ op = None
  /\ Lifecycle = "ready"
  /\ \E m \in Models : slots[m].state \in Resident /\ ~Running(m)
  /\ StopChildren("monitor", SetAll("error"))
  /\ UNCHANGED <<mode, allowed, phase, closed, receipts, queue, stops>>

---------------------------------------------------------------------------
(* The end of the runtime.                                                 *)

Held(t) == tasks[t].pc \in {"observe", "stopping"}

Retire(S) == [i \in Ids |-> IF i \in S THEN [procs[i] EXCEPT !.at = "retired"]
                            ELSE procs[i]]

\* run_node's select ends at an await of each branch and drops the others.
Left ==
  LET drop == {t \in {"start", "worker", "monitor"} : op = t}
      load == IF op = "worker" /\ Loading("worker")
                 /\ slots[Worker.model].control = Worker.id
              THEN {Worker.model} ELSE {}
      starts == op = "start"
      moved == UNION {tasks[t].held : t \in {t \in drop : Held(t)}}
               \union {i \in AllAt("owned") : starts \/ procs[i].model \in load}
      one == IF drop = {} THEN slots
             ELSE LET t == CHOOSE t \in drop : TRUE IN
                  IF Held(t) THEN Unconfirmed(tasks[t].fences, tasks[t].id)
                  ELSE [m \in Models |->
                          IF m \in load
                          THEN [slots[m] EXCEPT !.state = "error", !.gen = @ + 1,
                                                !.control = None, !.since = "none"]
                          ELSE slots[m]] IN
  /\ procs' = Retire(moved)
  /\ observed' = (observed /\ moved = {})
  /\ slots' = IF starts
              THEN All(one, IF moved \union AllAt("retired") = {}
                            THEN "unloaded" ELSE "error")
              ELSE one
  /\ op' = IF drop = {} THEN op ELSE None

Leave ==
  /\ phase = "running"
  /\ Worker.pc \notin {"spawn", "complete", "record"}
  /\ tasks["start"].pc # "spawning"
  /\ phase' = "left"
  /\ Left
  /\ tasks' = [t \in Tasks |-> IF t \in {"start", "worker", "monitor"} THEN Done
                               ELSE tasks[t]]
  /\ UNCHANGED <<mode, allowed, closed, receipts, queue, stops>>

Interrupted(r) ==
  IF r # None /\ r.phase \in {"queued", "running", "cancel_requested"}
  THEN [r EXCEPT !.phase = "interrupted"] ELSE r

\* ModelRuntime::close and ModelServer::close.
Close ==
  LET gone == AllAt("owned") \union AllAt("retired") IN
  /\ phase = "left"
  /\ phase' = "closed"
  /\ closed' = TRUE
  /\ receipts' = [c \in Commands |-> Interrupted(receipts[c])]
  /\ procs' = Move(gone, "retired")
  /\ observed' = (observed /\ AllAt("owned") = {})
  /\ slots' = [m \in Models |->
       [state |-> IF Unsure(slots[m]) \/ \E i \in gone : procs[i].model = m
                  THEN "unconfirmed" ELSE "unloaded",
        gen |-> slots[m].gen + 1, active |-> 0, control |-> None,
        since |-> "none"]]
  /\ queue' = <<>>
  /\ UNCHANGED <<mode, allowed, op, tasks, stops>>

\* Each stop waits for the operation mutex; the next runtime waits for a stop.
Stop ==
  /\ phase = "closed"
  /\ stops < MaxStops
  /\ op = None
  /\ stops' = stops + 1
  /\ StopChildren("stop", slots)
  /\ UNCHANGED <<mode, allowed, phase, closed, receipts, queue>>

---------------------------------------------------------------------------
(* The environment: processes exit, time passes, the owner saves settings. *)

Exit(i) ==
  /\ procs[i].alive
  /\ procs' = [procs EXCEPT ![i].alive = FALSE]
  /\ UNCHANGED <<mode, allowed, phase, slots, closed, observed, op, tasks,
                 receipts, queue, stops>>

Age(m) ==
  /\ slots[m].since = "fresh" /\ mode.idle
  /\ slots' = [slots EXCEPT ![m].since = "aged"]
  /\ UNCHANGED <<mode, allowed, phase, closed, procs, observed, op, tasks,
                 receipts, queue, stops>>

SettingsChange ==
  /\ allowed
  /\ allowed' = FALSE
  /\ UNCHANGED <<mode, phase, slots, closed, procs, observed, op, tasks,
                 receipts, queue, stops>>

Init ==
  /\ mode \in [startup : {"eager", "on_demand", "manual"}, idle : BOOLEAN]
  /\ allowed = TRUE
  /\ phase = "running"
  /\ slots = [m \in Models |-> Fresh]
  /\ closed = FALSE
  /\ procs = [i \in Ids |-> [model |-> None, at |-> "unborn", alive |-> FALSE]]
  /\ observed = FALSE
  /\ op = None
  /\ tasks = [t \in Tasks |-> Rest]
  /\ receipts = [c \in Commands |-> None]
  /\ queue = <<>>
  /\ stops = 0

Next ==
  \/ \E t \in Users \union {"worker"} : Load(t)
  \/ \E u \in Users : \/ \E m \in Models : Ask(u, m)
                      \/ Demand(u) \/ Abandon(u) \/ Infer(u)
  \/ \E c \in Commands : \/ \E m \in Models, kind \in {"load", "unload"} :
                              Command(c, kind, m)
                         \/ Cancel(c)
  \/ Inspect
  \/ Take \/ WorkerLoads \/ WorkerCancelled \/ WorkerUnloads
  \/ WorkerObserves \/ Record \/ IdleTick \/ IdleNext
  \/ \E t \in {"start", "monitor", "stop"} : ObserveStop(t)
  \/ Start \/ StartSpawns \/ StartEnds \/ Monitor
  \/ Leave \/ Close \/ Stop
  \/ \E i \in Ids : Exit(i)
  \/ \E m \in Models : Age(m)
  \/ SettingsChange

Spec == Init /\ [][Next]_vars

---------------------------------------------------------------------------
(* Properties.                                                             *)

Live(m) == {i \in Ids : procs[i].model = m /\ procs[i].alive}

\* No model ever has two processes at once, and the barrier before the next
\* runtime opens only when every process this one spawned has exited.
SingleProcess ==
  /\ \A m \in Models : Cardinality(Live(m)) <= 1
  /\ phase = "released" => \A m \in Models : Live(m) = {}

\* A slot reported unloaded has no process left, and a process that left the
\* owner's tables was seen to exit.
UnloadedIsGone ==
  /\ \A m \in Models : slots[m].state = "unloaded" => Live(m) = {}
  /\ \A i \in AllAt("gone") : ~procs[i].alive

\* The inferences holding a model in its current generation are the ones the
\* gate counts: unloading never takes a process from under one of them.
PinsCounted ==
  \A m \in Models :
    LET pins == {u \in Users : /\ tasks[u].pc = "using"
                               /\ tasks[u].model = m
                               /\ tasks[u].gen = slots[m].gen} IN
    /\ Cardinality(pins) = slots[m].active
    /\ pins # {} => slots[m].state = "active" /\ Owned(m)

\* Every report the node can assemble passes the reader's own check of it, and
\* a completed unload is one whose process was seen to exit.
ReportsConfirmed ==
  /\ \A m \in Models :
       /\ slots[m].active > 0 => slots[m].state = "active"
       /\ slots[m].state = "unloading" => slots[m].control # None /\ ~Owned(m)
       /\ slots[m].state = "unconfirmed" => slots[m].control = None /\ ~Owned(m)
  /\ \A c \in Commands :
       Known(c) /\ receipts[c].kind = "unload" /\ receipts[c].phase = "completed"
         => \A i \in receipts[c].held : ~procs[i].alive
=============================================================================
