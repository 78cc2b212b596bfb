---------------------------- MODULE NodeRegistry ----------------------------
(***************************************************************************)
(* What the coordinator believes about its connected nodes: the provider   *)
(* registry (eef/src/capability.rs), the model registry (model.rs) and the *)
(* world view (world.rs), all filled by one listener (runtime.rs) of the   *)
(* gateway's broadcast of node events (eefn/src/server.rs).                *)
(*                                                                         *)
(* A session changes the gateway's table first and broadcasts afterwards.  *)
(* The broadcast keeps its newest MaxQueue events: a listener that falls   *)
(* behind is told that it lost some and reconciles with the table instead. *)
(* Jobs meanwhile reserve providers and drop their reservations in any     *)
(* order with registrations, refreshes and disconnections.                 *)
(***************************************************************************)
EXTENDS Naturals, Sequences, FiniteSets

CONSTANTS Nodes, Caps,     \* node ids, and the capabilities they advertise
          Jobs,            \* the futures that may hold a reservation
          Submissions,     \* requests that nodes send over their session
          MaxQueue,        \* events the node broadcast retains
          MaxBus,          \* events the coordinator's own bus retains
          MaxWorkers,      \* submissions served at once
          MaxInFlight,     \* the scheduling policy's limits on reservations,
          NodeLimit,       \* in total, on each root node,
          Ceiling,         \* and on one provider
          Adverts,         \* what a registration may advertise
          MaxInputs,       \* bound: inputs of the sessions explored
          None

VARIABLES conn,        \* the gateway's live sessions and their advertisement
          unsent,      \* the event a session has yet to broadcast
          queue,       \* node events the listener has not received
          lagged,      \* events were lost since the last receive
          listener,    \* what the listener is doing
          entries,     \* the providers: in_flight by registered key
          holds,       \* the reservations and their members
          models,      \* nodes with models in the model registry
          metrics,     \* nodes with load and latency there
          bus,         \* coordinator events the world view has not applied
          world,       \* nodes the world view shows as connected
          missed,      \* what was ever lost: node events, bus events
          served,      \* what became of each submission
          used         \* bound: inputs of the sessions so far
vars == <<conn, unsent, queue, lagged, listener, entries, holds, models,
          metrics, bus, world, missed, served, used>>

Keys == Nodes \X Caps
Idle == [pc |-> "recv", node |-> None, snap |-> None, todo |-> {}, gone |-> {},
         publish |-> FALSE]

Init == /\ conn = [n \in Nodes |-> None]
        /\ unsent = [n \in Nodes |-> None]
        /\ queue = <<>> /\ lagged = FALSE
        /\ listener = Idle
        /\ entries = [k \in Keys |-> None]
        /\ holds = [j \in Jobs |-> None]
        /\ models = {} /\ metrics = {}
        /\ bus = <<>> /\ world = {}
        /\ missed = [node |-> FALSE, bus |-> FALSE]
        /\ served = [s \in Submissions |-> "new"]
        /\ used = 0

----------------------------------------------------------------------------
(* The gateway: a session writes its entry and then broadcasts.            *)

Registered(n) == conn[n] # None /\ conn[n].caps # None

\* What node_state returns: nothing before the session has registered.
NodeState(n) == IF Registered(n) THEN conn[n] ELSE None

Input == used < MaxInputs /\ used' = used + 1
Session(caps, model, beat) == [caps |-> caps, model |-> model, beat |-> beat]

\* The identity lease refuses a second session until the first has sent Down.
Connect(n) ==
  /\ conn[n] = None /\ unsent[n] = None /\ Input
  /\ conn' = [conn EXCEPT ![n] = Session(None, FALSE, FALSE)]
  /\ UNCHANGED <<unsent, queue, lagged, listener, entries, holds, models,
                 metrics, bus, world, missed, served>>

\* A registration, first or later, replaces the snapshot with its heartbeat.
Register(n, ad) ==
  /\ conn[n] # None /\ unsent[n] = None
  /\ IF Registered(n) THEN Input ELSE UNCHANGED used
  /\ conn' = [conn EXCEPT ![n] = Session(ad.caps, ad.model, FALSE)]
  /\ unsent' = [unsent EXCEPT ![n] = [kind |-> "registered", of |-> n]]
  /\ UNCHANGED <<queue, lagged, listener, entries, holds, models, metrics,
                 bus, world, missed, served>>

Heartbeat(n) ==
  /\ Registered(n) /\ unsent[n] = None /\ ~conn[n].beat /\ Input
  /\ conn' = [conn EXCEPT ![n].beat = TRUE]
  /\ unsent' = [unsent EXCEPT ![n] = [kind |-> "heartbeat", of |-> n]]
  /\ UNCHANGED <<queue, lagged, listener, entries, holds, models, metrics,
                 bus, world, missed, served>>

Submit(n, s) ==
  /\ Registered(n) /\ unsent[n] = None /\ served[s] = "new" /\ Input
  /\ unsent' = [unsent EXCEPT ![n] = [kind |-> "submission", of |-> s]]
  /\ served' = [served EXCEPT ![s] = "sent"]
  /\ UNCHANGED <<conn, queue, lagged, listener, entries, holds, models,
                 metrics, bus, world, missed>>

\* The session ends: its entry goes first, its Down event follows.
Disconnect(n) ==
  /\ conn[n] # None /\ unsent[n] = None
  /\ conn' = [conn EXCEPT ![n] = None]
  /\ unsent' = [unsent EXCEPT ![n] = [kind |-> "down", of |-> n]]
  /\ UNCHANGED <<queue, lagged, listener, entries, holds, models, metrics,
                 bus, world, missed, served, used>>

\* A full broadcast drops its oldest event and marks the receiver lagged.
Broadcast(n) ==
  /\ unsent[n] # None
  /\ unsent' = [unsent EXCEPT ![n] = None]
  /\ LET full == Len(queue) = MaxQueue
         kept == IF full THEN Tail(queue) ELSE queue
     IN  /\ queue' = Append(kept, unsent[n])
         /\ lagged' = (lagged \/ full)
         /\ missed' = [missed EXCEPT !.node = @ \/ full]
         /\ served' = IF full /\ Head(queue).kind = "submission"
                      THEN [served EXCEPT ![Head(queue).of] = "lost"] ELSE served
  /\ UNCHANGED <<conn, listener, entries, holds, models, metrics, bus, world, used>>

----------------------------------------------------------------------------
(* The provider registry.  Every operation holds its lock throughout.      *)

Members(j) == IF holds[j] = None THEN {} ELSE holds[j].members
Held == {j \in Jobs : holds[j] # None}
OnNode(n) == {j \in Held : holds[j].root[1] = n}

\* A dropped key's reservations stay, but no longer belong to a registration.
Retire(keys) ==
  [j \in Jobs |->
     IF holds[j] = None THEN None
     ELSE [holds[j] EXCEPT !.members =
             {[m EXCEPT !.current = @ /\ m.key \notin keys] : m \in @}]]

\* Variant: a refresh leaves the reservations of dropped keys current.
RefreshWithoutRetiring(n, caps) ==
  /\ entries' = [k \in Keys |->
                   IF k[1] # n THEN entries[k]
                   ELSE IF k[2] \notin caps THEN None
                   ELSE IF entries[k] = None THEN [inFlight |-> 0] ELSE entries[k]]
  /\ holds' = holds

\* refresh_node: a retained key keeps its counter, a new one starts at zero.
RefreshNode(n, caps) ==
  /\ entries' = [k \in Keys |->
                   IF k[1] # n THEN entries[k]
                   ELSE IF k[2] \notin caps THEN None
                   ELSE IF entries[k] = None THEN [inFlight |-> 0] ELSE entries[k]]
  /\ holds' = Retire({n} \X (Caps \ caps))

UnregisterNode(n) ==
  /\ entries' = [k \in Keys |-> IF k[1] = n THEN None ELSE entries[k]]
  /\ holds' = Retire({n} \X Caps)

\* eligible and select_provider: limits in total, by root node, by provider.
Eligible(k) ==
  /\ Cardinality(Held) < MaxInFlight
  /\ Cardinality(OnNode(k[1])) < NodeLimit[k[1]]
  /\ entries[k] # None /\ entries[k].inFlight < Ceiling

\* Root and stages are chosen and counted under one lock, each key once.  The
\* ranking among eligible providers is left open.
Reserve(j, k, stages) ==
  /\ holds[j] = None /\ Eligible(k)
  /\ \A c \in stages : Eligible(<<k[1], c>>)
  /\ LET keys == {k} \cup ({k[1]} \X stages)
     IN  /\ entries' = [e \in Keys |-> IF e \in keys
                                       THEN [inFlight |-> entries[e].inFlight + 1]
                                       ELSE entries[e]]
         /\ holds' = [holds EXCEPT ![j] =
                        [root |-> k,
                         members |-> {[key |-> e, current |-> TRUE] : e \in keys}]]
  /\ UNCHANGED <<conn, unsent, queue, lagged, listener, models, metrics, bus,
                 world, missed, served, used>>

\* Only the registration that was reserved is counted down.
Releases(j, k) == \E m \in Members(j) : m.key = k /\ m.current

\* Dropping the reservation; the counter saturates at zero.
Release(j) ==
  /\ holds[j] # None
  /\ entries' = [k \in Keys |->
                   IF Releases(j, k) /\ entries[k] # None
                   THEN [inFlight |-> IF entries[k].inFlight = 0 THEN 0
                                      ELSE entries[k].inFlight - 1]
                   ELSE entries[k]]
  /\ holds' = [holds EXCEPT ![j] = None]
  /\ UNCHANGED <<conn, unsent, queue, lagged, listener, models, metrics, bus,
                 world, missed, served, used>>

----------------------------------------------------------------------------
(* The listener.  It never trusts an event's content: an event only says   *)
(* whose state to read again from the gateway.                             *)

Start(pc, n, publish) == [Idle EXCEPT !.pc = pc, !.node = n, !.publish = publish]

\* all_providers and node_ids: metrics alone make a node known.
Known == {k[1] : k \in {e \in Keys : entries[e] # None}} \cup models \cup metrics

\* Variant: a lagging listener just goes on with what is left.
ContinueAfterLag ==
  /\ lagged /\ lagged' = FALSE
  /\ listener' = Idle
  /\ UNCHANGED queue

\* Told that it lagged, the listener repairs its state instead of replaying.
ReconcileAfterLag ==
  /\ lagged /\ lagged' = FALSE
  /\ LET live == {n \in Nodes : Registered(n)}
     IN  listener' = [Idle EXCEPT !.pc = "reconcile", !.gone = Known \ live, !.todo = live]
  /\ UNCHANGED queue

\* A submission gets a worker, or a busy reply when MaxWorkers are taken.
Serve(s) ==
  served' = [served EXCEPT ![s] =
               IF Cardinality({t \in Submissions : served[t] = "serving"}) < MaxWorkers
               THEN "serving" ELSE "busy"]

Receive ==
  /\ listener.pc = "recv"
  /\ \/ ReconcileAfterLag /\ UNCHANGED served
     \/ /\ ~lagged /\ queue # <<>>
        /\ queue' = Tail(queue) /\ UNCHANGED lagged
        /\ LET e == Head(queue)
           IN  CASE e.kind = "submission" -> Serve(e.of) /\ UNCHANGED listener
                 [] e.kind = "heartbeat" ->
                      /\ listener' = Start("metrics", e.of, TRUE)
                      /\ UNCHANGED served
                 [] OTHER -> listener' = Start("sync", e.of, TRUE) /\ UNCHANGED served
  /\ UNCHANGED <<conn, unsent, entries, holds, models, metrics, bus, world,
                 missed, used>>

FinishSubmission(s) ==
  /\ served[s] = "serving"
  /\ served' = [served EXCEPT ![s] = "done"]
  /\ UNCHANGED <<conn, unsent, queue, lagged, listener, entries, holds, models,
                 metrics, bus, world, missed, used>>

\* Reconciliation: absent nodes are read again, then the listed ones.
NextToReconcile ==
  /\ listener.pc = "reconcile"
  /\ LET from == IF listener.gone # {} THEN listener.gone ELSE listener.todo
     IN  IF from = {} THEN listener' = Idle
         ELSE \E n \in from :
                listener' = [listener EXCEPT !.pc = "sync", !.node = n,
                                             !.gone = @ \ {n}, !.todo =
                                               IF listener.gone # {} THEN @ ELSE @ \ {n}]
  /\ UNCHANGED <<conn, unsent, queue, lagged, entries, holds, models, metrics,
                 bus, world, missed, served, used>>

\* The gateway is read under its own lock; what is applied may be older.
ReadState ==
  /\ listener.pc \in {"sync", "metrics"}
  /\ listener' = [listener EXCEPT !.pc = IF @ = "sync" THEN "apply" ELSE "beat",
                                  !.snap = NodeState(listener.node)]
  /\ UNCHANGED <<conn, unsent, queue, lagged, entries, holds, models, metrics,
                 bus, world, missed, served, used>>

\* A live change is published on the bus, whose receiver may lag in its turn.
Publish(e) ==
  LET full == Len(bus) = MaxBus
  IN  /\ bus' = Append(IF full THEN Tail(bus) ELSE bus, e)
      /\ missed' = [missed EXCEPT !.bus = @ \/ full]
      /\ UNCHANGED world

View(up, n, nodes) == IF up THEN nodes \cup {n} ELSE nodes \ {n}

\* A repair must not trigger automation: it goes to the world view directly.
PublishOrObserve(up, n) ==
  IF listener.publish THEN Publish([up |-> up, node |-> n])
  ELSE world' = View(up, n, world) /\ UNCHANGED <<bus, missed>>

Continue == IF listener.publish THEN Idle
            ELSE [listener EXCEPT !.pc = "reconcile", !.node = None, !.snap = None]

\* apply_node_state: registration, then the heartbeat stored with it.
ApplyState ==
  /\ listener.pc = "apply" /\ listener.snap # None
  /\ LET n == listener.node
         s == listener.snap
     IN  /\ RefreshNode(n, s.caps)
         /\ models' = IF s.model THEN models \cup {n} ELSE models \ {n}
         /\ metrics' = IF s.beat THEN metrics \cup {n} ELSE metrics
         /\ PublishOrObserve(TRUE, n)
  /\ listener' = Continue
  /\ UNCHANGED <<conn, unsent, queue, lagged, served, used>>

ApplyDown ==
  /\ listener.pc = "apply" /\ listener.snap = None
  /\ LET n == listener.node
     IN  /\ UnregisterNode(n)
         /\ models' = models \ {n} /\ metrics' = metrics \ {n}
         /\ PublishOrObserve(FALSE, n)
  /\ listener' = Continue
  /\ UNCHANGED <<conn, unsent, queue, lagged, served, used>>

\* A heartbeat updates the metrics of whatever the gateway now holds.
ApplyHeartbeat ==
  /\ listener.pc = "beat"
  /\ metrics' = IF listener.snap # None /\ listener.snap.beat
                THEN metrics \cup {listener.node} ELSE metrics
  /\ listener' = Idle
  /\ UNCHANGED <<conn, unsent, queue, lagged, entries, holds, models, bus,
                 world, missed, served, used>>

\* The world view applies the next event of the bus.
Observe ==
  /\ bus # <<>>
  /\ world' = View(Head(bus).up, Head(bus).node, world)
  /\ bus' = Tail(bus)
  /\ UNCHANGED <<conn, unsent, queue, lagged, listener, entries, holds, models,
                 metrics, missed, served, used>>

Next == \/ \E n \in Nodes : \/ Connect(n) \/ Heartbeat(n) \/ Disconnect(n) \/ Broadcast(n)
                            \/ \E ad \in Adverts : Register(n, ad)
                            \/ \E s \in Submissions : Submit(n, s)
        \/ \E j \in Jobs : \/ Release(j)
                           \/ \E k \in Keys, stages \in SUBSET Caps : Reserve(j, k, stages)
        \/ \E s \in Submissions : FinishSubmission(s)
        \/ Receive \/ NextToReconcile \/ ReadState
        \/ ApplyState \/ ApplyDown \/ ApplyHeartbeat \/ Observe

Spec == Init /\ [][Next]_vars

----------------------------------------------------------------------------
(* Properties                                                              *)

Settled == /\ listener = Idle /\ queue = <<>> /\ ~lagged
           /\ \A n \in Nodes : unsent[n] = None

\* Once every event has been received or given up as lost, the registries list
\* exactly the providers, models and metrics of the sessions that are live: no
\* lost, late or repeated event leaves a dead node to be scheduled, or a live
\* one without its providers (runtime.rs node_event_listener, reconcile).
RegistryCurrent ==
  Settled => /\ \A k \in Keys : (entries[k] # None) <=>
                                (Registered(k[1]) /\ k[2] \in conn[k[1]].caps)
             /\ models = {n \in Nodes : Registered(n) /\ conn[n].model}
             /\ metrics \subseteq {n \in Nodes : Registered(n)}
             /\ (~missed.node /\ ~missed.bus /\ bus = <<>>) =>
                  world = {n \in Nodes : Registered(n)}

\* Whatever order nodes come, refresh and go in while jobs hold and drop their
\* reservations, a provider's counter is the number of live reservations made of
\* this registration, and the policy's limits count the others too
\* (capability.rs ProviderReservation::drop, refresh_node, eligible).
InFlightTrue ==
  /\ \A k \in Keys :
       Cardinality({j \in Held : \E m \in Members(j) : m.key = k /\ m.current})
         = IF entries[k] = None THEN 0 ELSE entries[k].inFlight
  /\ \A k \in Keys : entries[k] # None => entries[k].inFlight <= Ceiling
  /\ Cardinality(Held) <= MaxInFlight
  /\ \A n \in Nodes : Cardinality(OnNode(n)) <= NodeLimit[n]
  /\ Cardinality({s \in Submissions : served[s] = "serving"}) <= MaxWorkers

=============================================================================
