----------------------------- MODULE NodeGateway -----------------------------
(***************************************************************************)
(* The coordinator's node gateway: crates/eefn/src/server.rs with          *)
(* server_report_workers.rs and server_report_queue.rs.                    *)
(*                                                                         *)
(* One task accepts connections and owns their session tasks.  A session   *)
(* authenticates, leases its identity, enters the routing table, and reads *)
(* frames while a second future of the same task saves queued grant        *)
(* reports through a bounded set of blocking workers, which no             *)
(* cancellation stops.  Callers register a waiter, send a message and wait *)
(* for its correlated answer or their own timeout.  The gateway stops by   *)
(* ending the sessions, draining the workers and then answering whoever    *)
(* still waits, and may be started again.                                  *)
(*                                                                         *)
(* A connection is a session of its own and is used once, a request too.   *)
(***************************************************************************)
EXTENDS Integers, Sequences, FiniteSets

CONSTANTS
    Nodes,          \* node identities
    Conns,          \* connections, each with its session id
    Grants,         \* requests that carry an execution grant
    Peers,          \* those of Grants for the capability peer.transfer
    Controls,       \* requests without a grant
    MaxStarts,      \* bound: starts of the gateway
    QueueLimit,     \* MAX_SESSION_REPORTS
    ByteLimit,      \* MAX_QUEUED_REPORT_BYTES, in reports
    WorkerLimit,    \* MAX_REPORT_WORKERS
    NoNode, NoConn

ASSUME GatewayAssumption ==
    /\ Peers \subseteq Grants /\ Grants \cap Controls = {}
    /\ MaxStarts \in Nat /\ {QueueLimit, ByteLimit, WorkerLimit} \subseteq Nat \ {0}
    /\ NoNode \notin Nodes /\ NoConn \notin Conns /\ IsFiniteSet(Conns)

VARIABLES
    gate,       \* accept_task: none, running, or with its stop signal taken
    accepting,  \* the accept loop runs
    stopper,    \* where NodeServer::stop is
    closing,    \* ReportWorkers.closing
    starts,     \* starts so far
    conn,       \* the phase of each connection's session task
    node,       \* the identity it authenticated as
    leases,     \* active_ids
    route,      \* connections
    registered, \* routed connections with a registration
    pending,    \* waiters by request
    waiter,     \* what the caller of each request has got
    queue,      \* report envelopes of each session
    held,       \* the envelope its persistence future took
    work,       \* that envelope's report worker
    saved       \* reports the observer recorded, by request

control == <<gate, accepting, stopper, closing, starts>>
sessions == <<conn, node, leases, route, registered>>
requests == <<pending, waiter>>
reports == <<queue, held, work, saved>>
vars == <<control, sessions, requests, reports>>

Requests == Grants \cup Controls
Kinds == {"ack", "done", "unknown", "rejected"}
Serving == {"live", "eof"}              \* the session's select is running
Running == {"queued", "wrote"}          \* its blocking task has not returned
Owned == {"queued", "wrote", "saved"}   \* a Work of ReportWorkers exists
Asking == {"sending", "sent"}
NoPending == [conn |-> NoConn, acked |-> FALSE, checkpoint |-> FALSE, probed |-> FALSE]
NoReport == <<"none", "none">>

Init ==
    /\ gate = "down" /\ accepting = FALSE /\ stopper = "none" /\ closing = FALSE /\ starts = 0
    /\ conn = [c \in Conns |-> "none"]
    /\ node = [c \in Conns |-> NoNode]
    /\ leases = {} /\ route = [n \in Nodes |-> NoConn] /\ registered = {}
    /\ pending = [r \in Requests |-> NoPending]
    /\ waiter = [r \in Requests |-> "idle"]
    /\ queue = [c \in Conns |-> <<>>] /\ held = [c \in Conns |-> NoReport]
    /\ work = [c \in Conns |-> "none"]
    /\ saved = [r \in Requests |-> {}]

-----------------------------------------------------------------------------
(* Sessions.                                                               *)

Connect(c) ==
    /\ accepting /\ conn[c] = "none"
    /\ conn' = [conn EXCEPT ![c] = "auth"]
    /\ UNCHANGED <<control, node, leases, route, registered, requests, reports>>

\* The identity is reserved from authentication to the end of the cleanup.
Authenticate(c, n) ==
    /\ conn[c] = "auth"
    /\ IF n \in leases
       THEN conn' = [conn EXCEPT ![c] = "gone"] /\ UNCHANGED <<node, leases>>
       ELSE /\ conn' = [conn EXCEPT ![c] = "leased"]
            /\ node' = [node EXCEPT ![c] = n]
            /\ leases' = leases \cup {n}
    /\ UNCHANGED <<control, route, registered, requests, reports>>

Admit(c) ==
    /\ conn[c] = "leased"
    /\ conn' = [conn EXCEPT ![c] = "live"]
    /\ route' = [route EXCEPT ![node[c]] = c]
    /\ UNCHANGED <<control, node, leases, registered, requests, reports>>

\* Denied, or lost before it is routed.
Reject(c) ==
    /\ conn[c] \in {"auth", "leased"}
    /\ conn' = [conn EXCEPT ![c] = "gone"]
    /\ leases' = leases \ {node[c]}
    /\ UNCHANGED <<control, node, route, registered, requests, reports>>

Register(c) ==
    /\ conn[c] = "live" /\ c \notin registered
    /\ registered' = registered \cup {c}
    /\ UNCHANGED <<control, conn, node, leases, route, requests, reports>>

\* What becomes of a session's futures when its task leaves the select: queued
\* envelopes and a finished save are dropped, a running save goes on unowned,
\* and a waiter whose report it held sees its channel closed.
DropFutures(c) ==
    /\ queue' = [queue EXCEPT ![c] = <<>>]
    /\ work' = [work EXCEPT ![c] = IF @ \in Running THEN @ ELSE "none"]
    /\ held' = [held EXCEPT ![c] = IF work[c] \in Running THEN @ ELSE NoReport]
    /\ waiter' = [r \in Requests |->
                    IF r = held[c][1] /\ pending[r] = NoPending /\ waiter[r] \in Asking
                    THEN "disconnected" ELSE waiter[r]]

\* read_session_frames ends in order: what is queued is still saved.
EndOfFile(c) ==
    /\ conn[c] = "live"
    /\ conn' = [conn EXCEPT ![c] = "eof"]
    /\ UNCHANGED <<control, node, leases, route, registered, requests, reports>>

\* Every other end of the select: a bad or late frame, a full queue, a lost
\* writer, or the end of the saves after an end of file.
Finish(c) ==
    /\ conn' = [conn EXCEPT ![c] = "ending"]
    /\ DropFutures(c)
    /\ UNCHANGED <<control, node, leases, route, registered, pending, saved>>

Fail(c) == conn[c] \in Serving /\ Finish(c)

\* Variant: the identity is given back before the route is removed.
UnrouteUnleased(c) ==
    /\ conn[c] = "ending"
    /\ \/ node[c] \in leases /\ leases' = leases \ {node[c]} /\ UNCHANGED <<conn, route>>
       \/ conn' = [conn EXCEPT ![c] = "unrouted"] /\ route' = [route EXCEPT ![node[c]] = NoConn] /\ UNCHANGED leases
    /\ UNCHANGED <<control, node, registered, requests, reports>>

\* The route is removed by identity, then the session's waiters are answered.
Unroute(c) ==
    /\ conn[c] = "ending"
    /\ conn' = [conn EXCEPT ![c] = "unrouted"]
    /\ route' = [route EXCEPT ![node[c]] = NoConn]
    /\ UNCHANGED <<control, node, leases, registered, requests, reports>>

Answer(rs, with) ==
    /\ pending' = [r \in Requests |-> IF r \in rs THEN NoPending ELSE pending[r]]
    /\ waiter' = [r \in Requests |-> IF r \in rs /\ waiter[r] \in Asking THEN with ELSE waiter[r]]

\* fail_pending_for, and the end of the task with its lease
FailPending(c) ==
    /\ conn[c] = "unrouted"
    /\ conn' = [conn EXCEPT ![c] = "gone"]
    /\ leases' = leases \ {node[c]}
    /\ Answer({r \in Requests : pending[r].conn = c}, "disconnected")
    /\ UNCHANGED <<control, node, route, registered, reports>>

\* The accept task aborts its sessions: no cleanup runs, the lease is dropped.
Abort(c) ==
    /\ ~accepting /\ conn[c] \notin {"none", "gone"}
    /\ conn' = [conn EXCEPT ![c] = "gone"]
    /\ leases' = leases \ {node[c]}
    /\ DropFutures(c)
    /\ UNCHANGED <<control, node, route, registered, pending, saved>>

-----------------------------------------------------------------------------
(* invoke_message                                                          *)

\* Variant: the guard is released before the waiter is registered, so the
\* route may be one that was read earlier.
InvokeStale(r, n) ==
    /\ waiter[r] = "idle"
    /\ \E c \in registered :
          /\ node[c] = n
          /\ pending' = [pending EXCEPT ![r] = [NoPending EXCEPT !.conn = c]]
    /\ waiter' = [waiter EXCEPT ![r] = "sending"]
    /\ UNCHANGED <<control, sessions, reports>>

\* The route is read and the waiter registered under one guard.  A grant also
\* needs the registration, and the very session it was issued for.
Invoke(r, n) ==
    LET c == route[n] IN
    /\ waiter[r] = "idle" /\ c # NoConn
    /\ r \in Grants => c \in registered
    /\ pending' = [pending EXCEPT ![r] = [NoPending EXCEPT !.conn = c]]
    /\ waiter' = [waiter EXCEPT ![r] = "sending"]
    /\ UNCHANGED <<control, sessions, reports>>

Send(r) ==
    /\ waiter[r] = "sending"
    /\ waiter' = [waiter EXCEPT ![r] = IF conn[pending[r].conn] \in Serving THEN "sent" ELSE "offline"]
    /\ UNCHANGED <<control, sessions, pending, reports>>

Timeout(r) ==
    /\ waiter[r] \in Asking
    /\ waiter' = [waiter EXCEPT ![r] = "timeout"]
    /\ UNCHANGED <<control, sessions, pending, reports>>

\* PendingCleanup::drop, possibly from a task of its own.
Cleanup(r) ==
    /\ waiter[r] \notin Asking /\ pending[r] # NoPending
    /\ pending' = [pending EXCEPT ![r] = NoPending]
    /\ UNCHANGED <<control, sessions, waiter, reports>>

-----------------------------------------------------------------------------
(* Frames about a request that was sent on this session.                   *)

Correlated(c, r) == conn[c] = "live" /\ waiter[r] # "sending" /\ pending[r].conn = c

\* reply_grant_lease: one proof, before any acknowledgement.  A full output ends
\* the session, with the proof on record.
Probe(c, r) ==
    /\ Correlated(c, r) /\ r \in Grants /\ c \in registered
    /\ ~pending[r].acked /\ ~pending[r].checkpoint /\ ~pending[r].probed
    /\ pending' = [pending EXCEPT ![r].probed = TRUE]
    /\ UNCHANGED <<control, sessions, waiter, reports>>

ControlReply(c, r) ==
    /\ Correlated(c, r) /\ r \in Controls
    /\ Answer({r}, "ok")
    /\ UNCHANGED <<control, sessions, reports>>

Envelopes == {e \in Conns \X (1..QueueLimit) : e[2] <= Len(queue[e[1]])}
InHand == {c \in Conns : conn[c] \in Serving /\ held[c] # NoReport}
\* Variant: the permit is returned when the envelope is taken from the queue.
QueuedBytesFree == Cardinality(Envelopes) < ByteLimit
BytesFree == Cardinality(Envelopes) + Cardinality(InHand) < ByteLimit

\* Queue::try_send: no room ends the session.
Report(c, r, k) ==
    /\ Correlated(c, r) /\ r \in Grants
    /\ IF Len(queue[c]) < QueueLimit /\ BytesFree
       THEN /\ queue' = [queue EXCEPT ![c] = Append(@, <<r, k>>)]
            /\ UNCHANGED <<control, sessions, requests, held, work, saved>>
       ELSE Finish(c)

-----------------------------------------------------------------------------
(* The persistence future of a session, and the report workers.            *)

Active == {c \in Conns : work[c] \in Owned}

\* ReportWorkers::begin
Begin(c) ==
    work' = [work EXCEPT ![c] =
               IF closing \/ Cardinality(Active) >= WorkerLimit THEN "failed" ELSE "queued"]

\* Whether an acknowledgement, or a final report, still fits its waiter.
TakesAck(c, r) ==
    LET p == pending[r] IN p.conn = c /\ ~p.acked /\ ~p.checkpoint /\ p.probed

TakesFinal(c, r, k) ==
    LET p == pending[r] IN
    /\ p.conn = c /\ ~p.checkpoint
    /\ IF k = "rejected" THEN ~p.acked
       ELSE p.acked \/ (k = "unknown" /\ r \in Peers /\ p.probed)

Take(c) ==
    LET r == Head(queue[c])[1]
        k == Head(queue[c])[2]
        Keep == held' = [held EXCEPT ![c] = <<r, k>>] /\ Begin(c)
    IN
    /\ conn[c] \in Serving /\ held[c] = NoReport /\ queue[c] # <<>>
    /\ queue' = [queue EXCEPT ![c] = Tail(@)]
    /\ \/ /\ k = "ack" /\ TakesAck(c, r)
          /\ pending' = [pending EXCEPT ![r].checkpoint = TRUE]
          /\ Keep
       \/ /\ k # "ack" /\ TakesFinal(c, r, k)
          /\ pending' = [pending EXCEPT ![r] = NoPending]
          /\ Keep
       \/ \* out of place, or past the grant's deadline
          /\ k = "ack" \/ ~TakesFinal(c, r, k)
          /\ UNCHANGED <<pending, held, work>>
    /\ UNCHANGED <<control, sessions, waiter, saved>>

\* Variant: a worker whose session is gone keeps its place.
ReturnsToSession(c, result) ==
    work' = [work EXCEPT ![c] = result] /\ UNCHANGED held

\* The blocking task of a worker returns; nobody may be left to hear it.
Returns(c, result) ==
    IF conn[c] \in Serving
    THEN work' = [work EXCEPT ![c] = result] /\ UNCHANGED held
    ELSE work' = [work EXCEPT ![c] = "none"] /\ held' = [held EXCEPT ![c] = NoReport]

WorkerRecord(c) ==
    /\ work[c] = "queued"
    /\ \/ Returns(c, "failed") /\ UNCHANGED saved
       \/ /\ ~closing
          /\ saved' = [saved EXCEPT ![held[c][1]] = @ \cup {held[c][2]}]
          /\ work' = [work EXCEPT ![c] = "wrote"]
          /\ UNCHANGED held
    /\ UNCHANGED <<control, sessions, requests, queue>>

WorkerReturn(c) ==
    /\ work[c] = "wrote"
    /\ Returns(c, IF closing THEN "failed" ELSE "saved")
    /\ UNCHANGED <<control, sessions, requests, queue, saved>>

\* Variant: the outcome of the save is not looked at.
ConfirmedUnlessClosing(c) == ~closing

\* The waiter has the answer once its report is saved and the gateway stays open.
Confirmed(c) == work[c] = "saved" /\ ~closing

AckRecorded(c, r) ==
    IF pending[r].conn = c /\ pending[r].checkpoint /\ ~pending[r].acked
    THEN IF Confirmed(c)
         THEN /\ pending' = [pending EXCEPT ![r].checkpoint = FALSE, ![r].acked = TRUE]
              /\ UNCHANGED waiter
         ELSE Answer({r}, "journal")
    ELSE UNCHANGED requests

FinalRecorded(c, r) == Answer({r}, IF Confirmed(c) THEN "ok" ELSE "journal")

Deliver(c) ==
    LET r == held[c][1] IN
    /\ conn[c] \in Serving /\ work[c] \in {"saved", "failed"}
    /\ IF held[c][2] = "ack" THEN AckRecorded(c, r) ELSE FinalRecorded(c, r)
    /\ held' = [held EXCEPT ![c] = NoReport]
    /\ work' = [work EXCEPT ![c] = "none"]
    /\ UNCHANGED <<control, sessions, queue, saved>>

-----------------------------------------------------------------------------
(* Starting and stopping.  Both hold the lock of accept_task.              *)

Start ==
    /\ stopper = "none" /\ gate = "down" /\ Active = {} /\ starts < MaxStarts
    /\ gate' = "up" /\ accepting' = TRUE /\ closing' = FALSE /\ starts' = starts + 1
    /\ UNCHANGED <<stopper, sessions, requests, reports>>

\* The accept loop ends at the stop signal or at an error of accept().
EndLoop ==
    /\ accepting
    /\ accepting' = FALSE
    /\ UNCHANGED <<gate, stopper, closing, starts, sessions, requests, reports>>

StopBegin ==
    /\ stopper = "none"
    /\ stopper' = "await" /\ closing' = TRUE
    /\ gate' = IF gate = "up" THEN "stopping" ELSE gate
    /\ UNCHANGED <<accepting, starts, sessions, requests, reports>>

\* The accept task has shut down every session.
StopAwaited ==
    /\ stopper = "await" /\ ~accepting /\ \A c \in Conns : conn[c] \in {"none", "gone"}
    /\ stopper' = "drain"
    /\ UNCHANGED <<gate, accepting, closing, starts, sessions, requests, reports>>

\* Variant: stop does not wait for the saves that no session awaits.
StopUndrained ==
    /\ stopper = "drain"
    /\ stopper' = "routes"
    /\ UNCHANGED <<gate, accepting, closing, starts, sessions, requests, reports>>

StopDrained ==
    /\ stopper = "drain" /\ Active = {}
    /\ stopper' = "routes"
    /\ UNCHANGED <<gate, accepting, closing, starts, sessions, requests, reports>>

StopRoutes ==
    /\ stopper = "routes"
    /\ stopper' = "pending"
    /\ route' = [n \in Nodes |-> NoConn]
    /\ UNCHANGED <<gate, accepting, closing, starts, conn, node, leases, registered, requests, reports>>

StopPending ==
    /\ stopper = "pending"
    /\ stopper' = "none" /\ gate' = "down"
    /\ Answer({r \in Requests : pending[r] # NoPending}, "stopped")
    /\ UNCHANGED <<accepting, closing, starts, sessions, reports>>

\* The caller of stop drops its future.
StopCancelled ==
    /\ stopper # "none"
    /\ stopper' = "none"
    /\ UNCHANGED <<gate, accepting, closing, starts, sessions, requests, reports>>

-----------------------------------------------------------------------------
SessionStep(c) ==
    \/ Connect(c) \/ \E n \in Nodes : Authenticate(c, n)
    \/ Admit(c) \/ Reject(c) \/ Register(c)
    \/ EndOfFile(c) \/ Fail(c) \/ Unroute(c) \/ FailPending(c) \/ Abort(c)
    \/ Take(c) \/ WorkerRecord(c) \/ WorkerReturn(c) \/ Deliver(c)

FrameStep(c, r) ==
    Probe(c, r) \/ ControlReply(c, r) \/ \E k \in Kinds : Report(c, r, k)

CallStep(r) ==
    \/ \E n \in Nodes : Invoke(r, n)
    \/ Send(r) \/ Timeout(r) \/ Cleanup(r)

GateStep ==
    \/ Start \/ EndLoop \/ StopBegin \/ StopAwaited \/ StopDrained
    \/ StopRoutes \/ StopPending \/ StopCancelled

Next ==
    \/ GateStep
    \/ \E c \in Conns : SessionStep(c)
    \/ \E r \in Requests : CallStep(r)
    \/ \E c \in Conns, r \in Requests : FrameStep(c, r)

Spec == Init /\ [][Next]_vars

\* Tokio polls every ready future and the blocking pool runs every task it was
\* given.  Nothing makes a peer speak, a caller stop the gateway, or accept() fail.
Fairness ==
    /\ \A c \in Conns :
          /\ WF_vars(Take(c)) /\ WF_vars(Deliver(c))
          /\ WF_vars(WorkerRecord(c)) /\ WF_vars(WorkerReturn(c))
          /\ WF_vars(conn[c] = "eof" /\ queue[c] = <<>> /\ held[c] = NoReport /\ Fail(c))
          /\ WF_vars(Unroute(c)) /\ WF_vars(FailPending(c)) /\ WF_vars(Abort(c))
    /\ WF_vars(gate = "stopping" /\ EndLoop)
    /\ WF_vars(StopAwaited) /\ WF_vars(StopDrained)
    /\ WF_vars(StopRoutes) /\ WF_vars(StopPending)

FairSpec == Spec /\ Fairness

-----------------------------------------------------------------------------
(* Properties.                                                             *)

\* Every variable keeps its type.
TypeOK ==
    /\ gate \in {"down", "up", "stopping"} /\ accepting \in BOOLEAN /\ closing \in BOOLEAN
    /\ stopper \in {"none", "await", "drain", "routes", "pending"}
    /\ starts \in 0..MaxStarts
    /\ conn \in [Conns -> {"none", "auth", "leased", "live", "eof", "ending", "unrouted", "gone"}]
    /\ node \in [Conns -> Nodes \cup {NoNode}] /\ leases \subseteq Nodes
    /\ route \in [Nodes -> Conns \cup {NoConn}] /\ registered \subseteq Conns
    /\ pending \in [Requests -> [conn : Conns \cup {NoConn}, acked : BOOLEAN,
                                 checkpoint : BOOLEAN, probed : BOOLEAN]]
    /\ waiter \in [Requests -> {"idle", "sending", "sent", "ok", "journal", "disconnected",
                                "stopped", "offline", "timeout"}]
    /\ \A c \in Conns : Len(queue[c]) <= QueueLimit
    /\ work \in [Conns -> Owned \cup {"none", "failed"}]
    /\ saved \in [Requests -> SUBSET Kinds]

\* While a session serves or cleans up, the routing entry of its identity is its
\* own: the session removes that entry, and updates it on a heartbeat, by
\* identity alone, so it must never be a successor's.
RouteIsOwn ==
    \A c \in Conns : conn[c] \in Serving \cup {"ending"} => route[node[c]] = c

\* While the gateway accepts, no waiter belongs to a session that is gone: a
\* caller that found the route is answered by that session's cleanup, however
\* its registration and the cleanup interleave.
NoWaiterStranded ==
    accepting => \A r \in Requests : pending[r] # NoPending => conn[pending[r].conn] # "gone"

\* A caller is told a grant's outcome, and an acceptance is announced, only when
\* the observer recorded that report.
SavedBeforeConfirmed ==
    \A r \in Grants :
        /\ waiter[r] = "ok" => saved[r] \ {"ack"} # {}
        /\ pending[r].acked => "ack" \in saved[r]

\* The recorded reports of a grant tell one story: at most one outcome, no
\* completion without its acceptance, no rejection with one.
OneStory ==
    \A r \in Grants :
        /\ Cardinality(saved[r] \ {"ack"}) <= 1
        /\ "done" \in saved[r] => "ack" \in saved[r]
        /\ "unknown" \in saved[r] /\ r \notin Peers => "ack" \in saved[r]
        /\ "rejected" \in saved[r] => "ack" \notin saved[r]

\* The envelopes that exist never exceed the shared byte permits, counting the
\* one each session is saving; the saves never exceed the worker limit, counting
\* those whose session is gone.
ReportsBounded ==
    /\ Cardinality(Envelopes) + Cardinality(InHand) <= ByteLimit
    /\ Cardinality(Active) <= WorkerLimit

\* A stopped gateway is quiet, however often stop was cancelled and repeated:
\* no identity, route or waiter is left, no caller still waits, and no save can
\* finish into the next start.
QuietWhenDown ==
    gate = "down" =>
        /\ leases = {} /\ Active = {} /\ Envelopes = {}
        /\ \A n \in Nodes : route[n] = NoConn
        /\ \A r \in Requests : pending[r] = NoPending /\ waiter[r] \notin Asking

\* A stop that is not cancelled returns: aborted sessions leave no save behind
\* that is never counted out.
StopReturns == stopper # "none" ~> stopper = "none"
=============================================================================
