-------------------------- MODULE NodeGatewayProofs --------------------------
(***************************************************************************)
(* Proofs about NodeGateway for every set of nodes, connections and        *)
(* requests, and for every limit.                                          *)
(***************************************************************************)
EXTENDS NodeGateway, TLAPS

Early == {"none", "auth", "leased"}
Idle == {"none", "gone"}
Leased == {"leased", "live", "eof", "ending", "unrouted"}
Draining == {"drain", "routes", "pending"}

QueueType ==
    /\ queue \in [Conns -> Seq(Grants \X Kinds)]
    /\ held \in [Conns -> (Grants \X Kinds) \cup {NoReport}]

Types == TypeOK /\ QueueType

\* active_ids holds the identity of every session between authentication and
\* the end of its task, once, and nothing else.
LeaseInv ==
    /\ \A c \in Conns : conn[c] \in {"none", "auth"} => node[c] = NoNode
    /\ \A c \in Conns : conn[c] \in Leased => node[c] \in leases
    /\ \A c, d \in Conns : conn[c] \in Leased /\ conn[d] \in Leased /\ c # d => node[c] # node[d]
    /\ \A n \in leases : \E c \in Conns : conn[c] \in Leased /\ node[c] = n

\* A routing entry is that of a session of its identity which was admitted, and
\* survives it only when the session was aborted.
RouteInv ==
    /\ RouteIsOwn
    /\ \A n \in Nodes : route[n] # NoConn =>
          /\ node[route[n]] = n
          /\ conn[route[n]] \in Serving \cup {"ending", "gone"}
          /\ accepting => conn[route[n]] # "gone"

\* What a stop has achieved at each of its awaits stays so until the next start,
\* whether or not the call goes on.
StopInv ==
    /\ gate = "down" \/ stopper \in Draining => ~accepting /\ \A c \in Conns : conn[c] \in Idle
    /\ gate = "down" \/ stopper \in {"routes", "pending"} => Active = {}
    /\ gate = "down" \/ stopper = "pending" => \A n \in Nodes : route[n] = NoConn
    /\ gate = "down" => \A r \in Requests : pending[r] = NoPending /\ waiter[r] \notin Asking

FinalInHand(c, r) == held[c] # NoReport /\ held[c][1] = r /\ held[c][2] # "ack"

\* A waiter is registered with a session that was admitted; a caller whose waiter
\* was taken still has its answer coming from the session that took it.
WaiterInv ==
    /\ \A r \in Requests : pending[r] # NoPending =>
          /\ pending[r].conn \in Conns
          /\ conn[pending[r].conn] \notin Early
    /\ NoWaiterStranded
    /\ \A r \in Requests : waiter[r] \in Asking /\ pending[r] = NoPending =>
          \E c \in Conns : conn[c] \in Serving /\ FinalInHand(c, r)

\* Envelopes and finished saves belong to a session whose select is running.
FutureInv ==
    /\ \A c \in Conns : queue[c] # <<>> => conn[c] \in Serving
    /\ \A c \in Conns : held[c] = NoReport <=> work[c] = "none"
    /\ \A c \in Conns : work[c] # "none" /\ conn[c] \notin Serving => work[c] \in Running

SessionInv == Types /\ LeaseInv /\ RouteInv /\ StopInv /\ WaiterInv /\ FutureInv

-----------------------------------------------------------------------------
(* Every variable keeps its type.                                          *)

PendingType == [conn : Conns \cup {NoConn}, acked : BOOLEAN, checkpoint : BOOLEAN, probed : BOOLEAN]
Phase == {"none", "auth", "leased", "live", "eof", "ending", "unrouted", "gone"}
Outcome == {"idle", "sending", "sent", "ok", "journal", "disconnected", "stopped", "offline", "timeout"}
Works == Owned \cup {"none", "failed"}
Envelope == (Grants \X Kinds) \cup {NoReport}

\* The types, with the names above.
LEMMA TypeParts ==
    Types <=>
      /\ gate \in {"down", "up", "stopping"} /\ accepting \in BOOLEAN /\ closing \in BOOLEAN
      /\ stopper \in {"none", "await", "drain", "routes", "pending"}
      /\ starts \in 0..MaxStarts
      /\ conn \in [Conns -> Phase] /\ node \in [Conns -> Nodes \cup {NoNode}]
      /\ leases \subseteq Nodes /\ route \in [Nodes -> Conns \cup {NoConn}]
      /\ registered \subseteq Conns
      /\ pending \in [Requests -> PendingType] /\ waiter \in [Requests -> Outcome]
      /\ queue \in [Conns -> Seq(Grants \X Kinds)]
      /\ \A c \in Conns : Len(queue[c]) <= QueueLimit
      /\ held \in [Conns -> Envelope] /\ work \in [Conns -> Works]
      /\ saved \in [Requests -> SUBSET Kinds]
  BY DEF Types, TypeOK, QueueType, PendingType, Phase, Outcome, Works, Envelope

LEMMA NoPendingType == NoPending \in PendingType /\ NoPending.conn = NoConn
  BY DEF NoPending, PendingType

\* Answering waiters keeps the types of both tables.
LEMMA AnswerType ==
    ASSUME NEW rs, NEW with \in Outcome, Answer(rs, with),
           pending \in [Requests -> PendingType], waiter \in [Requests -> Outcome]
    PROVE  pending' \in [Requests -> PendingType] /\ waiter' \in [Requests -> Outcome]
  BY NoPendingType DEF Answer

\* Dropping a session's futures keeps the types it writes.
LEMMA DropType ==
    ASSUME NEW c \in Conns, DropFutures(c),
           queue \in [Conns -> Seq(Grants \X Kinds)], held \in [Conns -> Envelope],
           work \in [Conns -> Works], waiter \in [Requests -> Outcome],
           \A d \in Conns : Len(queue[d]) <= QueueLimit, QueueLimit \in Nat
    PROVE  /\ queue' \in [Conns -> Seq(Grants \X Kinds)] /\ held' \in [Conns -> Envelope]
           /\ work' \in [Conns -> Works] /\ waiter' \in [Requests -> Outcome]
           /\ \A d \in Conns : Len(queue'[d]) <= QueueLimit
  <1>1. <<>> \in Seq(Grants \X Kinds) /\ Len(<<>>) = 0 OBVIOUS
  <1>2. queue' \in [Conns -> Seq(Grants \X Kinds)] /\ \A d \in Conns : Len(queue'[d]) <= QueueLimit
    BY <1>1 DEF DropFutures
  <1>3. held' \in [Conns -> Envelope]
    BY DEF DropFutures, Envelope
  <1>4. work' \in [Conns -> Works]
    BY DEF DropFutures, Works
  <1>5. waiter' \in [Requests -> Outcome]
    BY DEF DropFutures, Outcome
  <1> QED BY <1>2, <1>3, <1>4, <1>5

LEMMA GatewayInit == Init => SessionInv
  <1> SUFFICES ASSUME Init PROVE SessionInv OBVIOUS
  <1>1. Types
    <2>1. <<>> \in Seq(Grants \X Kinds) /\ Len(<<>>) = 0 /\ 0 \in 0..MaxStarts /\ 0 <= QueueLimit
      BY GatewayAssumption
    <2>2. /\ queue \in [Conns -> Seq(Grants \X Kinds)]
          /\ \A c \in Conns : Len(queue[c]) <= QueueLimit
      BY <2>1 DEF Init
    <2>3. starts \in 0..MaxStarts
      BY <2>1 DEF Init
    <2>4. /\ held \in [Conns -> Envelope] /\ work \in [Conns -> Works]
          /\ saved \in [Requests -> SUBSET Kinds] /\ pending \in [Requests -> PendingType]
      BY NoPendingType DEF Init, Envelope, Works
    <2>5. /\ conn \in [Conns -> Phase] /\ node \in [Conns -> Nodes \cup {NoNode}]
          /\ leases \subseteq Nodes /\ route \in [Nodes -> Conns \cup {NoConn}]
          /\ registered \subseteq Conns /\ waiter \in [Requests -> Outcome]
      BY DEF Init, Phase, Outcome
    <2>6. /\ gate \in {"down", "up", "stopping"} /\ accepting \in BOOLEAN /\ closing \in BOOLEAN
          /\ stopper \in {"none", "await", "drain", "routes", "pending"}
      BY Zenon DEF Init
    <2> QED BY <2>2, <2>3, <2>4, <2>5, <2>6, TypeParts
  <1>2. Active = {}
    BY DEF Init, Active, Owned
  <1> QED
    BY <1>1, <1>2 DEF Init, SessionInv, LeaseInv, RouteInv, RouteIsOwn, StopInv, WaiterInv,
        NoWaiterStranded, FutureInv, Serving, Leased, Idle, Draining, Asking

\* A session's own steps outside the saves.
LEMMA SessionTypes ==
    ASSUME Types, NEW c \in Conns,
           \/ Connect(c) \/ (\E n \in Nodes : Authenticate(c, n)) \/ Admit(c) \/ Reject(c)
           \/ Register(c) \/ EndOfFile(c) \/ Fail(c) \/ Unroute(c) \/ FailPending(c) \/ Abort(c)
    PROVE  Types'
  <1> USE GatewayAssumption
  <1>1. CASE Connect(c) BY <1>1, Zenon DEF Connect, Types, TypeOK, QueueType, control, requests, reports
  <1>2. CASE \E n \in Nodes : Authenticate(c, n)
    <2>1. PICK n \in Nodes : Authenticate(c, n) BY <1>2
    <2>2. CASE n \in leases
      BY <2>1, <2>2, Zenon DEF Authenticate, Types, TypeOK, QueueType, control, requests, reports
    <2>3. CASE n \notin leases
      <3>1. conn' \in [Conns -> Phase]
        BY <2>1, <2>3, TypeParts, ZenonT(30) DEF Authenticate, Phase
      <3>2. node' \in [Conns -> Nodes \cup {NoNode}]
        BY <2>1, <2>3, TypeParts, Zenon DEF Authenticate
      <3>3. leases' \subseteq Nodes
        BY <2>1, <2>3, TypeParts, Zenon DEF Authenticate
      <3> QED
        BY <2>1, <3>1, <3>2, <3>3, Zenon DEF Authenticate, Types, TypeOK, QueueType, control, requests, reports, Phase
    <2> QED BY <2>2, <2>3
  <1>3. CASE Admit(c)
    BY <1>3, Zenon DEF Admit, Types, TypeOK, QueueType, control, requests, reports
  <1>4. CASE Reject(c)
    BY <1>4, Zenon DEF Reject, Types, TypeOK, QueueType, control, requests, reports
  <1>5. CASE Register(c)
    BY <1>5, Zenon DEF Register, Types, TypeOK, QueueType, control, requests, reports
  <1>6. CASE EndOfFile(c)
    BY <1>6, Zenon DEF EndOfFile, Types, TypeOK, QueueType, control, requests, reports
  <1>7. ASSUME DropFutures(c)
        PROVE  /\ queue' \in [Conns -> Seq(Grants \X Kinds)] /\ held' \in [Conns -> Envelope]
               /\ work' \in [Conns -> Works] /\ waiter' \in [Requests -> Outcome]
               /\ \A d \in Conns : Len(queue'[d]) <= QueueLimit
    <2>1. /\ queue \in [Conns -> Seq(Grants \X Kinds)] /\ held \in [Conns -> Envelope]
          /\ work \in [Conns -> Works] /\ waiter \in [Requests -> Outcome]
          /\ \A d \in Conns : Len(queue[d]) <= QueueLimit /\ QueueLimit \in Nat
      BY TypeParts
    <2> QED BY <2>1, <1>7, DropType, Zenon
  <1>8. CASE Fail(c)
    BY <1>7, <1>8, Zenon DEF Fail, Finish, Types, TypeOK, QueueType, control, Envelope, Works, Outcome
  <1>9. CASE Unroute(c)
    BY <1>9, Zenon DEF Unroute, Types, TypeOK, QueueType, control, requests, reports
  <1>10. CASE FailPending(c)
    <2>1. pending \in [Requests -> PendingType] /\ waiter \in [Requests -> Outcome]
      BY TypeParts
    <2>2. pending' \in [Requests -> PendingType] /\ waiter' \in [Requests -> Outcome]
      BY <2>1, <1>10, AnswerType, "disconnected" \in Outcome, Zenon DEF FailPending, Outcome
    <2> QED BY <1>10, <2>2, Zenon DEF FailPending, Types, TypeOK, QueueType, control, reports, PendingType, Outcome
  <1>11. CASE Abort(c)
    BY <1>7, <1>11, Zenon DEF Abort, Types, TypeOK, QueueType, control, Envelope, Works, Outcome
  <1> QED BY <1>1, <1>2, <1>3, <1>4, <1>5, <1>6, <1>8, <1>9, <1>10, <1>11, Zenon

\* Callers and frames.
LEMMA CallTypes ==
    ASSUME Types, NEW r \in Requests, CallStep(r)
    PROVE  Types'
  <1> USE GatewayAssumption
  <1>1. CASE \E n \in Nodes : Invoke(r, n)
    <2>1. PICK n \in Nodes : Invoke(r, n) BY <1>1
    <2>2. [NoPending EXCEPT !.conn = route[n]] \in PendingType
      BY NoPendingType, TypeParts, Zenon DEF PendingType
    <2> QED
      BY <2>1, <2>2, Zenon DEF Invoke, Types, TypeOK, QueueType, control, sessions, reports, PendingType
  <1>2. CASE Send(r)
    BY <1>2, Zenon DEF Send, Types, TypeOK, QueueType, control, sessions, reports
  <1>3. CASE Timeout(r)
    BY <1>3, Zenon DEF Timeout, Types, TypeOK, QueueType, control, sessions, reports
  <1>4. CASE Cleanup(r)
    BY <1>4, NoPendingType, Zenon DEF Cleanup, Types, TypeOK, QueueType, control, sessions, reports, PendingType
  <1> QED BY <1>1, <1>2, <1>3, <1>4 DEF CallStep

LEMMA GateTypes ==
    ASSUME Types, GateStep
    PROVE  Types'
  <1> USE GatewayAssumption
  <1>1. CASE Start
    <2>1. starts \in 0..MaxStarts /\ starts < MaxStarts /\ starts' = starts + 1
      BY <1>1, TypeParts DEF Start
    <2>2. starts' \in 0..MaxStarts
      BY <2>1
    <2> QED BY <1>1, <2>2, Zenon DEF Start, Types, TypeOK, QueueType, sessions, requests, reports
  <1>2. CASE StopPending
    <2>1. pending \in [Requests -> PendingType] /\ waiter \in [Requests -> Outcome]
      BY TypeParts
    <2>2. pending' \in [Requests -> PendingType] /\ waiter' \in [Requests -> Outcome]
      BY <2>1, <1>2, AnswerType, "stopped" \in Outcome, Zenon DEF StopPending, Outcome
    <2> QED BY <1>2, <2>2, Zenon DEF StopPending, Types, TypeOK, QueueType, sessions, reports, PendingType, Outcome
  <1>3. CASE EndLoop \/ StopBegin \/ StopAwaited \/ StopDrained \/ StopCancelled
    BY <1>3, Zenon DEF EndLoop, StopBegin, StopAwaited, StopDrained, StopCancelled, Types, TypeOK,
        QueueType, sessions, requests, reports
  <1>4. CASE StopRoutes
    BY <1>4, Zenon DEF StopRoutes, Types, TypeOK, QueueType, requests, reports
  <1> QED BY <1>1, <1>2, <1>3, <1>4 DEF GateStep

\* Frames: a proof, the answer of a control, a report.
LEMMA FrameTypes ==
    ASSUME Types, NEW c \in Conns, NEW r \in Requests, FrameStep(c, r)
    PROVE  Types'
  <1> USE GatewayAssumption
  <1>1. CASE Probe(c, r)
    <2>1. [pending[r] EXCEPT !.probed = TRUE] \in PendingType
      <3>1. pending[r] \in PendingType BY TypeParts, Zenon
      <3> QED BY <3>1, Zenon DEF PendingType
    <2> QED BY <1>1, <2>1, Zenon DEF Probe, Types, TypeOK, QueueType, control, sessions, reports, PendingType
  <1>2. CASE ControlReply(c, r)
    <2>1. pending \in [Requests -> PendingType] /\ waiter \in [Requests -> Outcome]
      BY TypeParts
    <2>2. pending' \in [Requests -> PendingType] /\ waiter' \in [Requests -> Outcome]
      BY <2>1, <1>2, AnswerType, "ok" \in Outcome, Zenon DEF ControlReply, Outcome
    <2> QED BY <1>2, <2>2, Zenon DEF ControlReply, Types, TypeOK, QueueType, control, sessions, reports, PendingType, Outcome
  <1>3. ASSUME NEW k \in Kinds, Report(c, r, k) PROVE Types'
    <2>1. CASE Len(queue[c]) < QueueLimit /\ BytesFree
      <3>1. queue[c] \in Seq(Grants \X Kinds) /\ <<r, k>> \in Grants \X Kinds
        BY <1>3, TypeParts, Zenon DEF Report
      <3>2. /\ Append(queue[c], <<r, k>>) \in Seq(Grants \X Kinds)
            /\ Len(Append(queue[c], <<r, k>>)) = Len(queue[c]) + 1
        BY <3>1
      <3>3. queue' = [queue EXCEPT ![c] = Append(queue[c], <<r, k>>)]
        BY <1>3, <2>1 DEF Report
      <3>4. Len(queue[c]) \in Nat
        BY <3>1
      <3>5. /\ queue' \in [Conns -> Seq(Grants \X Kinds)]
            /\ \A d \in Conns : Len(queue'[d]) <= QueueLimit
        BY <3>2, <3>3, <3>4, <2>1, TypeParts
      <3> QED
        BY <1>3, <2>1, <3>5 DEF Report, Types, TypeOK, QueueType, control, sessions, requests
    <2>2. CASE ~(Len(queue[c]) < QueueLimit /\ BytesFree)
      <3>1. Finish(c) /\ conn[c] \in Serving
        BY <1>3, <2>2 DEF Report, Correlated, Serving
      <3>2. Fail(c)
        BY <3>1 DEF Fail
      <3> QED BY <3>2, SessionTypes
    <2> QED BY <2>1, <2>2
  <1> QED BY <1>1, <1>2, <1>3 DEF FrameStep

\* What an envelope in hand is.
LEMMA HandParts ==
    ASSUME Types, NEW c \in Conns, held[c] # NoReport
    PROVE  held[c] = <<held[c][1], held[c][2]>> /\ held[c][1] \in Grants /\ held[c][2] \in Kinds
  BY DEF Types, QueueType

LEMMA HeadParts ==
    ASSUME Types, NEW c \in Conns, queue[c] # <<>>
    PROVE  /\ Head(queue[c]) = <<Head(queue[c])[1], Head(queue[c])[2]>>
           /\ Head(queue[c])[1] \in Grants /\ Head(queue[c])[2] \in Kinds
           /\ Tail(queue[c]) \in Seq(Grants \X Kinds)
           /\ Len(Tail(queue[c])) = Len(queue[c]) - 1
           /\ Len(queue[c]) \in Nat \ {0}
  <1>1. queue[c] \in Seq(Grants \X Kinds)
    BY DEF Types, QueueType
  <1>2. Head(queue[c]) \in Grants \X Kinds
    BY <1>1
  <1> QED BY <1>1, <1>2

\* The persistence future and the workers.
LEMMA SaveTypes ==
    ASSUME Types, FutureInv, NEW c \in Conns,
           Take(c) \/ WorkerRecord(c) \/ WorkerReturn(c) \/ Deliver(c)
    PROVE  Types'
  <1> USE GatewayAssumption
  <1>1. CASE Take(c)
    <2> DEFINE r == Head(queue[c])[1]
               k == Head(queue[c])[2]
    <2>1. /\ r \in Grants /\ k \in Kinds
          /\ Tail(queue[c]) \in Seq(Grants \X Kinds) /\ Len(Tail(queue[c])) = Len(queue[c]) - 1
          /\ Len(queue[c]) \in Nat
      BY <1>1, HeadParts, Zenon DEF Take
    <2>2. queue' \in [Conns -> Seq(Grants \X Kinds)] /\ \A d \in Conns : Len(queue'[d]) <= QueueLimit
      <3>1. queue' = [queue EXCEPT ![c] = Tail(queue[c])]
        BY <1>1, Zenon DEF Take
      <3>2. queue \in [Conns -> Seq(Grants \X Kinds)] /\ \A d \in Conns : Len(queue[d]) <= QueueLimit
        BY TypeParts, Zenon
      <3> QED BY <2>1, <3>1, <3>2
    <2>3. held' \in [Conns -> Envelope] /\ work' \in [Conns -> Works]
      <3>1. \/ held' = [held EXCEPT ![c] = <<r, k>>] /\ Begin(c)
            \/ UNCHANGED <<held, work>>
        BY <1>1, Zenon DEF Take
      <3>2. <<r, k>> \in Envelope
        BY <2>1 DEF Envelope
      <3>3. Begin(c) => \E w \in Works : work' = [work EXCEPT ![c] = w]
        BY "failed" \in Works, "queued" \in Works, Zenon DEF Begin, Works, Owned
      <3>4. held \in [Conns -> Envelope] /\ work \in [Conns -> Works]
        BY TypeParts
      <3> HIDE DEF r, k
      <3> QED BY <3>1, <3>2, <3>3, <3>4
    <2>4. pending' \in [Requests -> PendingType]
      <3>1. \/ pending' = [pending EXCEPT ![r].checkpoint = TRUE]
            \/ pending' = [pending EXCEPT ![r] = NoPending]
            \/ UNCHANGED pending
        BY <1>1, Zenon DEF Take
      <3>2. r \in Requests /\ pending[r] \in PendingType
        BY <2>1, TypeParts, Zenon DEF Requests
      <3>3. [pending[r] EXCEPT !.checkpoint = TRUE] \in PendingType
        BY <3>2, Zenon DEF PendingType
      <3> HIDE DEF r
      <3> QED BY <3>1, <3>2, <3>3, NoPendingType, TypeParts, Zenon
    <2> QED
      BY <1>1, <2>2, <2>3, <2>4, Zenon DEF Take, Types, TypeOK, QueueType, control, sessions, PendingType, Envelope, Works
  <1>2. ASSUME NEW res \in Works, Returns(c, res)
        PROVE  held' \in [Conns -> Envelope] /\ work' \in [Conns -> Works]
    <2>1. held \in [Conns -> Envelope] /\ work \in [Conns -> Works]
      BY TypeParts
    <2>2. NoReport \in Envelope /\ "none" \in Works
      BY DEF Envelope, Works
    <2>3. CASE conn[c] \in Serving BY <1>2, <2>1, <2>3 DEF Returns
    <2>4. CASE conn[c] \notin Serving BY <1>2, <2>1, <2>2, <2>4 DEF Returns
    <2> QED BY <2>3, <2>4
  <1>3. CASE WorkerRecord(c)
    <2>1. held[c] # NoReport
      BY <1>3, Zenon DEF WorkerRecord, FutureInv
    <2>2. held[c][1] \in Requests /\ held[c][2] \in Kinds
      BY <2>1, HandParts DEF Requests
    <2>3. held' \in [Conns -> Envelope] /\ work' \in [Conns -> Works]
      BY <1>2, <1>3, TypeParts, "failed" \in Works, Zenon DEF WorkerRecord, Works, Owned
    <2>4. saved' \in [Requests -> SUBSET Kinds]
      <3>1. saved \in [Requests -> SUBSET Kinds]
        BY TypeParts
      <3>2. \/ saved' = saved
            \/ saved' = [saved EXCEPT ![held[c][1]] = saved[held[c][1]] \cup {held[c][2]}]
        BY <1>3, Zenon DEF WorkerRecord
      <3> QED BY <2>2, <3>1, <3>2
    <2> QED BY <1>3, <2>3, <2>4, Zenon DEF WorkerRecord, Types, TypeOK, QueueType, control, sessions, requests, Envelope, Works
  <1>4. CASE WorkerReturn(c)
    <2>1. held' \in [Conns -> Envelope] /\ work' \in [Conns -> Works]
      BY <1>2, <1>4, "failed" \in Works, "saved" \in Works, Zenon DEF WorkerReturn, Works, Owned
    <2> QED BY <1>4, <2>1, Zenon DEF WorkerReturn, Types, TypeOK, QueueType, control, sessions, requests, Envelope, Works
  <1>5. CASE Deliver(c)
    <2>1. held' \in [Conns -> Envelope] /\ work' \in [Conns -> Works]
      BY <1>5, TypeParts, Zenon DEF Deliver, Envelope, Works
    <2>2. pending' \in [Requests -> PendingType] /\ waiter' \in [Requests -> Outcome]
      <3> DEFINE r == held[c][1]
      <3>1. pending \in [Requests -> PendingType] /\ waiter \in [Requests -> Outcome]
        BY TypeParts
      <3>2. "ok" \in Outcome /\ "journal" \in Outcome
        BY DEF Outcome
      <3>3. held[c] # NoReport
        BY <1>5 DEF Deliver, FutureInv
      <3>4. r \in Requests /\ pending[r] \in PendingType
        BY <3>1, <3>3, HandParts DEF Requests
      <3>5. \/ \E w \in Outcome : Answer({r}, w)
            \/ pending' = [pending EXCEPT ![r].checkpoint = FALSE, ![r].acked = TRUE] /\ UNCHANGED waiter
            \/ UNCHANGED requests
        BY <1>5, <3>2, Zenon DEF Deliver, AckRecorded, FinalRecorded
      <3>6. [[pending[r] EXCEPT !.checkpoint = FALSE] EXCEPT !.acked = TRUE] \in PendingType
        BY <3>4, Zenon DEF PendingType
      <3> HIDE DEF r
      <3>7. CASE \E w \in Outcome : Answer({r}, w) BY <3>7, <3>1, AnswerType
      <3>8. CASE pending' = [pending EXCEPT ![r].checkpoint = FALSE, ![r].acked = TRUE] /\ UNCHANGED waiter
        BY <3>8, <3>1, <3>4, <3>6
      <3>9. CASE UNCHANGED requests BY <3>9, <3>1 DEF requests
      <3> QED BY <3>5, <3>7, <3>8, <3>9, Zenon
    <2> QED BY <1>5, <2>1, <2>2, Zenon DEF Deliver, Types, TypeOK, QueueType, control, sessions, PendingType, Outcome, Envelope, Works
  <1> QED BY <1>1, <1>3, <1>4, <1>5

LEMMA TypesKept ==
    ASSUME Types, FutureInv, Next
    PROVE  Types'
  <1>1. ASSUME NEW c \in Conns, SessionStep(c) PROVE Types'
    <2>1. \/ (\/ Connect(c) \/ (\E n \in Nodes : Authenticate(c, n)) \/ Admit(c) \/ Reject(c)
              \/ Register(c) \/ EndOfFile(c) \/ Fail(c) \/ Unroute(c) \/ FailPending(c) \/ Abort(c))
          \/ (Take(c) \/ WorkerRecord(c) \/ WorkerReturn(c) \/ Deliver(c))
      BY <1>1, Zenon DEF SessionStep
    <2> QED BY <2>1, SessionTypes, SaveTypes, Zenon
  <1> QED BY <1>1, CallTypes, FrameTypes, GateTypes DEF Next

-----------------------------------------------------------------------------
(* Identities and routes.                                                  *)

\* The steps that change what a session is, and everything else.
LEMMA StepKinds ==
    ASSUME Next
    PROVE  \/ \E c \in Conns :
                 \/ Connect(c) \/ \E n \in Nodes : Authenticate(c, n)
                 \/ Admit(c) \/ Reject(c) \/ EndOfFile(c) \/ Unroute(c)
                 \/ FailPending(c) \/ Abort(c)
                 \/ conn[c] \in Serving /\ Finish(c) /\ UNCHANGED <<control, pending, saved>>
           \/ StopRoutes
           \/ UNCHANGED <<conn, node, leases, route>>
  <1>1. CASE GateStep
    BY <1>1, Zenon DEF GateStep, Start, EndLoop, StopBegin, StopAwaited, StopDrained, StopPending,
        StopCancelled, sessions
  <1>2. ASSUME NEW c \in Conns, SessionStep(c)
        PROVE  \/ Connect(c) \/ \E n \in Nodes : Authenticate(c, n)
               \/ Admit(c) \/ Reject(c) \/ EndOfFile(c) \/ Unroute(c)
               \/ FailPending(c) \/ Abort(c)
               \/ conn[c] \in Serving /\ Finish(c) /\ UNCHANGED <<control, pending, saved>>
               \/ UNCHANGED <<conn, node, leases, route>>
    BY <1>2, Zenon DEF SessionStep, Register, Fail, Finish, Take, WorkerRecord, WorkerReturn, Deliver, sessions
  <1>3. ASSUME NEW r \in Requests, CallStep(r)
        PROVE  UNCHANGED <<conn, node, leases, route>>
    BY <1>3 DEF CallStep, Invoke, Send, Timeout, Cleanup, sessions
  <1>4. ASSUME NEW c \in Conns, NEW r \in Requests, FrameStep(c, r)
        PROVE  \/ conn[c] \in Serving /\ Finish(c) /\ UNCHANGED <<control, pending, saved>>
               \/ UNCHANGED <<conn, node, leases, route>>
    BY <1>4, Zenon DEF FrameStep, Probe, ControlReply, Report, Correlated, Finish, Serving, sessions
  <1> QED BY <1>1, <1>2, <1>3, <1>4, Zenon DEF Next

LEMMA LeaseKept ==
    ASSUME Types, LeaseInv, Next
    PROVE  LeaseInv'
  <1>0. /\ conn \in [Conns -> Phase] /\ node \in [Conns -> Nodes \cup {NoNode}]
        /\ leases \subseteq Nodes
    BY TypeParts
  <1>1. ASSUME NEW c \in Conns, NEW p, conn' = [conn EXCEPT ![c] = p], UNCHANGED <<node, leases>>,
               conn[c] \in Leased <=> p \in Leased,
               p \in {"none", "auth"} => conn[c] \in {"none", "auth"}
        PROVE  LeaseInv'
    <2>1. \A d \in Conns : conn'[d] \in Leased <=> conn[d] \in Leased
      BY <1>0, <1>1
    <2>2. \A d \in Conns : conn'[d] \in {"none", "auth"} => conn[d] \in {"none", "auth"}
      BY <1>0, <1>1
    <2> QED BY <1>1, <2>1, <2>2 DEF LeaseInv
  <1>2. ASSUME NEW c \in Conns, conn' = [conn EXCEPT ![c] = "gone"], conn[c] \notin Idle,
               leases' = leases \ {node[c]}, UNCHANGED node
        PROVE  LeaseInv'
    <2>1. \A d \in Conns : conn'[d] \in Leased <=> conn[d] \in Leased /\ d # c
      BY <1>0, <1>2 DEF Leased
    <2>2. \A d \in Conns : conn'[d] \in {"none", "auth"} => conn[d] \in {"none", "auth"}
      BY <1>0, <1>2
    <2>3. \A d \in Conns : conn'[d] \in Leased => node[d] # node[c]
      <3> SUFFICES ASSUME NEW d \in Conns, conn[d] \in Leased, d # c PROVE node[d] # node[c]
        BY <2>1
      <3>1. CASE conn[c] \in Leased BY <3>1 DEF LeaseInv
      <3>2. CASE conn[c] \in {"none", "auth"}
        BY <3>2, <1>0, GatewayAssumption DEF LeaseInv
      <3> QED BY <3>1, <3>2, <1>0, <1>2 DEF Phase, Leased, Idle
    <2> QED BY <1>2, <2>1, <2>2, <2>3 DEF LeaseInv
  <1>3. ASSUME NEW c \in Conns, NEW n \in Nodes, Authenticate(c, n), n \notin leases
        PROVE  LeaseInv'
    <2>1. /\ conn' = [conn EXCEPT ![c] = "leased"] /\ node' = [node EXCEPT ![c] = n]
          /\ leases' = leases \cup {n} /\ conn[c] = "auth"
      BY <1>3 DEF Authenticate
    <2>2. \A d \in Conns : conn'[d] \in Leased <=> conn[d] \in Leased \/ d = c
      BY <1>0, <2>1 DEF Leased
    <2>3. \A d \in Conns : node'[d] = IF d = c THEN n ELSE node[d]
      BY <1>0, <2>1
    <2>4. \A d \in Conns : conn'[d] \in {"none", "auth"} => conn[d] \in {"none", "auth"} /\ d # c
      BY <1>0, <2>1
    <2>5. c \notin {d \in Conns : conn[d] \in Leased}
      BY <2>1 DEF Leased
    <2> QED BY <1>3, <2>1, <2>2, <2>3, <2>4, <2>5 DEF LeaseInv
  <1>4. CASE UNCHANGED <<conn, node, leases, route>> BY <1>4, Zenon DEF LeaseInv
  <1>5. CASE StopRoutes BY <1>5, Zenon DEF StopRoutes, LeaseInv
  <1>6. ASSUME NEW c \in Conns, Reject(c) \/ FailPending(c) \/ Abort(c)
        PROVE  LeaseInv'
    BY <1>2, <1>6 DEF Reject, FailPending, Abort, Idle
  <1>7. ASSUME NEW c \in Conns,
               \/ Connect(c) \/ Admit(c) \/ EndOfFile(c) \/ Unroute(c)
               \/ conn[c] \in Serving /\ Finish(c)
        PROVE  LeaseInv'
    <2>1. CASE Connect(c) BY <2>1, <1>1, Zenon DEF Connect, Leased
    <2>2. CASE Admit(c) BY <2>2, <1>1, Zenon DEF Admit, Leased
    <2>3. CASE EndOfFile(c) BY <2>3, <1>1, Zenon DEF EndOfFile, Leased
    <2>4. CASE Unroute(c) BY <2>4, <1>1, Zenon DEF Unroute, Leased
    <2>5. CASE conn[c] \in Serving /\ Finish(c) BY <2>5, <1>1, Zenon DEF Finish, Leased, Serving
    <2> QED BY <1>7, <2>1, <2>2, <2>3, <2>4, <2>5
  <1>8. ASSUME NEW c \in Conns, NEW n \in Nodes, Authenticate(c, n), n \in leases
        PROVE  LeaseInv'
    BY <1>1, <1>8 DEF Authenticate, Leased
  <1> QED BY <1>3, <1>4, <1>5, <1>6, <1>7, <1>8, StepKinds, Zenon

\* Which steps end, open or leave the accept loop.
LEMMA AcceptSteps ==
    ASSUME Next
    PROVE  \/ UNCHANGED <<gate, accepting, stopper, closing>>
           \/ /\ GateStep
              /\ Start \/ UNCHANGED accepting \/ accepting' = FALSE
              /\ UNCHANGED <<conn, node, leases, queue, held, work, saved>>
              /\ StopRoutes \/ UNCHANGED route
              /\ StopPending \/ UNCHANGED requests
  <1>1. CASE GateStep
    BY <1>1, Zenon DEF GateStep, Start, EndLoop, StopBegin, StopAwaited, StopDrained, StopRoutes, StopPending,
        StopCancelled, sessions, reports
  <1>2. ASSUME NEW c \in Conns, SessionStep(c) PROVE UNCHANGED control
    BY <1>2, Zenon DEF SessionStep, Connect, Authenticate, Admit, Reject, Register, EndOfFile, Fail, Finish,
        Unroute, FailPending, Abort, Take, WorkerRecord, WorkerReturn, Deliver
  <1>3. ASSUME NEW r \in Requests, CallStep(r) PROVE UNCHANGED control
    BY <1>3 DEF CallStep, Invoke, Send, Timeout, Cleanup
  <1>4. ASSUME NEW c \in Conns, NEW r \in Requests, FrameStep(c, r) PROVE UNCHANGED control
    BY <1>4 DEF FrameStep, Probe, ControlReply, Report, Finish
  <1> QED BY <1>1, <1>2, <1>3, <1>4, Zenon DEF Next, control

LEMMA RouteKept ==
    ASSUME Types, LeaseInv, RouteInv, StopInv, Next
    PROVE  RouteInv'
  <1>0. /\ conn \in [Conns -> Phase] /\ node \in [Conns -> Nodes \cup {NoNode}]
        /\ leases \subseteq Nodes /\ route \in [Nodes -> Conns \cup {NoConn}]
        /\ NoConn \notin Conns
    BY TypeParts, GatewayAssumption
  <1> DEFINE Routed == Serving \cup {"ending", "gone"}
  <1>1. CASE UNCHANGED <<conn, node, leases, route>>
    <2>1. accepting' => accepting \/ \A n \in Nodes : route[n] = NoConn
      BY AcceptSteps, Zenon DEF StopInv, Start
    <2> QED BY <1>1, <2>1 DEF RouteInv, RouteIsOwn
  <1>2. CASE StopRoutes
    <2>1. \A c \in Conns : conn[c] \in Idle
      BY <1>2, Zenon DEF StopInv, StopRoutes, Draining
    <2> QED BY <1>0, <1>2, <2>1, Zenon DEF StopRoutes, RouteInv, RouteIsOwn, Idle, Serving
  <1>3. ASSUME NEW c \in Conns, NEW p \in Phase, conn' = [conn EXCEPT ![c] = p],
               UNCHANGED <<route, accepting>>, \A d \in Conns : d # c => node'[d] = node[d],
               conn[c] \notin Routed, p \notin Serving \cup {"ending"}
        PROVE  RouteInv'
    <2>1. \A n \in Nodes : route[n] # c
      BY <1>0, <1>3 DEF RouteInv
    <2>2. \A d \in Conns : d # c => conn'[d] = conn[d]
      BY <1>0, <1>3
    <2>3. conn'[c] = p
      BY <1>0, <1>3, Zenon
    <2>4. RouteIsOwn'
      BY <1>0, <1>3, <2>2, <2>3 DEF RouteInv, RouteIsOwn
    <2> QED BY <1>0, <1>3, <2>1, <2>2, <2>4 DEF RouteInv
  <1>4. ASSUME NEW c \in Conns, NEW p \in {"eof", "ending"}, conn' = [conn EXCEPT ![c] = p],
               UNCHANGED <<node, route, accepting>>, conn[c] \in Serving
        PROVE  RouteInv'
    BY <1>0, <1>4 DEF RouteInv, RouteIsOwn, Serving
  <1>5. ASSUME NEW c \in Conns, Connect(c) \/ Reject(c) \/ FailPending(c) \/ \E n \in Nodes : Authenticate(c, n)
        PROVE  RouteInv'
    <2>1. CASE Connect(c) BY <2>1, <1>3, Zenon DEF Connect, Phase, Serving, control
    <2>2. CASE Reject(c) BY <2>2, <1>3, Zenon DEF Reject, Phase, Serving, control
    <2>3. CASE FailPending(c) BY <2>3, <1>3, Zenon DEF FailPending, Phase, Serving, control
    <2>4. CASE \E n \in Nodes : Authenticate(c, n)
      <3>1. \A d \in Conns : d # c => node'[d] = node[d]
        BY <1>0, <2>4 DEF Authenticate
      <3>2. CASE conn' = [conn EXCEPT ![c] = "gone"]
        BY <2>4, <3>1, <3>2, <1>3, Zenon DEF Authenticate, Phase, Serving, control
      <3>3. CASE conn' = [conn EXCEPT ![c] = "leased"]
        BY <2>4, <3>1, <3>3, <1>3, Zenon DEF Authenticate, Phase, Serving, control
      <3> QED BY <2>4, <3>2, <3>3 DEF Authenticate
    <2> QED BY <1>5, <2>1, <2>2, <2>3, <2>4
  <1>6. ASSUME NEW c \in Conns, EndOfFile(c) \/ (conn[c] \in Serving /\ Finish(c))
        PROVE  RouteInv'
    BY <1>4, <1>6 DEF EndOfFile, Finish, Serving, control
  <1>7. ASSUME NEW c \in Conns, Abort(c) PROVE RouteInv'
    <2>1. conn' = [conn EXCEPT ![c] = "gone"] /\ ~accepting /\ UNCHANGED <<node, route, accepting>>
      BY <1>7, Zenon DEF Abort, control
    <2> QED BY <1>0, <2>1 DEF RouteInv, RouteIsOwn, Serving
  <1>8. ASSUME NEW c \in Conns, Admit(c) PROVE RouteInv'
    <2>1. /\ conn' = [conn EXCEPT ![c] = "live"] /\ route' = [route EXCEPT ![node[c]] = c]
          /\ conn[c] = "leased" /\ UNCHANGED <<node, accepting>>
      BY <1>8 DEF Admit, control
    <2>2. node[c] \in Nodes /\ \A d \in Conns : d # c /\ conn[d] \in Leased => node[d] # node[c]
      BY <1>0, <2>1 DEF LeaseInv, Leased
    <2>3. \A n \in Nodes : route[n] # c
      BY <1>0, <2>1 DEF RouteInv, Serving
    <2>4. RouteIsOwn'
      BY <1>0, <2>1, <2>2 DEF RouteInv, RouteIsOwn, Serving, Leased
    <2> QED BY <1>0, <2>1, <2>2, <2>3, <2>4 DEF RouteInv, Serving
  <1>9. ASSUME NEW c \in Conns, Unroute(c) PROVE RouteInv'
    <2>1. /\ conn' = [conn EXCEPT ![c] = "unrouted"] /\ route' = [route EXCEPT ![node[c]] = NoConn]
          /\ conn[c] = "ending" /\ UNCHANGED <<node, accepting>>
      BY <1>9 DEF Unroute, control
    <2>2. node[c] \in Nodes /\ \A d \in Conns : d # c /\ conn[d] \in Leased => node[d] # node[c]
      BY <1>0, <2>1 DEF LeaseInv, Leased
    <2>3. \A n \in Nodes : n # node[c] => route[n] # c
      BY <1>0, <2>1 DEF RouteInv
    <2>4. RouteIsOwn'
      BY <1>0, <2>1, <2>2 DEF RouteInv, RouteIsOwn, Serving, Leased
    <2> QED BY <1>0, <2>1, <2>2, <2>3, <2>4 DEF RouteInv, Serving
  <1> QED BY <1>1, <1>2, <1>5, <1>6, <1>7, <1>8, <1>9, StepKinds, Zenon

-----------------------------------------------------------------------------
(* The futures of a session.                                               *)

LEMMA FutureKept ==
    ASSUME Types, FutureInv, Next
    PROVE  FutureInv'
  <1>0. /\ conn \in [Conns -> Phase] /\ queue \in [Conns -> Seq(Grants \X Kinds)]
        /\ held \in [Conns -> Envelope] /\ work \in [Conns -> Works]
    BY TypeParts
  <1>1. \A r, k : k \in Kinds => <<r, k>> # NoReport
    BY Zenon DEF Kinds, NoReport
  <1>2. ASSUME NEW c \in Conns, DropFutures(c), NEW p \in Phase, conn' = [conn EXCEPT ![c] = p],
               p \notin Serving
        PROVE  FutureInv'
    <2>1. \A d \in Conns : d # c => /\ conn'[d] = conn[d] /\ queue'[d] = queue[d]
                                    /\ held'[d] = held[d] /\ work'[d] = work[d]
      BY <1>0, <1>2, Zenon DEF DropFutures
    <2>2. /\ conn'[c] = p /\ queue'[c] = <<>>
          /\ work'[c] = (IF work[c] \in Running THEN work[c] ELSE "none")
          /\ held'[c] = (IF work[c] \in Running THEN held[c] ELSE NoReport)
      BY <1>0, <1>2 DEF DropFutures
    <2>3. work[c] \in Running => work[c] # "none"
      BY Zenon DEF Running
    <2> QED BY <2>1, <2>2, <2>3, <1>2 DEF FutureInv
  <1>3. ASSUME NEW c \in Conns, NEW p \in Phase, conn' = [conn EXCEPT ![c] = p],
               UNCHANGED <<queue, held, work>>, conn[c] \in Serving => p \in Serving
        PROVE  FutureInv'
    <2>1. \A d \in Conns : conn[d] \in Serving => conn'[d] \in Serving
      BY <1>0, <1>3
    <2> QED BY <1>3, <2>1 DEF FutureInv
  <1>4. CASE UNCHANGED <<conn, queue, held, work>>
    BY <1>4 DEF FutureInv
  <1>5. ASSUME NEW c \in Conns, SessionStep(c) PROVE FutureInv'
    <2>1. CASE Connect(c) BY <2>1, <1>3, Zenon DEF Connect, Phase, Serving, reports
    <2>2. CASE \E n \in Nodes : Authenticate(c, n)
      <3>1. conn[c] = "auth" /\ UNCHANGED <<queue, held, work>>
        BY <2>2 DEF Authenticate, reports
      <3>2. conn' = [conn EXCEPT ![c] = "gone"] \/ conn' = [conn EXCEPT ![c] = "leased"]
        BY <2>2 DEF Authenticate
      <3> QED BY <3>1, <3>2, <1>3 DEF Phase, Serving
    <2>3. CASE Admit(c) BY <2>3, <1>3, Zenon DEF Admit, Phase, Serving, reports
    <2>4. CASE Reject(c) BY <2>4, <1>3, Zenon DEF Reject, Phase, Serving, reports
    <2>5. CASE Register(c) BY <2>5, <1>4 DEF Register, reports
    <2>6. CASE EndOfFile(c) BY <2>6, <1>3, Zenon DEF EndOfFile, Phase, Serving, reports
    <2>7. CASE Fail(c) BY <2>7, <1>2, Zenon DEF Fail, Finish, Phase, Serving
    <2>8. CASE Unroute(c) BY <2>8, <1>3, Zenon DEF Unroute, Phase, Serving, reports
    <2>9. CASE FailPending(c) BY <2>9, <1>3, Zenon DEF FailPending, Phase, Serving, reports
    <2>10. CASE Abort(c) BY <2>10, <1>2, Zenon DEF Abort, Phase, Serving
    <2>11. CASE Take(c)
      <3>1. /\ conn[c] \in Serving /\ UNCHANGED conn /\ queue' = [queue EXCEPT ![c] = Tail(@)]
            /\ held[c] = NoReport
        BY <2>11, Zenon DEF Take, sessions
      <3>2. Head(queue[c])[2] \in Kinds
        BY <2>11, HeadParts, Zenon DEF Take
      <3>3. \/ /\ held' = [held EXCEPT ![c] = <<Head(queue[c])[1], Head(queue[c])[2]>>]
               /\ Begin(c)
            \/ UNCHANGED <<held, work>>
        BY <2>11, Zenon DEF Take
      <3>4. <<Head(queue[c])[1], Head(queue[c])[2]>> # NoReport
        BY <3>2, <1>1
      <3>5. CASE UNCHANGED <<held, work>>
        BY <3>1, <3>5, <1>0 DEF FutureInv
      <3>6. CASE held' = [held EXCEPT ![c] = <<Head(queue[c])[1], Head(queue[c])[2]>>] /\ Begin(c)
        <4>1. held'[c] # NoReport /\ work'[c] # "none"
          BY <3>4, <3>6, <1>0 DEF Begin
        <4>2. \A d \in Conns : d # c => held'[d] = held[d] /\ work'[d] = work[d] /\ queue'[d] = queue[d]
          BY <3>1, <3>6, <1>0 DEF Begin
        <4> QED BY <3>1, <4>1, <4>2 DEF FutureInv
      <3> QED BY <3>3, <3>5, <3>6
    <2>12. ASSUME NEW w \in Works \ {"none"}, Returns(c, w), work[c] \in Running, UNCHANGED <<conn, queue>>
           PROVE  FutureInv'
      <3>1. \A d \in Conns : d # c => held'[d] = held[d] /\ work'[d] = work[d]
        BY <2>12, <1>0 DEF Returns
      <3>2. CASE conn[c] \in Serving
        BY <2>12, <3>1, <3>2, <1>0, Zenon DEF Returns, FutureInv, Running
      <3>3. CASE conn[c] \notin Serving
        BY <2>12, <3>1, <3>3, <1>0, Zenon DEF Returns, FutureInv
      <3> QED BY <3>2, <3>3
    <2>13. CASE WorkerRecord(c)
      <3>1. CASE Returns(c, "failed")
        BY <2>13, <3>1, <2>12, Zenon DEF WorkerRecord, sessions, Works, Running
      <3>2. CASE work' = [work EXCEPT ![c] = "wrote"] /\ UNCHANGED held
        BY <2>13, <3>2, <1>0, Zenon DEF WorkerRecord, sessions, FutureInv, Running
      <3> QED BY <2>13, <3>1, <3>2 DEF WorkerRecord
    <2>14. CASE WorkerReturn(c)
      <3>1. CASE closing
        BY <2>14, <3>1, <2>12 DEF WorkerReturn, sessions, Works, Owned, Running
      <3>2. CASE ~closing
        BY <2>14, <3>2, <2>12, Zenon DEF WorkerReturn, sessions, Works, Owned, Running
      <3> QED BY <3>1, <3>2
    <2>15. CASE Deliver(c)
      BY <2>15, <1>0 DEF Deliver, sessions, FutureInv
    <2> QED BY <1>5, <2>1, <2>2, <2>3, <2>4, <2>5, <2>6, <2>7, <2>8, <2>9, <2>10, <2>11, <2>13, <2>14, <2>15, Zenon DEF SessionStep
  <1>6. ASSUME NEW r \in Requests, CallStep(r) PROVE FutureInv'
    BY <1>4, <1>6 DEF CallStep, Invoke, Send, Timeout, Cleanup, sessions, reports
  <1>7. ASSUME NEW c \in Conns, NEW r \in Requests, FrameStep(c, r) PROVE FutureInv'
    <2>1. CASE Probe(c, r) \/ ControlReply(c, r)
      BY <2>1, <1>4 DEF Probe, ControlReply, sessions, reports
    <2>2. ASSUME NEW k \in Kinds, Report(c, r, k) PROVE FutureInv'
      <3>1. CASE Finish(c)
        BY <3>1, <1>2, Zenon DEF Finish, Phase, Serving
      <3>2. CASE queue' = [queue EXCEPT ![c] = Append(@, <<r, k>>)] /\ UNCHANGED <<sessions, held, work>>
        <4>1. conn[c] \in Serving
          BY <2>2, Zenon DEF Report, Correlated, Serving
        <4> QED BY <3>2, <4>1, <1>0 DEF FutureInv, sessions
      <3> QED BY <2>2, <3>1, <3>2 DEF Report
    <2> QED BY <1>7, <2>1, <2>2 DEF FrameStep
  <1>8. CASE GateStep
    BY <1>4, <1>8, Zenon DEF GateStep, Start, EndLoop, StopBegin, StopAwaited, StopDrained, StopRoutes, StopPending,
        StopCancelled, sessions, reports
  <1> QED BY <1>5, <1>6, <1>7, <1>8 DEF Next

-----------------------------------------------------------------------------
(* Stopping.                                                               *)

\* Without an accept loop and with every session over, nothing but callers,
\* detached saves and stop itself takes a step.
LEMMA OverStep ==
    ASSUME Types, FutureInv, Next, ~accepting, \A c \in Conns : conn[c] \in Idle
    PROVE  /\ UNCHANGED <<conn, node, leases, queue>>
           /\ Active' \subseteq Active
           /\ StopRoutes \/ UNCHANGED route
           /\ \/ GateStep \/ UNCHANGED requests \/ \E r \in Requests : CallStep(r)
  <1>0. work \in [Conns -> Works] BY TypeParts
  <1>1. \A c \in Conns : conn[c] \notin Serving /\ conn[c] \notin Leased /\ conn[c] # "auth"
    BY DEF Idle, Serving, Leased
  <1>2. CASE GateStep
    BY <1>2, Zenon DEF GateStep, Start, EndLoop, StopBegin, StopAwaited, StopDrained, StopRoutes, StopPending,
        StopCancelled, sessions, reports, Active
  <1>3. ASSUME NEW r \in Requests, CallStep(r)
        PROVE  UNCHANGED <<conn, node, leases, queue, route, work>>
    BY <1>3 DEF CallStep, Invoke, Send, Timeout, Cleanup, sessions, reports
  <1>4. ASSUME NEW c \in Conns, NEW r \in Requests, FrameStep(c, r) PROVE FALSE
    BY <1>1, <1>4, Zenon DEF FrameStep, Probe, ControlReply, Report, Correlated, Serving
  <1>5. ASSUME NEW c \in Conns, SessionStep(c)
        PROVE  UNCHANGED <<conn, node, leases, queue, route, requests>> /\ Active' \subseteq Active
    <2>1. ~ (\/ Connect(c) \/ (\E n \in Nodes : Authenticate(c, n)) \/ Admit(c) \/ Reject(c)
             \/ Register(c) \/ EndOfFile(c) \/ Fail(c) \/ Unroute(c) \/ FailPending(c) \/ Abort(c)
             \/ Take(c) \/ Deliver(c))
      BY <1>1, Zenon DEF Connect, Authenticate, Admit, Reject, Register, EndOfFile, Fail, Unroute, FailPending,
          Abort, Take, Deliver, Serving, Leased, Idle
    <2>2. WorkerRecord(c) \/ WorkerReturn(c)
      BY <1>5, <2>1, Zenon DEF SessionStep
    <2>3. UNCHANGED <<conn, node, leases, queue, route, requests>>
      BY <2>2 DEF WorkerRecord, WorkerReturn, sessions
    <2>4. work[c] \in Owned /\ \A d \in Conns : d # c => work'[d] = work[d]
      BY <2>2, <1>0, Zenon DEF WorkerRecord, WorkerReturn, Returns, Owned
    <2> QED BY <2>3, <2>4 DEF Active
  <1> QED BY <1>2, <1>3, <1>4, <1>5, Zenon DEF Next, Active

LEMMA StopKept ==
    ASSUME Types, FutureInv, StopInv, WaiterInv, Next
    PROVE  StopInv'
  <1> DEFINE Over == ~accepting /\ \A c \in Conns : conn[c] \in Idle
             Quiet == \A r \in Requests : pending[r] = NoPending /\ waiter[r] \notin Asking
  <1>0. /\ gate \in {"down", "up", "stopping"}
        /\ stopper \in {"none", "await", "drain", "routes", "pending"}
    BY TypeParts
  <1>1. ASSUME Over
        PROVE  /\ UNCHANGED <<conn, node, leases, queue>> /\ Active' \subseteq Active
               /\ StopRoutes \/ UNCHANGED route
               /\ \/ GateStep \/ UNCHANGED requests \/ \E r \in Requests : CallStep(r)
    BY <1>1, OverStep
  <1>2. gate' = "down" => gate = "down" \/ StopPending
    BY <1>0, AcceptSteps, Zenon DEF GateStep, Start, EndLoop, StopBegin, StopAwaited, StopDrained, StopRoutes,
        StopPending, StopCancelled
  <1>3. /\ stopper' = "drain" => stopper = "drain" \/ StopAwaited
        /\ stopper' = "routes" => stopper = "routes" \/ StopDrained
        /\ stopper' = "pending" => stopper = "pending" \/ StopRoutes
    BY <1>0, AcceptSteps, Zenon DEF GateStep, Start, EndLoop, StopBegin, StopAwaited, StopDrained, StopRoutes,
        StopPending, StopCancelled
  <1>4. accepting' => accepting \/ Start
    BY AcceptSteps, Zenon
  <1>5. ASSUME gate' = "down" \/ stopper' \in Draining
        PROVE  Over /\ ~Start
    <2>1. CASE gate' = "down"
      <3>1. gate = "down" \/ stopper \in Draining
        BY <1>2, <2>1 DEF StopPending, Draining
      <3>2. ~Start
        BY <2>1 DEF Start
      <3> QED BY <3>1, <3>2 DEF StopInv
    <2>2. CASE stopper' \in Draining
      <3>1. stopper \in Draining \/ StopAwaited
        BY <1>3, <2>2 DEF Draining, StopDrained, StopRoutes
      <3>2. ~Start
        BY <2>2 DEF Start, Draining
      <3>3. CASE StopAwaited BY <3>2, <3>3 DEF StopAwaited, Idle
      <3>4. CASE stopper \in Draining BY <3>2, <3>4 DEF StopInv
      <3> QED BY <3>1, <3>3, <3>4
    <2> QED BY <1>5, <2>1, <2>2
  <1>6. ASSUME gate' = "down" \/ stopper' \in Draining
        PROVE  ~accepting' /\ \A c \in Conns : conn'[c] \in Idle
    BY <1>1, <1>4, <1>5, <1>6
  <1>7. ASSUME gate' = "down" \/ stopper' \in {"routes", "pending"}
        PROVE  Active' = {}
    <2>1. Over BY <1>5, <1>7 DEF Draining
    <2>2. Active = {}
      BY <1>2, <1>3, <1>7, Zenon DEF StopInv, StopDrained, StopRoutes, StopPending
    <2> QED BY <1>1, <2>1, <2>2
  <1>8. ASSUME gate' = "down" \/ stopper' = "pending"
        PROVE  \A n \in Nodes : route'[n] = NoConn
    <2>1. Over BY <1>5, <1>8 DEF Draining
    <2>2. CASE StopRoutes BY <2>2 DEF StopRoutes
    <2>3. CASE ~StopRoutes
      BY <1>1, <1>2, <1>3, <1>8, <2>1, <2>3, Zenon DEF StopInv, StopPending
    <2> QED BY <2>2, <2>3
  <1>9. ASSUME gate' = "down"
        PROVE  \A r \in Requests : pending'[r] = NoPending /\ waiter'[r] \notin Asking
    <2>1. Over BY <1>5, <1>9
    <2>2. CASE StopPending
      <3> SUFFICES ASSUME NEW r \in Requests
                   PROVE  pending'[r] = NoPending /\ waiter'[r] \notin Asking
        BY Zenon
      <3>1. pending'[r] = NoPending
        BY <2>2, Zenon DEF StopPending, Answer
      <3>2. CASE pending[r] = NoPending
        <4>1. waiter[r] \notin Asking
          BY <2>1, <3>2 DEF WaiterInv, Idle, Serving
        <4> QED BY <2>2, <3>1, <3>2, <4>1, Zenon DEF StopPending, Answer
      <3>3. CASE pending[r] # NoPending
        BY <2>2, <3>1, <3>3, Zenon DEF StopPending, Answer, Asking
      <3> QED BY <3>2, <3>3
    <2>3. CASE gate = "down" /\ ~StopPending
      <3>1. \A r \in Requests : pending[r] = NoPending /\ waiter[r] \notin Asking
        BY <2>3 DEF StopInv
      <3>2. \A n \in Nodes : route[n] = NoConn
        BY <2>3 DEF StopInv
      <3>3. CASE UNCHANGED requests
        BY <3>1, <3>3, Zenon DEF requests
      <3>4. CASE GateStep
        BY <2>3, <3>3, <3>4, Zenon DEF GateStep, Start, EndLoop, StopBegin, StopAwaited, StopDrained, StopRoutes,
            StopCancelled, requests
      <3>5. ASSUME NEW r \in Requests, CallStep(r) PROVE FALSE
        BY <3>1, <3>2, <3>5, Zenon DEF CallStep, Invoke, Send, Timeout, Cleanup, Asking
      <3> QED BY <1>1, <2>1, <3>3, <3>4, <3>5, Zenon
    <2> QED BY <1>2, <1>9, <2>2, <2>3
  <1> QED BY <1>6, <1>7, <1>8, <1>9 DEF StopInv

-----------------------------------------------------------------------------
(* Waiters.                                                                *)

\* The part of the invariant that is about one request.
WaiterOf(r) ==
    /\ pending[r] # NoPending =>
          /\ pending[r].conn \in Conns
          /\ conn[pending[r].conn] \notin Early
          /\ accepting => conn[pending[r].conn] # "gone"
    /\ waiter[r] \in Asking /\ pending[r] = NoPending =>
          \E c \in Conns : conn[c] \in Serving /\ FinalInHand(c, r)

LEMMA WaiterParts == WaiterInv <=> \A r \in Requests : WaiterOf(r)
  BY DEF WaiterInv, WaiterOf, NoWaiterStranded

\* A session goes on, with the waiters and the envelope in hand as they were.
LEMMA WaiterPhase ==
    ASSUME Types, WaiterInv, NEW c \in Conns, NEW p \in Phase, conn' = [conn EXCEPT ![c] = p],
           UNCHANGED <<pending, waiter, held, accepting>>,
           conn[c] \notin Early => p \notin Early,
           conn[c] \in Serving => p \in Serving,
           p = "gone" => conn[c] \in Early
    PROVE  WaiterInv'
  <1>0. conn \in [Conns -> Phase] BY TypeParts, Zenon
  <1>1. \A d \in Conns : /\ conn[d] \notin Early => conn'[d] \notin Early
                         /\ conn[d] \in Serving => conn'[d] \in Serving
                         /\ conn'[d] = "gone" => conn[d] = "gone" \/ conn[d] \in Early
    BY <1>0, Zenon
  <1>2. ASSUME NEW r \in Requests PROVE WaiterOf(r)'
    <2>1. WaiterOf(r) BY WaiterParts
    <2>2. pending' = pending /\ waiter' = waiter /\ held' = held /\ accepting' = accepting
      BY Zenon
    <2>3. pending[r] # NoPending => /\ pending[r].conn \in Conns
                                    /\ conn'[pending[r].conn] \notin Early
                                    /\ accepting => conn'[pending[r].conn] # "gone"
      BY <2>1, <1>1, Zenon DEF WaiterOf
    <2>4. waiter[r] \in Asking /\ pending[r] = NoPending =>
            \E d \in Conns : conn'[d] \in Serving /\ FinalInHand(d, r)
      BY <2>1, <1>1, Zenon DEF WaiterOf
    <2> QED BY <2>2, <2>3, <2>4 DEF WaiterOf, FinalInHand
  <1> QED BY <1>2, Zenon DEF WaiterInv, WaiterOf, NoWaiterStranded

\* A session whose select ends, or which is aborted when nobody accepts.
LEMMA WaiterDrop ==
    ASSUME Types, WaiterInv, NEW c \in Conns, DropFutures(c), NEW p \in {"ending", "gone"},
           conn' = [conn EXCEPT ![c] = p], UNCHANGED <<pending, accepting>>,
           p = "gone" => ~accepting
    PROVE  WaiterInv'
  <1>0. conn \in [Conns -> Phase] /\ held \in [Conns -> Envelope] /\ waiter \in [Requests -> Outcome]
    BY TypeParts, Zenon
  <1>1. \A d \in Conns : d # c => conn'[d] = conn[d] /\ held'[d] = held[d]
    BY <1>0 DEF DropFutures
  <1>2. conn'[c] = p
    BY <1>0, Zenon
  <1>3. ASSUME NEW r \in Requests PROVE WaiterOf(r)'
    <2>1. WaiterOf(r) BY WaiterParts
    <2>2. pending' = pending /\ accepting' = accepting
      BY Zenon
    <2>3. pending[r] # NoPending => /\ pending[r].conn \in Conns
                                    /\ conn'[pending[r].conn] \notin Early
                                    /\ accepting => conn'[pending[r].conn] # "gone"
      BY <2>1, <1>1, <1>2, Zenon DEF WaiterOf, Early
    <2>4. ASSUME waiter'[r] \in Asking, pending[r] = NoPending
          PROVE  \E d \in Conns : conn'[d] \in Serving /\ FinalInHand(d, r)'
      <3>1. waiter[r] \in Asking /\ r # held[c][1]
        BY <2>4, Zenon DEF DropFutures, Asking
      <3>2. PICK d \in Conns : conn[d] \in Serving /\ FinalInHand(d, r)
        BY <3>1, <2>1, <2>4 DEF WaiterOf
      <3>3. d # c
        BY <3>1, <3>2, Zenon DEF FinalInHand
      <3> QED BY <3>2, <3>3, <1>1 DEF FinalInHand
    <2> QED BY <2>2, <2>3, <2>4 DEF WaiterOf
  <1> QED BY <1>3, Zenon DEF WaiterInv, WaiterOf, NoWaiterStranded

\* Waiters are answered while sessions and envelopes in hand stay as they are,
\* or while one session takes or gives back its envelope.
LEMMA WaiterTable ==
    ASSUME WaiterInv, UNCHANGED <<conn, accepting>>,
           \A r \in Requests :
              /\ pending'[r] # NoPending =>
                    /\ pending'[r].conn \in Conns
                    /\ conn[pending'[r].conn] \notin Early
                    /\ accepting => conn[pending'[r].conn] # "gone"
              /\ waiter'[r] \in Asking /\ pending'[r] = NoPending =>
                    \E c \in Conns : conn[c] \in Serving /\ FinalInHand(c, r)'
    PROVE  WaiterInv'
  BY Zenon DEF WaiterInv, NoWaiterStranded

\* Answering some waiters keeps what is so of the others.
LEMMA AnswerKeeps ==
    ASSUME Types, WaiterInv, NEW rs, NEW with, with \notin Asking, Answer(rs, with), UNCHANGED held,
           NEW r \in Requests
    PROVE  /\ pending'[r] = NoPending \/ (pending'[r] = pending[r] /\ r \notin rs)
           /\ waiter'[r] \in Asking => waiter[r] \in Asking /\ r \notin rs
           /\ waiter'[r] \in Asking /\ pending'[r] = NoPending =>
                 \E c \in Conns : conn[c] \in Serving /\ FinalInHand(c, r)'
  <1>1. /\ pending'[r] = (IF r \in rs THEN NoPending ELSE pending[r])
        /\ waiter'[r] = (IF r \in rs /\ waiter[r] \in Asking THEN with ELSE waiter[r])
    BY DEF Answer
  <1>2. waiter'[r] \in Asking => waiter[r] \in Asking /\ r \notin rs
    BY <1>1, Zenon
  <1>3. waiter[r] \in Asking /\ pending[r] = NoPending =>
           \E c \in Conns : conn[c] \in Serving /\ FinalInHand(c, r)
    BY DEF WaiterInv
  <1> QED BY <1>1, <1>2, <1>3, Zenon DEF FinalInHand

LEMMA WaiterSession ==
    ASSUME Types, RouteInv, WaiterInv, FutureInv, NEW c \in Conns, SessionStep(c)
    PROVE  WaiterInv'
  <1>0. /\ conn \in [Conns -> Phase] /\ held \in [Conns -> Envelope]
        /\ pending \in [Requests -> PendingType] /\ waiter \in [Requests -> Outcome]
        /\ NoConn \notin Conns /\ NoPending.conn = NoConn
    BY TypeParts, GatewayAssumption, NoPendingType
  <1>1. CASE Connect(c)
    BY <1>1, WaiterPhase, Zenon DEF Connect, Phase, Early, Serving, control, requests, reports
  <1>2. CASE \E n \in Nodes : Authenticate(c, n)
    <2>1. conn[c] = "auth" /\ UNCHANGED <<pending, waiter, held, accepting>>
      BY <1>2 DEF Authenticate, control, requests, reports
    <2>2. conn' = [conn EXCEPT ![c] = "gone"] \/ conn' = [conn EXCEPT ![c] = "leased"]
      BY <1>2 DEF Authenticate
    <2> QED BY <2>1, <2>2, WaiterPhase DEF Phase, Early, Serving
  <1>3. CASE Admit(c)
    BY <1>3, WaiterPhase, Zenon DEF Admit, Phase, Early, Serving, control, requests, reports
  <1>4. CASE Reject(c)
    <2>1. conn[c] \in Early /\ conn[c] \notin Serving
      BY <1>4 DEF Reject, Early, Serving
    <2> QED BY <1>4, <2>1, WaiterPhase, Zenon DEF Reject, Phase, control, requests, reports
  <1>5. CASE Register(c)
    BY <1>5, Zenon DEF Register, control, requests, reports, WaiterInv, NoWaiterStranded, FinalInHand
  <1>6. CASE EndOfFile(c)
    BY <1>6, WaiterPhase, Zenon DEF EndOfFile, Phase, Early, Serving, control, requests, reports
  <1>7. CASE Fail(c)
    BY <1>7, WaiterDrop, Zenon DEF Fail, Finish, control
  <1>8. CASE Unroute(c)
    BY <1>8, WaiterPhase, Zenon DEF Unroute, Phase, Early, Serving, control, requests, reports
  <1>9. CASE FailPending(c)
    <2> DEFINE rs == {q \in Requests : pending[q].conn = c}
    <2>1. /\ conn[c] = "unrouted" /\ conn' = [conn EXCEPT ![c] = "gone"]
          /\ Answer(rs, "disconnected") /\ held' = held /\ accepting' = accepting
      BY <1>9, Zenon DEF FailPending, control, reports
    <2>2. ASSUME NEW r \in Requests PROVE WaiterOf(r)'
      <3>1. "disconnected" \notin Asking BY Zenon DEF Asking
      <3>2. /\ pending'[r] = NoPending \/ (pending'[r] = pending[r] /\ r \notin rs)
            /\ waiter'[r] \in Asking /\ pending'[r] = NoPending =>
                  \E d \in Conns : conn[d] \in Serving /\ FinalInHand(d, r)'
        BY <2>1, <3>1, AnswerKeeps, Zenon
      <3>3. \A d \in Conns : conn[d] \in Serving => conn'[d] \in Serving
        BY <2>1, <1>0 DEF Serving
      <3>4. pending'[r] # NoPending => /\ pending'[r].conn \in Conns \ {c}
                                       /\ conn[pending'[r].conn] \notin Early
                                       /\ accepting => conn[pending'[r].conn] # "gone"
        BY <3>2, Zenon DEF WaiterInv, NoWaiterStranded
      <3>5. \A d \in Conns \ {c} : conn'[d] = conn[d]
        BY <2>1, <1>0
      <3> HIDE DEF rs
      <3> QED BY <3>2, <3>3, <3>4, <3>5, <2>1, Zenon DEF WaiterOf
    <2> QED BY <2>2, Zenon DEF WaiterInv, WaiterOf, NoWaiterStranded
  <1>10. CASE Abort(c)
    BY <1>10, WaiterDrop, Zenon DEF Abort, control
  <1>11. CASE Take(c)
    <2> DEFINE r == Head(queue[c])[1]
               k == Head(queue[c])[2]
    <2>1. /\ conn[c] \in Serving /\ held[c] = NoReport /\ UNCHANGED <<conn, accepting, waiter>>
          /\ r \in Requests /\ k \in Kinds
      BY <1>11, HeadParts, Zenon DEF Take, control, sessions, Requests
    <2>2. \/ /\ pending[r].conn = c /\ held' = [held EXCEPT ![c] = <<r, k>>]
             /\ pending' = [pending EXCEPT ![r].checkpoint = TRUE]
          \/ /\ held' = [held EXCEPT ![c] = <<r, k>>] /\ k # "ack"
             /\ pending' = [pending EXCEPT ![r] = NoPending]
          \/ UNCHANGED <<pending, held>>
      BY <1>11, Zenon DEF Take, TakesAck
    <2> HIDE DEF r, k
    <2>3. \A d \in Conns, q \in Requests : FinalInHand(d, q) => FinalInHand(d, q)'
      BY <1>0, <2>1, <2>2 DEF FinalInHand
    <2>4. ASSUME NEW q \in Requests
          PROVE  /\ pending'[q] # NoPending => pending[q] # NoPending /\ pending'[q].conn = pending[q].conn
                 /\ pending'[q] = NoPending => pending[q] = NoPending \/ FinalInHand(c, q)'
      <3>1. CASE /\ pending[r].conn = c /\ held' = [held EXCEPT ![c] = <<r, k>>]
                 /\ pending' = [pending EXCEPT ![r].checkpoint = TRUE]
        <4>1. pending[r] # NoPending BY <3>1, <1>0
        <4>2. pending[r] \in PendingType BY <1>0, <2>1
        <4>3. [pending[r] EXCEPT !.checkpoint = TRUE].conn = c
          BY <3>1, <4>2 DEF PendingType
        <4>4. pending'[q] = IF q = r THEN [pending[r] EXCEPT !.checkpoint = TRUE] ELSE pending[q]
          BY <3>1, <2>1, <1>0, Zenon
        <4> QED BY <3>1, <4>1, <4>3, <4>4, <1>0, Zenon
      <3>2. CASE /\ held' = [held EXCEPT ![c] = <<r, k>>] /\ k # "ack"
                 /\ pending' = [pending EXCEPT ![r] = NoPending]
        <4>1. <<r, k>> # NoReport
          BY <2>1, Zenon DEF NoReport, Kinds
        <4>2. q = r => FinalInHand(c, q)'
          BY <3>2, <4>1, <1>0, Zenon DEF FinalInHand
        <4>3. pending'[q] = IF q = r THEN NoPending ELSE pending[q]
          BY <3>2, <2>1, <1>0
        <4> QED BY <4>2, <4>3, Zenon
      <3> QED BY <3>1, <3>2, <2>2, Zenon
    <2>5. ASSUME NEW q \in Requests
          PROVE  /\ pending'[q] # NoPending =>
                       /\ pending'[q].conn \in Conns
                       /\ conn[pending'[q].conn] \notin Early
                       /\ accepting => conn[pending'[q].conn] # "gone"
                 /\ waiter'[q] \in Asking /\ pending'[q] = NoPending =>
                       \E d \in Conns : conn[d] \in Serving /\ FinalInHand(d, q)'
      BY <2>1, <2>3, <2>4, Zenon DEF WaiterInv, NoWaiterStranded
    <2> QED BY <2>1, <2>5, WaiterTable, Zenon
  <1>12. CASE WorkerRecord(c) \/ WorkerReturn(c)
    <2>1. UNCHANGED <<conn, accepting, pending, waiter>>
      BY <1>12, Zenon DEF WorkerRecord, WorkerReturn, control, sessions, requests
    <2>2. \A d \in Conns : conn[d] \in Serving => held'[d] = held[d]
      BY <1>12, <1>0, Zenon DEF WorkerRecord, WorkerReturn, Returns
    <2>3. \A d \in Conns, q \in Requests : conn[d] \in Serving /\ FinalInHand(d, q) => FinalInHand(d, q)'
      BY <2>2 DEF FinalInHand
    <2>4. ASSUME NEW q \in Requests
          PROVE  /\ pending'[q] # NoPending =>
                       /\ pending'[q].conn \in Conns
                       /\ conn[pending'[q].conn] \notin Early
                       /\ accepting => conn[pending'[q].conn] # "gone"
                 /\ waiter'[q] \in Asking /\ pending'[q] = NoPending =>
                       \E d \in Conns : conn[d] \in Serving /\ FinalInHand(d, q)'
      BY <2>1, <2>3, Zenon DEF WaiterInv, NoWaiterStranded
    <2> QED BY <2>1, <2>4, WaiterTable, Zenon
  <1>13. CASE Deliver(c)
    <2> DEFINE r == held[c][1]
    <2>1. /\ UNCHANGED <<conn, accepting>> /\ held' = [held EXCEPT ![c] = NoReport]
          /\ work[c] # "none"
      BY <1>13 DEF Deliver, control, sessions
    <2>2. held[c] # NoReport /\ r \in Requests
      BY <2>1, HandParts, Zenon DEF FutureInv, Requests
    <2>3. CASE held[c][2] # "ack"
      <3>1. PICK w \in {"ok", "journal"} : Answer({r}, w)
        BY <1>13, <2>3, Zenon DEF Deliver, FinalRecorded
      <3>2. ASSUME NEW q \in Requests
            PROVE  /\ pending'[q] # NoPending => pending'[q] = pending[q]
                   /\ waiter'[q] \in Asking => waiter[q] \in Asking /\ q # r /\ pending'[q] = pending[q]
        BY <3>1 DEF Answer, Asking
      <3>3. \A d \in Conns, q \in Requests : FinalInHand(d, q) /\ q # r => FinalInHand(d, q)'
        BY <2>1, <1>0, Zenon DEF FinalInHand
      <3> HIDE DEF r
      <3>4. ASSUME NEW q \in Requests
            PROVE  /\ pending'[q] # NoPending =>
                         /\ pending'[q].conn \in Conns
                         /\ conn[pending'[q].conn] \notin Early
                         /\ accepting => conn[pending'[q].conn] # "gone"
                   /\ waiter'[q] \in Asking /\ pending'[q] = NoPending =>
                         \E d \in Conns : conn[d] \in Serving /\ FinalInHand(d, q)'
        BY <3>2, <3>3, Zenon DEF WaiterInv, NoWaiterStranded
      <3> QED BY <3>4, <2>1, WaiterTable, Zenon
    <2>4. CASE held[c][2] = "ack"
      <3>1. \/ Answer({r}, "journal")
            \/ /\ pending' = [pending EXCEPT ![r].checkpoint = FALSE, ![r].acked = TRUE] /\ UNCHANGED waiter
               /\ pending[r].conn = c
            \/ UNCHANGED <<pending, waiter>>
        BY <1>13, <2>4, Zenon DEF Deliver, AckRecorded, requests
      <3>2. \A d \in Conns, q \in Requests : FinalInHand(d, q) => FinalInHand(d, q)'
        BY <2>1, <2>4, <1>0, Zenon DEF FinalInHand
      <3> HIDE DEF r
      <3>3. ASSUME NEW q \in Requests
            PROVE  /\ pending'[q] # NoPending => pending[q] # NoPending /\ pending'[q].conn = pending[q].conn
                   /\ waiter'[q] \in Asking /\ pending'[q] = NoPending => waiter[q] \in Asking /\ pending[q] = NoPending
        <4>1. CASE Answer({r}, "journal")
          BY <4>1 DEF Answer, Asking
        <4>2. CASE /\ pending' = [pending EXCEPT ![r].checkpoint = FALSE, ![r].acked = TRUE] /\ UNCHANGED waiter
                   /\ pending[r].conn = c
          <5> DEFINE P == [[pending[r] EXCEPT !.checkpoint = FALSE] EXCEPT !.acked = TRUE]
          <5>1. pending[r] \in PendingType BY <1>0, <2>2
          <5>2. P.conn = c
            BY <4>2, <5>1 DEF PendingType
          <5>3. pending'[q] = IF q = r THEN P ELSE pending[q]
            BY <4>2, <2>2, <1>0
          <5> HIDE DEF P
          <5> QED BY <4>2, <5>2, <5>3, <1>0, Zenon
        <4> QED BY <3>1, <4>1, <4>2, Zenon
      <3>4. ASSUME NEW q \in Requests
            PROVE  /\ pending'[q] # NoPending =>
                         /\ pending'[q].conn \in Conns
                         /\ conn[pending'[q].conn] \notin Early
                         /\ accepting => conn[pending'[q].conn] # "gone"
                   /\ waiter'[q] \in Asking /\ pending'[q] = NoPending =>
                         \E d \in Conns : conn[d] \in Serving /\ FinalInHand(d, q)'
        BY <3>2, <3>3, Zenon DEF WaiterInv, NoWaiterStranded
      <3> QED BY <3>4, <2>1, WaiterTable, Zenon
    <2> QED BY <2>3, <2>4, Zenon
  <1> QED BY <1>1, <1>2, <1>3, <1>4, <1>5, <1>6, <1>7, <1>8, <1>9, <1>10, <1>11, <1>12, <1>13, Zenon DEF SessionStep

LEMMA WaiterOthers ==
    ASSUME Types, RouteInv, StopInv, WaiterInv, FutureInv,
           \/ GateStep \/ \E r \in Requests : CallStep(r)
           \/ \E c \in Conns, r \in Requests : FrameStep(c, r)
    PROVE  WaiterInv'
  <1>0. /\ conn \in [Conns -> Phase] /\ held \in [Conns -> Envelope]
        /\ pending \in [Requests -> PendingType] /\ waiter \in [Requests -> Outcome]
        /\ route \in [Nodes -> Conns \cup {NoConn}]
        /\ NoConn \notin Conns /\ NoPending.conn = NoConn
    BY TypeParts, GatewayAssumption, NoPendingType, Zenon
  <1>1. ASSUME UNCHANGED <<conn, accepting, held>>, NEW with, with \notin Asking,
               NEW rs, Answer(rs, with)
        PROVE  WaiterInv'
    <2>1. ASSUME NEW q \in Requests
          PROVE  /\ pending'[q] # NoPending =>
                       /\ pending'[q].conn \in Conns
                       /\ conn[pending'[q].conn] \notin Early
                       /\ accepting => conn[pending'[q].conn] # "gone"
                 /\ waiter'[q] \in Asking /\ pending'[q] = NoPending =>
                       \E d \in Conns : conn[d] \in Serving /\ FinalInHand(d, q)'
      <3>1. /\ pending'[q] = NoPending \/ pending'[q] = pending[q]
            /\ waiter'[q] \in Asking /\ pending'[q] = NoPending =>
                  \E d \in Conns : conn[d] \in Serving /\ FinalInHand(d, q)'
        BY <1>1, AnswerKeeps, Zenon
      <3> QED BY <3>1 DEF WaiterInv, NoWaiterStranded
    <2> QED BY <1>1, <2>1, WaiterTable, Zenon
  <1>2. ASSUME UNCHANGED <<conn, accepting, held>>,
               \A q \in Requests :
                  /\ pending'[q] # NoPending => pending[q] # NoPending /\ pending'[q].conn = pending[q].conn
                  /\ waiter'[q] \in Asking /\ pending'[q] = NoPending => waiter[q] \in Asking /\ pending[q] = NoPending
        PROVE  WaiterInv'
    BY <1>2, Zenon DEF WaiterInv, NoWaiterStranded, FinalInHand
  <1>3. CASE GateStep
    <2>1. CASE Start
      <3>1. /\ \A r \in Requests : pending[r] = NoPending /\ waiter[r] \notin Asking
            /\ UNCHANGED requests
        BY <2>1, Zenon DEF Start, StopInv
      <3> QED BY <3>1, Zenon DEF WaiterInv, NoWaiterStranded, requests
    <2>2. CASE EndLoop
      BY <2>2, Zenon DEF EndLoop, sessions, requests, reports, WaiterInv, NoWaiterStranded, FinalInHand
    <2>3. CASE StopPending
      <3>1. "stopped" \notin Asking /\ UNCHANGED <<conn, accepting, held>>
        BY <2>3 DEF StopPending, sessions, reports, Asking
      <3>2. Answer({q \in Requests : pending[q] # NoPending}, "stopped")
        BY <2>3, Zenon DEF StopPending
      <3> QED BY <3>1, <3>2, <1>1, Zenon
    <2>4. CASE StopBegin \/ StopAwaited \/ StopDrained \/ StopRoutes \/ StopCancelled
      <3>1. UNCHANGED <<conn, accepting, held, pending, waiter>>
        BY <2>4, Zenon DEF StopBegin, StopAwaited, StopDrained, StopRoutes, StopCancelled, sessions, requests, reports
      <3> QED BY <3>1, Zenon DEF WaiterInv, NoWaiterStranded, FinalInHand
    <2> QED BY <1>3, <2>1, <2>2, <2>3, <2>4 DEF GateStep
  <1>4. ASSUME NEW r \in Requests, NEW n \in Nodes, Invoke(r, n) PROVE WaiterInv'
    <2> DEFINE c == route[n]
               P == [NoPending EXCEPT !.conn = c]
    <2>1. /\ c \in Conns /\ conn[c] \notin Early /\ (accepting => conn[c] # "gone")
      BY <1>0, <1>4 DEF Invoke, RouteInv, Early, Serving
    <2>2. P.conn = c
      BY DEF NoPending
    <2>3. /\ pending' = [pending EXCEPT ![r] = P] /\ waiter' = [waiter EXCEPT ![r] = "sending"]
          /\ UNCHANGED <<conn, accepting, held>>
      BY <1>4 DEF Invoke, control, sessions, reports
    <2> HIDE DEF P, c
    <2>4. ASSUME NEW q \in Requests
          PROVE  /\ pending'[q] # NoPending =>
                       /\ pending'[q].conn \in Conns
                       /\ conn[pending'[q].conn] \notin Early
                       /\ accepting => conn[pending'[q].conn] # "gone"
                 /\ waiter'[q] \in Asking /\ pending'[q] = NoPending =>
                       \E d \in Conns : conn[d] \in Serving /\ FinalInHand(d, q)'
      <3>1. CASE q = r
        <4>1. pending'[q] = P BY <3>1, <2>3, <1>0
        <4> QED BY <4>1, <2>1, <2>2, <1>0, Zenon
      <3>2. CASE q # r
        <4>1. pending'[q] = pending[q] /\ waiter'[q] = waiter[q] BY <3>2, <2>3, <1>0, Zenon
        <4> QED BY <4>1, <2>3, Zenon DEF WaiterInv, NoWaiterStranded, FinalInHand
      <3> QED BY <3>1, <3>2, Zenon
    <2> QED BY <2>3, <2>4, WaiterTable, Zenon
  <1>5. ASSUME NEW r \in Requests, Send(r) \/ Timeout(r) \/ Cleanup(r) PROVE WaiterInv'
    <2>1. UNCHANGED <<conn, accepting, held>>
      BY <1>5, Zenon DEF Send, Timeout, Cleanup, control, sessions, reports
    <2>2. ASSUME NEW q \in Requests
          PROVE  /\ pending'[q] # NoPending => pending[q] # NoPending /\ pending'[q].conn = pending[q].conn
                 /\ waiter'[q] \in Asking /\ pending'[q] = NoPending => waiter[q] \in Asking /\ pending[q] = NoPending
      BY <1>0, <1>5, Zenon DEF Send, Timeout, Cleanup, Asking
    <2> QED BY <2>1, <2>2, <1>2
  <1>6. ASSUME NEW c \in Conns, NEW r \in Requests, Probe(c, r) PROVE WaiterInv'
    <2> DEFINE P == [pending[r] EXCEPT !.probed = TRUE]
    <2>1. /\ pending' = [pending EXCEPT ![r] = P] /\ UNCHANGED <<conn, accepting, held, waiter>>
          /\ pending[r].conn = c
      BY <1>6 DEF Probe, Correlated, control, sessions, reports
    <2>2. P.conn = c
      BY <1>0, <2>1 DEF PendingType
    <2> HIDE DEF P
    <2>3. ASSUME NEW q \in Requests
          PROVE  /\ pending'[q] # NoPending => pending[q] # NoPending /\ pending'[q].conn = pending[q].conn
                 /\ waiter'[q] \in Asking /\ pending'[q] = NoPending => waiter[q] \in Asking /\ pending[q] = NoPending
      BY <1>0, <2>1, <2>2
    <2> QED BY <2>1, <2>3, <1>2
  <1>7. ASSUME NEW c \in Conns, NEW r \in Requests, ControlReply(c, r) PROVE WaiterInv'
    <2>1. "ok" \notin Asking /\ UNCHANGED <<conn, accepting, held>> /\ Answer({r}, "ok")
      BY <1>7 DEF ControlReply, control, sessions, reports, Asking
    <2> QED BY <2>1, <1>1
  <1>8. ASSUME NEW c \in Conns, NEW r \in Requests, NEW k \in Kinds, Report(c, r, k) PROVE WaiterInv'
    <2>1. CASE Finish(c)
      BY <2>1, WaiterDrop, Zenon DEF Finish, control
    <2>2. CASE UNCHANGED <<control, sessions, requests, held>>
      BY <2>2, Zenon DEF control, sessions, requests, WaiterInv, NoWaiterStranded, FinalInHand
    <2> QED BY <1>8, <2>1, <2>2 DEF Report
  <1> QED BY <1>3, <1>4, <1>5, <1>6, <1>7, <1>8, Zenon DEF CallStep, FrameStep

-----------------------------------------------------------------------------
(* The invariant of sessions, waiters and stop, and what follows from it.  *)

LEMMA SessionNext ==
    ASSUME SessionInv, [Next]_vars
    PROVE  SessionInv'
  <1>1. CASE UNCHANGED vars
    <2>1. /\ UNCHANGED <<gate, accepting, stopper, closing, starts, conn, node, leases, route, registered>>
          /\ UNCHANGED <<pending, waiter, queue, held, work, saved>>
      BY <1>1, Zenon DEF vars, control, sessions, requests, reports
    <2>2. Types' BY <2>1, Zenon DEF SessionInv, Types, TypeOK, QueueType
    <2>3. LeaseInv' BY <2>1, Zenon DEF SessionInv, LeaseInv
    <2>4. RouteInv' BY <2>1, Zenon DEF SessionInv, RouteInv, RouteIsOwn
    <2>5. StopInv' BY <2>1, Zenon DEF SessionInv, StopInv, Active
    <2>6. WaiterInv' BY <2>1, Zenon DEF SessionInv, WaiterInv, NoWaiterStranded, FinalInHand
    <2>7. FutureInv' BY <2>1 DEF SessionInv, FutureInv
    <2> QED BY <2>2, <2>3, <2>4, <2>5, <2>6, <2>7 DEF SessionInv
  <1>2. CASE Next
    <2>1. Types /\ LeaseInv /\ RouteInv /\ StopInv /\ WaiterInv /\ FutureInv
      BY DEF SessionInv
    <2>2. WaiterInv'
      BY <1>2, <2>1, WaiterSession, WaiterOthers DEF Next
    <2> QED BY <1>2, <2>1, <2>2, TypesKept, LeaseKept, RouteKept, StopKept, FutureKept, Zenon DEF SessionInv
  <1> QED BY <1>1, <1>2

\* The gateway keeps this invariant for every number of identities, connections,
\* requests, starts and limits.
THEOREM GatewayInvariant == Spec => []SessionInv
  <1>1. Init => SessionInv BY GatewayInit
  <1>2. SessionInv /\ [Next]_vars => SessionInv' BY SessionNext
  <1> QED BY <1>1, <1>2, PTL DEF Spec

\* A session that serves or cleans up owns the routing entry it will remove by
\* identity (handle_connection).
THEOREM RoutesAreOwn == Spec => []RouteIsOwn
  <1>1. SessionInv => RouteIsOwn BY DEF SessionInv, RouteInv
  <1> QED BY <1>1, GatewayInvariant, PTL

\* While the gateway accepts, no waiter belongs to a session that is gone
\* (invoke_message against fail_pending_for).
THEOREM WaitersAnswered == Spec => []NoWaiterStranded
  <1>1. SessionInv => NoWaiterStranded BY Zenon DEF SessionInv, WaiterInv
  <1> QED BY <1>1, GatewayInvariant, PTL

\* A stopped gateway holds no identity, route, waiter, envelope or save, however
\* its stops were cancelled and repeated (NodeServer::stop).
THEOREM DownIsQuiet == Spec => []QuietWhenDown
  <1>1. SessionInv => QuietWhenDown
    <2> SUFFICES ASSUME SessionInv, gate = "down" PROVE QuietWhenDown
      BY DEF QuietWhenDown
    <2>1. \A c \in Conns : conn[c] \in Idle
      BY Zenon DEF SessionInv, StopInv
    <2>2. leases = {}
      BY <2>1, Zenon DEF SessionInv, LeaseInv, Idle, Leased
    <2>3. \A c \in Conns : queue[c] = <<>>
      BY <2>1 DEF SessionInv, FutureInv, Idle, Serving
    <2>4. Envelopes = {}
      <3> SUFFICES ASSUME NEW c \in Conns, NEW i \in 1..QueueLimit, i <= Len(queue[c]) PROVE FALSE
        BY DEF Envelopes
      <3>1. Len(queue[c]) = 0 BY <2>3, SMTT(30)
      <3> QED BY <3>1, GatewayAssumption
    <2> QED BY <2>2, <2>4 DEF SessionInv, StopInv, QuietWhenDown
  <1> QED BY <1>1, GatewayInvariant, PTL

-----------------------------------------------------------------------------
(* Reports: what is saved, and what is in hand for saving.                 *)

NeedsAck(r, k) == k = "done" \/ (k = "unknown" /\ r \notin Peers)

\* A final report ends the story of its grant.
Ends(r, k) ==
    /\ NeedsAck(r, k) => "ack" \in saved[r]
    /\ k = "rejected" => "ack" \notin saved[r] /\ \A c \in Conns : held[c] # <<r, "ack">>

\* The waiter of a grant, the envelopes of it that sessions or detached workers
\* have in hand, and what was recorded agree: a registered waiter has seen no
\* final report, an acceptance in hand is the checkpoint of its waiter, and of
\* final reports at most one is ever in hand or recorded.
StoryOf(r) ==
    /\ waiter[r] = "idle" => pending[r] = NoPending /\ saved[r] = {} /\
                             \A c \in Conns, k \in Kinds : held[c] # <<r, k>>
    /\ pending[r] # NoPending => saved[r] \subseteq {"ack"} /\
                             \A c \in Conns, k \in Kinds \ {"ack"} : held[c] # <<r, k>>
    /\ pending[r] # NoPending /\ ~pending[r].acked /\ ~pending[r].checkpoint =>
          "ack" \notin saved[r] /\ \A c \in Conns : held[c] # <<r, "ack">>
    /\ pending[r].acked => "ack" \in saved[r]
    /\ \A c \in Conns : held[c] = <<r, "ack">> /\ pending[r] # NoPending =>
          pending[r].conn = c /\ pending[r].checkpoint /\ ~pending[r].acked
    /\ waiter[r] = "ok" => \E k \in Kinds \ {"ack"} : k \in saved[r]
    /\ \A c \in Conns, k \in Kinds : held[c] = <<r, k>> /\ work[c] \in {"wrote", "saved"} => k \in saved[r]
    /\ \A c \in Conns, k \in Kinds \ {"ack"} : held[c] = <<r, k>> =>
          /\ saved[r] \subseteq {"ack", k} /\ Ends(r, k)
          /\ \A d \in Conns, l \in Kinds \ {"ack"} : held[d] = <<r, l>> => d = c
    /\ \A k \in Kinds \ {"ack"} : k \in saved[r] => saved[r] \subseteq {"ack", k} /\ Ends(r, k)

StoryInv == \A r \in Grants : StoryOf(r)

LEMMA StoryInit == Init => StoryInv
  <1>1. \A r, k : k \in Kinds => NoReport # <<r, k>>
    BY DEF NoReport, Kinds
  <1>2. NoPending.acked = FALSE BY DEF NoPending
  <1> QED BY <1>1, <1>2 DEF Init, StoryInv, StoryOf, Requests, Ends

\* Nothing new is recorded or taken in hand, and the waiter may only go.
Fewer(r) ==
    /\ pending'[r] = NoPending \/ pending'[r] = pending[r]
    /\ saved'[r] = saved[r]
    /\ waiter'[r] = waiter[r] \/ waiter'[r] \notin {"idle", "ok"}
    /\ \A c \in Conns : \/ held'[c] = NoReport
                        \/ /\ held'[c] = held[c]
                           /\ work'[c] \in {"wrote", "saved"} => work[c] \in {"wrote", "saved"}

\* What a request keeps of its waiter, of the records and of the envelopes in
\* hand when nothing is added to them.
Shrinks(r) ==
    /\ pending'[r] # NoPending =>
          /\ pending[r] # NoPending /\ pending'[r].conn = pending[r].conn
          /\ pending'[r].acked = pending[r].acked /\ pending'[r].checkpoint = pending[r].checkpoint
    /\ saved'[r] = saved[r]
    /\ waiter'[r] # waiter[r] => waiter'[r] # "idle"
    /\ waiter'[r] # waiter[r] /\ waiter'[r] = "ok" => \E k \in Kinds \ {"ack"} : k \in saved[r]
    /\ \A c \in Conns, k \in Kinds : held'[c] = <<r, k>> =>
          held[c] = <<r, k>> /\ (work'[c] \in {"wrote", "saved"} => work[c] \in {"wrote", "saved"})

LEMMA ShrinksKeeps ==
    ASSUME NEW r \in Grants, StoryOf(r), Shrinks(r)
    PROVE  StoryOf(r)'
  <1>2. NoPending.acked = FALSE BY DEF NoPending
  <1>3. \A c \in Conns, k \in Kinds : held'[c] = <<r, k>> =>
           held[c] = <<r, k>> /\ (work'[c] \in {"wrote", "saved"} => work[c] \in {"wrote", "saved"})
    BY Zenon DEF Shrinks
  <1>4. "ack" \in Kinds BY DEF Kinds
  <1>6. /\ saved'[r] = saved[r]
        /\ pending'[r] # NoPending =>
             /\ pending[r] # NoPending /\ pending'[r].conn = pending[r].conn
             /\ pending'[r].acked = pending[r].acked /\ pending'[r].checkpoint = pending[r].checkpoint
    BY Zenon DEF Shrinks
  <1>5. \A k \in Kinds : Ends(r, k) => Ends(r, k)'
    BY <1>3, <1>4, <1>6, Zenon DEF Ends
  <1>7. waiter'[r] = "idle" => pending'[r] = NoPending /\ saved'[r] = {} /\
                             \A c \in Conns, k \in Kinds : held'[c] # <<r, k>>
    <2>1. waiter'[r] = "idle" => waiter[r] = "idle"
      BY Zenon DEF Shrinks
    <2>2. waiter[r] = "idle" => pending[r] = NoPending /\ saved[r] = {} /\
                             \A c \in Conns, k \in Kinds : held[c] # <<r, k>>
      BY Zenon DEF StoryOf
    <2> QED BY <2>1, <2>2, <1>3, <1>6, Zenon
  <1>8. pending'[r] # NoPending => saved'[r] \subseteq {"ack"} /\
                             \A c \in Conns, k \in Kinds \ {"ack"} : held'[c] # <<r, k>>
    <2>1. pending'[r] # NoPending => saved'[r] \subseteq {"ack"}
      BY <1>6, Zenon DEF StoryOf
    <2>2. pending'[r] # NoPending => \A c \in Conns, k \in Kinds \ {"ack"} : held[c] # <<r, k>>
      BY <1>6, Zenon DEF StoryOf
    <2>3. \A k \in Kinds \ {"ack"} : k \in Kinds OBVIOUS
    <2> QED BY <2>1, <2>2, <2>3, <1>3, Zenon
  <1>9. pending'[r] # NoPending /\ ~pending'[r].acked /\ ~pending'[r].checkpoint =>
          "ack" \notin saved'[r] /\ \A c \in Conns : held'[c] # <<r, "ack">>
    BY <1>3, <1>4, <1>6, Zenon DEF StoryOf
  <1>10. pending'[r].acked => "ack" \in saved'[r]
    <2>1. CASE pending'[r] = NoPending BY <1>2, <2>1, Zenon
    <2>2. CASE pending'[r] # NoPending
      <3>1. pending[r].acked => "ack" \in saved[r] BY Zenon DEF StoryOf
      <3> QED BY <1>6, <2>2, <3>1, Zenon
    <2> QED BY <2>1, <2>2, Zenon
  <1>11. \A c \in Conns : held'[c] = <<r, "ack">> /\ pending'[r] # NoPending =>
          pending'[r].conn = c /\ pending'[r].checkpoint /\ ~pending'[r].acked
    <2>1. \A c \in Conns : held[c] = <<r, "ack">> /\ pending[r] # NoPending =>
          pending[r].conn = c /\ pending[r].checkpoint /\ ~pending[r].acked
      BY Zenon DEF StoryOf
    <2> QED BY <1>3, <1>4, <1>6, <2>1, Zenon
  <1>12. waiter'[r] = "ok" => \E k \in Kinds \ {"ack"} : k \in saved'[r]
    <2>1. CASE waiter'[r] = waiter[r] BY <1>6, <2>1, Zenon DEF StoryOf
    <2>2. CASE waiter'[r] # waiter[r] BY <2>2, Zenon DEF Shrinks
    <2> QED BY <2>1, <2>2, Zenon
  <1>13. \A c \in Conns, k \in Kinds : held'[c] = <<r, k>> /\ work'[c] \in {"wrote", "saved"} => k \in saved'[r]
    <2>1. \A c \in Conns, k \in Kinds : held[c] = <<r, k>> /\ work[c] \in {"wrote", "saved"} => k \in saved[r]
      BY Zenon DEF StoryOf
    <2> QED BY <1>3, <1>6, <2>1, Zenon
  <1>14. \A c \in Conns, k \in Kinds \ {"ack"} : held'[c] = <<r, k>> =>
          /\ saved'[r] \subseteq {"ack", k} /\ Ends(r, k)'
          /\ \A d \in Conns, l \in Kinds \ {"ack"} : held'[d] = <<r, l>> => d = c
    <2> SUFFICES ASSUME NEW c \in Conns, NEW k \in Kinds \ {"ack"}, held'[c] = <<r, k>>
                 PROVE  /\ saved'[r] \subseteq {"ack", k} /\ Ends(r, k)'
                        /\ \A d \in Conns, l \in Kinds \ {"ack"} : held'[d] = <<r, l>> => d = c
      BY Zenon
    <2>1. k \in Kinds /\ held[c] = <<r, k>> BY <1>3
    <2>2. saved[r] \subseteq {"ack", k} /\ Ends(r, k) BY <2>1, Zenon DEF StoryOf
    <2>3. \A d \in Conns, l \in Kinds \ {"ack"} : held[d] = <<r, l>> => d = c
      BY <2>1, Zenon DEF StoryOf
    <2>4. \A d \in Conns, l \in Kinds \ {"ack"} : held'[d] = <<r, l>> => d = c
      BY <2>3, <1>3
    <2> QED BY <1>5, <1>6, <2>1, <2>2, <2>4, Zenon
  <1>15. \A k \in Kinds \ {"ack"} : k \in saved'[r] => saved'[r] \subseteq {"ack", k} /\ Ends(r, k)'
    BY <1>5, <1>6, Zenon DEF StoryOf
  <1> QED BY <1>7, <1>8, <1>9, <1>10, <1>11, <1>12, <1>13, <1>14, <1>15, Zenon DEF StoryOf

LEMMA FewerKeeps ==
    ASSUME NEW r \in Grants, StoryOf(r), Fewer(r)
    PROVE  StoryOf(r)'
  <1>1. \A k \in Kinds : NoReport # <<r, k>> BY DEF NoReport, Kinds
  <1>3. \A c \in Conns, k \in Kinds : held'[c] = <<r, k>> =>
           held[c] = <<r, k>> /\ (work'[c] \in {"wrote", "saved"} => work[c] \in {"wrote", "saved"})
    BY <1>1, Zenon DEF Fewer
  <1>4. Shrinks(r) BY <1>3, Zenon DEF Fewer, Shrinks
  <1> QED BY <1>4, ShrinksKeeps, Zenon

\* The steps that record nothing and take nothing in hand.
LEMMA FewerSteps ==
    ASSUME Types, FutureInv, NEW q \in Grants,
           \/ GateStep
           \/ \E c \in Conns :
                 \/ Connect(c) \/ \E n \in Nodes : Authenticate(c, n)
                 \/ Admit(c) \/ Reject(c) \/ Register(c) \/ EndOfFile(c) \/ Fail(c)
                 \/ Unroute(c) \/ FailPending(c) \/ Abort(c) \/ WorkerReturn(c)
                 \/ WorkerRecord(c) /\ work'[c] # "wrote"
           \/ \E r \in Requests : Send(r) \/ Timeout(r) \/ Cleanup(r)
           \/ \E c \in Conns, r \in Requests :
                 \/ ControlReply(c, r)
                 \/ \E k \in Kinds : Report(c, r, k)
    PROVE  Fewer(q)
  <1>0. /\ held \in [Conns -> Envelope] /\ work \in [Conns -> Works]
        /\ pending \in [Requests -> PendingType] /\ waiter \in [Requests -> Outcome]
        /\ q \in Requests /\ q \notin Controls
    BY TypeParts, GatewayAssumption, Zenon DEF Requests
  <1>1. CASE UNCHANGED <<held, work, pending, waiter, saved>>
    BY <1>1, Zenon DEF Fewer
  <1>2. ASSUME NEW c \in Conns, DropFutures(c), UNCHANGED <<pending, saved>> PROVE Fewer(q)
    <2>1. waiter'[q] = waiter[q] \/ waiter'[q] = "disconnected"
      BY <1>2, <1>0, Zenon DEF DropFutures
    <2>2. \A d \in Conns : held'[d] = NoReport \/ (held'[d] = held[d] /\ work'[d] = work[d])
      BY <1>2, <1>0, Zenon DEF DropFutures
    <2> QED BY <1>2, <2>1, <2>2, Zenon DEF Fewer
  <1>3. ASSUME NEW rs, NEW with, with \notin {"idle", "ok"} \/ q \notin rs, Answer(rs, with),
               UNCHANGED <<held, work, saved>>
        PROVE  Fewer(q)
    BY <1>0, <1>3, Zenon DEF Answer, Fewer
  <1>4. CASE GateStep
    <2>1. CASE StopPending
      BY <2>1, <1>3 DEF StopPending, reports
    <2>2. CASE Start \/ EndLoop \/ StopBegin \/ StopAwaited \/ StopDrained \/ StopRoutes \/ StopCancelled
      BY <2>2, <1>1, Zenon DEF Start, EndLoop, StopBegin, StopAwaited, StopDrained, StopRoutes, StopCancelled,
          requests, reports
    <2> QED BY <1>4, <2>1, <2>2, Zenon DEF GateStep
  <1>5. ASSUME NEW c \in Conns,
               \/ Connect(c) \/ \E n \in Nodes : Authenticate(c, n)
               \/ Admit(c) \/ Reject(c) \/ Register(c) \/ EndOfFile(c) \/ Unroute(c)
        PROVE  Fewer(q)
    BY <1>1, <1>5, Zenon DEF Connect, Authenticate, Admit, Reject, Register, EndOfFile, Unroute, requests, reports
  <1>6. ASSUME NEW c \in Conns, Fail(c) \/ Abort(c) PROVE Fewer(q)
    BY <1>2, <1>6, Zenon DEF Fail, Finish, Abort
  <1>7. ASSUME NEW c \in Conns, FailPending(c) PROVE Fewer(q)
    BY <1>3, <1>7, Zenon DEF FailPending, reports
  <1>8. ASSUME NEW c \in Conns, NEW w \in {"failed", "saved"}, Returns(c, w), UNCHANGED <<pending, waiter, saved>>,
               w = "saved" => work[c] = "wrote"
        PROVE  Fewer(q)
    <2>1. CASE conn[c] \in Serving BY <1>0, <1>8, <2>1, Zenon DEF Returns, Fewer
    <2>2. CASE conn[c] \notin Serving BY <1>0, <1>8, <2>2, Zenon DEF Returns, Fewer
    <2> QED BY <2>1, <2>2, Zenon
  <1>9. ASSUME NEW c \in Conns, WorkerReturn(c) PROVE Fewer(q)
    <2>1. PICK w \in {"failed", "saved"} : Returns(c, w) /\ work[c] = "wrote" /\ UNCHANGED <<pending, waiter, saved>>
      BY <1>9, Zenon DEF WorkerReturn, requests
    <2> QED BY <1>8, <2>1, Zenon
  <1>10. ASSUME NEW c \in Conns, WorkerRecord(c), work'[c] # "wrote" PROVE Fewer(q)
    <2>1. Returns(c, "failed") /\ UNCHANGED <<pending, waiter, saved>>
      BY <1>0, <1>10, Zenon DEF WorkerRecord, requests
    <2> QED BY <1>8, <2>1, Zenon
  <1>11. ASSUME NEW r \in Requests, Send(r) \/ Timeout(r) \/ Cleanup(r) PROVE Fewer(q)
    BY <1>0, <1>11, Zenon DEF Send, Timeout, Cleanup, reports, Fewer
  <1>12. ASSUME NEW c \in Conns, NEW r \in Requests, ControlReply(c, r) PROVE Fewer(q)
    BY <1>0, <1>3, <1>12, Zenon DEF ControlReply, reports
  <1>13. ASSUME NEW c \in Conns, NEW r \in Requests, NEW k \in Kinds, Report(c, r, k) PROVE Fewer(q)
    BY <1>1, <1>2, <1>13, Zenon DEF Report, Finish, requests
  <1> QED BY <1>4, <1>5, <1>6, <1>7, <1>9, <1>10, <1>11, <1>12, <1>13, Zenon

\* Invoking registers the first waiter of a request.
LEMMA StoryInvoke ==
    ASSUME Types, StoryInv, NEW r \in Requests, NEW n \in Nodes, Invoke(r, n)
    PROVE  StoryInv'
  <1>0. /\ held \in [Conns -> Envelope] /\ pending \in [Requests -> PendingType]
        /\ waiter \in [Requests -> Outcome]
    BY TypeParts
  <1> DEFINE P == [NoPending EXCEPT !.conn = route[n]]
  <1>1. P.acked = FALSE /\ P.checkpoint = FALSE /\ P.conn = route[n]
    BY DEF NoPending
  <1>2. /\ waiter[r] = "idle" /\ pending' = [pending EXCEPT ![r] = P]
        /\ waiter' = [waiter EXCEPT ![r] = "sending"] /\ UNCHANGED <<held, work, saved>>
    BY DEF Invoke, reports
  <1> HIDE DEF P
  <1>3. ASSUME NEW q \in Grants PROVE StoryOf(q)'
    <2>0. StoryOf(q) /\ q \in Requests BY DEF StoryInv, Requests
    <2>1. CASE q # r
      BY <2>0, <2>1, <1>0, <1>2, FewerKeeps, Zenon DEF Fewer
    <2>2. CASE q = r
      <3>1. pending'[q] = P /\ waiter'[q] = "sending" BY <1>0, <1>2, <2>0, <2>2
      <3>2. saved'[q] = {} /\ \A c \in Conns, k \in Kinds : held'[c] # <<q, k>>
        BY <1>2, <2>0, <2>2, Zenon DEF StoryOf
      <3>3. "ack" \in Kinds BY DEF Kinds
      <3> QED BY <3>1, <3>2, <3>3, <1>1, Zenon DEF StoryOf
    <2> QED BY <2>1, <2>2
  <1> QED BY <1>3, Zenon DEF StoryInv

\* A proof of a lease tells the waiter nothing about the outcome.
LEMMA StoryProbe ==
    ASSUME Types, StoryInv, NEW c \in Conns, NEW r \in Requests, Probe(c, r)
    PROVE  StoryInv'
  <1>0. pending \in [Requests -> PendingType] /\ NoConn \notin Conns /\ NoPending.conn = NoConn
    BY TypeParts, GatewayAssumption, NoPendingType, Zenon
  <1> DEFINE P == [pending[r] EXCEPT !.probed = TRUE]
  <1>1. /\ pending' = [pending EXCEPT ![r] = P] /\ UNCHANGED <<held, work, saved, waiter>>
        /\ pending[r].conn = c
    BY DEF Probe, Correlated, reports
  <1>2. P.acked = pending[r].acked /\ P.checkpoint = pending[r].checkpoint /\ P.conn = pending[r].conn
    BY <1>0 DEF PendingType
  <1>3. P # NoPending /\ pending[r] # NoPending
    BY <1>0, <1>1, <1>2, Zenon
  <1> HIDE DEF P
  <1>4. ASSUME NEW q \in Grants PROVE StoryOf(q)'
    <2>0. StoryOf(q) /\ q \in Requests BY DEF StoryInv, Requests
    <2>1. CASE q # r
      BY <2>0, <2>1, <1>0, <1>1, FewerKeeps, Zenon DEF Fewer
    <2>2. CASE q = r
      <3>1. pending'[q] = P /\ pending[q] # NoPending BY <1>0, <1>1, <1>3, <2>0, <2>2, Zenon
      <3>2. Shrinks(q) BY <3>1, <1>1, <1>2, <2>2, Zenon DEF Shrinks
      <3> QED BY <2>0, <3>2, ShrinksKeeps, Zenon
    <2> QED BY <2>1, <2>2
  <1> QED BY <1>4 DEF StoryInv

\* Taking an envelope from the queue.
LEMMA StoryTake ==
    ASSUME Types, FutureInv, StoryInv, NEW c \in Conns, Take(c)
    PROVE  StoryInv'
  <1>0. /\ held \in [Conns -> Envelope] /\ work \in [Conns -> Works]
        /\ pending \in [Requests -> PendingType] /\ NoConn \notin Conns
        /\ NoPending.conn = NoConn /\ NoPending.acked = FALSE
    BY TypeParts, GatewayAssumption, NoPendingType, Zenon DEF NoPending
  <1> DEFINE r == Head(queue[c])[1]
             k == Head(queue[c])[2]
  <1>1. r \in Grants /\ r \in Requests /\ k \in Kinds /\ held[c] = NoReport /\ UNCHANGED <<waiter, saved>>
    BY HeadParts, Zenon DEF Take, Requests
  <1>2. CASE UNCHANGED <<pending, held, work>>
    <2>1. ASSUME NEW q \in Grants PROVE StoryOf(q)'
      BY <1>1, <1>2, FewerKeeps DEF StoryInv, Fewer
    <2> QED BY <2>1, Zenon DEF StoryInv
  <1>3. CASE /\ k = "ack" /\ TakesAck(c, r) /\ pending' = [pending EXCEPT ![r].checkpoint = TRUE]
             /\ held' = [held EXCEPT ![c] = <<r, k>>] /\ Begin(c)
    <2> DEFINE P == [pending[r] EXCEPT !.checkpoint = TRUE]
    <2>1. P.checkpoint = TRUE /\ P.acked = FALSE /\ P.conn = c /\ ~pending[r].acked /\ ~pending[r].checkpoint
          /\ pending[r].conn = c
      BY <1>0, <1>1, <1>3, Zenon DEF TakesAck, PendingType
    <2>2. pending' = [pending EXCEPT ![r] = P]
      BY <1>3, Zenon
    <2>3. /\ \A d \in Conns : held'[d] = IF d = c THEN <<r, "ack">> ELSE held[d]
          /\ \A d \in Conns : d # c => work'[d] = work[d]
          /\ work'[c] \notin {"wrote", "saved"}
      BY <1>0, <1>3, Zenon DEF Begin
    <2>4. P # NoPending /\ pending[r] # NoPending
      BY <1>0, <2>1, Zenon
    <2> HIDE DEF P, r, k
    <2>5. ASSUME NEW q \in Grants, q # r PROVE StoryOf(q)'
      <3>1. \A d \in Conns, l \in Kinds : held'[d] = <<q, l>> =>
               held[d] = <<q, l>> /\ work'[d] = work[d]
        BY <2>3, <2>5
      <3>2. pending'[q] = pending[q] /\ saved'[q] = saved[q] /\ waiter'[q] = waiter[q]
        BY <1>0, <1>1, <2>2, <2>5, Zenon DEF Requests
      <3>3. StoryOf(q) BY DEF StoryInv
      <3>4. Shrinks(q) BY <3>1, <3>2, Zenon DEF Shrinks
      <3> QED BY <3>3, <3>4, ShrinksKeeps, Zenon
    <2>6. StoryOf(r)
      BY <1>1 DEF StoryInv
    <2>7. ASSUME NEW q \in Grants, q = r PROVE StoryOf(q)'
      <3>1. pending'[q] = P /\ saved'[q] = saved[q] /\ waiter'[q] = waiter[q]
        BY <1>0, <1>1, <2>2, <2>7, Zenon
      <3>2. /\ saved[q] = {} /\ waiter[q] # "idle"
            /\ \A d \in Conns, l \in Kinds : held[d] # <<q, l>>
        <4>1. /\ saved[q] \subseteq {"ack"} /\ "ack" \notin saved[q] /\ waiter[q] # "idle"
          BY <2>1, <2>4, <2>6, <2>7, Zenon DEF StoryOf
        <4>2. /\ \A d \in Conns, l \in Kinds \ {"ack"} : held[d] # <<q, l>>
              /\ \A d \in Conns : held[d] # <<q, "ack">>
          BY <2>1, <2>4, <2>6, <2>7, Zenon DEF StoryOf
        <4>3. saved[q] = {} BY <4>1
        <4> QED BY <4>1, <4>2, <4>3
      <3>3. \A d \in Conns, l \in Kinds : held'[d] = <<q, l>> => d = c /\ l = "ack"
        <4> SUFFICES ASSUME NEW d \in Conns, NEW l \in Kinds, held'[d] = <<q, l>>
                     PROVE  d = c /\ l = "ack"
          OBVIOUS
        <4>1. d = c BY <2>3, <3>2, Zenon
        <4>2. <<q, l>> = <<r, "ack">> BY <2>3, <4>1, Zenon
        <4> QED BY <4>1, <4>2, Zenon
      <3>4. waiter'[q] # "ok"
        BY <2>6, <2>7, <3>1, <3>2, Zenon DEF StoryOf
      <3>5. /\ pending'[q] # NoPending /\ pending'[q].checkpoint /\ ~pending'[q].acked
            /\ pending'[q].conn = c
        BY <2>1, <2>4, <3>1, Zenon
      <3>6. \A d \in Conns : held'[d] = <<q, "ack">> => d = c
        BY <3>3 DEF Kinds
      <3>7. \A d \in Conns, l \in Kinds \ {"ack"} : held'[d] # <<q, l>>
        BY <3>3, Zenon
      <3>8. \A d \in Conns, l \in Kinds : held'[d] = <<q, l>> => work'[d] \notin {"wrote", "saved"}
        BY <2>3, <3>3
      <3>9. saved'[q] = {} /\ waiter'[q] # "idle"
        BY <3>1, <3>2, Zenon
      <3> QED BY <3>4, <3>5, <3>6, <3>7, <3>8, <3>9, Zenon DEF StoryOf
    <2> QED BY <2>5, <2>7, Zenon DEF StoryInv
  <1>4. CASE /\ k # "ack" /\ TakesFinal(c, r, k) /\ pending' = [pending EXCEPT ![r] = NoPending]
             /\ held' = [held EXCEPT ![c] = <<r, k>>] /\ Begin(c)
    <2>1. /\ pending[r].conn = c /\ ~pending[r].checkpoint
          /\ k = "rejected" => ~pending[r].acked
          /\ NeedsAck(r, k) => pending[r].acked
      BY <1>4, Zenon DEF TakesFinal, NeedsAck
    <2>2. pending[r] # NoPending
      BY <1>0, <2>1, Zenon
    <2>3. /\ \A d \in Conns : held'[d] = IF d = c THEN <<r, k>> ELSE held[d]
          /\ \A d \in Conns : d # c => work'[d] = work[d]
          /\ work'[c] \notin {"wrote", "saved"}
      BY <1>0, <1>4, Zenon DEF Begin
    <2>9. k # "ack" /\ pending' = [pending EXCEPT ![r] = NoPending]
      BY <1>4, Zenon
    <2> HIDE DEF r, k
    <2>4. ASSUME NEW q \in Grants, q # r PROVE StoryOf(q)'
      <3>1. \A d \in Conns, l \in Kinds : held'[d] = <<q, l>> =>
               held[d] = <<q, l>> /\ work'[d] = work[d]
        BY <2>3, <2>4
      <3>2. pending'[q] = pending[q] /\ saved'[q] = saved[q] /\ waiter'[q] = waiter[q]
        BY <1>0, <1>1, <2>4, <2>9, Zenon DEF Requests
      <3>3. StoryOf(q) BY DEF StoryInv
      <3>4. Shrinks(q) BY <3>1, <3>2, Zenon DEF Shrinks
      <3> QED BY <3>3, <3>4, ShrinksKeeps, Zenon
    <2>5. StoryOf(r)
      BY <1>1 DEF StoryInv
    <2>6. ASSUME NEW q \in Grants, q = r PROVE StoryOf(q)'
      <3>1. pending'[q] = NoPending /\ saved'[q] = saved[q] /\ waiter'[q] = waiter[q]
        BY <1>0, <1>1, <2>6, <2>9, Zenon
      <3>2. /\ saved[q] \subseteq {"ack"} /\ waiter[q] # "idle"
            /\ \A d \in Conns, l \in Kinds \ {"ack"} : held[d] # <<q, l>>
            /\ NeedsAck(q, k) => "ack" \in saved[q]
            /\ k = "rejected" => "ack" \notin saved[q] /\ \A d \in Conns : held[d] # <<q, "ack">>
        BY <2>1, <2>2, <2>5, <2>6, Zenon DEF StoryOf
      <3>3. \A d \in Conns, l \in Kinds \ {"ack"} : held'[d] = <<q, l>> => d = c /\ l = k
        <4> SUFFICES ASSUME NEW d \in Conns, NEW l \in Kinds \ {"ack"}, held'[d] = <<q, l>>
                     PROVE  d = c /\ l = k
          OBVIOUS
        <4>1. d = c BY <2>3, <3>2, Zenon
        <4>2. <<q, l>> = <<r, k>> BY <2>3, <4>1, Zenon
        <4> QED BY <4>1, <4>2, Zenon
      <3>4. \A d \in Conns : held'[d] = <<q, "ack">> => held[d] = <<q, "ack">> /\ d # c
        <4> SUFFICES ASSUME NEW d \in Conns, held'[d] = <<q, "ack">>
                     PROVE  held[d] = <<q, "ack">> /\ d # c
          OBVIOUS
        <4>1. ASSUME d = c PROVE FALSE
          <5>1. <<q, "ack">> = <<r, k>> BY <2>3, <4>1, Zenon
          <5> QED BY <5>1, <2>9
        <4> QED BY <2>3, <4>1, Zenon
      <3>5. \A d \in Conns : held'[d] = <<q, "ack">> /\ work'[d] \in {"wrote", "saved"} => "ack" \in saved[q]
        <4>1. \A d \in Conns : held[d] = <<q, "ack">> /\ work[d] \in {"wrote", "saved"} => "ack" \in saved[q]
          BY <2>5, <2>6, "ack" \in Kinds, Zenon DEF StoryOf, Kinds
        <4> QED BY <3>4, <2>3, <4>1, Zenon
      <3>6. waiter'[q] # "ok"
        BY <2>5, <2>6, <3>1, <3>2, Zenon DEF StoryOf
      <3>7. ASSUME NEW l \in Kinds, l = k PROVE Ends(q, l)'
        BY <3>1, <3>2, <3>4, <3>7, Zenon DEF Ends
      <3>8. \A d \in Conns, l \in Kinds : held'[d] = <<q, l>> /\ work'[d] \in {"wrote", "saved"} => l \in saved'[q]
        BY <3>1, <3>3, <3>5, <2>3, Zenon
      <3>9. \A d \in Conns, l \in Kinds \ {"ack"} : held'[d] = <<q, l>> =>
              /\ saved'[q] \subseteq {"ack", l} /\ Ends(q, l)'
              /\ \A e \in Conns, m \in Kinds \ {"ack"} : held'[e] = <<q, m>> => e = d
        BY <3>1, <3>2, <3>3, <3>7, Zenon
      <3> QED BY <1>0, <3>1, <3>2, <3>6, <3>8, <3>9, Zenon DEF StoryOf
    <2> QED BY <2>4, <2>6 DEF StoryInv
  <1> QED BY <1>2, <1>3, <1>4, Zenon DEF Take

\* A worker records its report.
LEMMA StoryRecord ==
    ASSUME Types, FutureInv, StoryInv, NEW c \in Conns, WorkerRecord(c), work'[c] = "wrote"
    PROVE  StoryInv'
  <1>0. /\ held \in [Conns -> Envelope] /\ work \in [Conns -> Works]
        /\ saved \in [Requests -> SUBSET Kinds]
    BY TypeParts, Zenon
  <1> DEFINE r == held[c][1]
             k == held[c][2]
  <1>1. work[c] = "queued" /\ UNCHANGED <<pending, waiter>>
    BY DEF WorkerRecord, requests
  <1>2. held[c] # NoReport BY <1>1, Zenon DEF FutureInv
  <1>3. held[c] = <<r, k>> /\ r \in Grants /\ r \in Requests /\ k \in Kinds
    BY <1>2, HandParts DEF Requests
  <1>4. ~ Returns(c, "failed")
    BY <1>0, Zenon DEF Returns
  <1>5. /\ saved' = [saved EXCEPT ![r] = saved[r] \cup {k}]
        /\ work' = [work EXCEPT ![c] = "wrote"] /\ UNCHANGED held
    BY <1>4, Zenon DEF WorkerRecord
  <1> HIDE DEF r, k
  <1>6. ASSUME NEW q \in Grants, q # r PROVE StoryOf(q)'
    <2>1. \A d \in Conns, l \in Kinds : held'[d] = <<q, l>> =>
             held[d] = <<q, l>> /\ work'[d] = work[d]
      BY <1>0, <1>3, <1>5, <1>6
    <2>2. pending'[q] = pending[q] /\ saved'[q] = saved[q] /\ waiter'[q] = waiter[q]
      BY <1>0, <1>1, <1>3, <1>5, <1>6, Zenon DEF Requests
    <2>3. StoryOf(q) BY DEF StoryInv
    <2>4. Shrinks(q) BY <2>1, <2>2, Zenon DEF Shrinks
    <2> QED BY <2>3, <2>4, ShrinksKeeps, Zenon
  <1>7. ASSUME NEW q \in Grants, q = r PROVE StoryOf(q)'
    <2>0. StoryOf(q) BY DEF StoryInv
    <2>1. /\ pending' = pending /\ waiter' = waiter /\ held' = held
          /\ saved'[q] = saved[q] \cup {k} /\ saved[q] \subseteq Kinds
      BY <1>0, <1>1, <1>3, <1>5, <1>7, Zenon
    <2>2. held[c] = <<q, k>> /\ k \in Kinds
      BY <1>3, <1>7
    <2>3. \A d \in Conns : d # c => work'[d] = work[d]
      BY <1>0, <1>5, Zenon
    <2>4. waiter[q] # "idle"
      BY <2>0, <2>2, Zenon DEF StoryOf
    <2>5. \A d \in Conns, l \in Kinds : held[d] = <<q, l>> /\ work'[d] \in {"wrote", "saved"} => l \in saved'[q]
      <3> SUFFICES ASSUME NEW d \in Conns, NEW l \in Kinds, held[d] = <<q, l>>, work'[d] \in {"wrote", "saved"}
                   PROVE  l \in saved'[q]
        BY ZenonT(30)
      <3>1. CASE d = c BY <3>1, <2>1, <2>2, SMTT(30)
      <3>2. CASE d # c BY <3>2, <2>0, <2>1, <2>3 DEF StoryOf
      <3> QED BY <3>1, <3>2, Zenon
    <2>6. CASE k = "ack"
      <3>1. \A l \in Kinds \ {"ack"} : held[c] # <<q, l>>
        BY <2>2, <2>6
      <3>2. pending[q] # NoPending => pending[q].conn = c /\ pending[q].checkpoint /\ ~pending[q].acked
        BY <2>0, <2>2, <2>6, Zenon DEF StoryOf
      <3>3. \A l \in Kinds : Ends(q, l) => Ends(q, l)'
        <4> SUFFICES ASSUME NEW l \in Kinds, Ends(q, l) PROVE Ends(q, l)'
          BY Zenon
        <4>1. l # "rejected" BY <2>2, <2>6 DEF Ends
        <4> QED BY <4>1, <2>1, Zenon DEF Ends
      <3>4. pending[q] # NoPending => saved'[q] \subseteq {"ack"} /\
                             \A d \in Conns, l \in Kinds \ {"ack"} : held[d] # <<q, l>>
        BY <2>0, <2>1, <2>6, Zenon DEF StoryOf
      <3>5. pending[q] # NoPending /\ ~pending[q].acked => pending[q].checkpoint
        BY <3>2, Zenon
      <3>6. "ack" \in saved'[q]
        BY <2>1, <2>6
      <3>7. \A d \in Conns : held[d] = <<q, "ack">> /\ pending[q] # NoPending =>
              pending[q].conn = d /\ pending[q].checkpoint /\ ~pending[q].acked
        BY <2>0, Zenon DEF StoryOf
      <3>8. waiter[q] = "ok" => \E l \in Kinds \ {"ack"} : l \in saved'[q]
        BY <2>0, <2>1, Zenon DEF StoryOf
      <3>9. \A d \in Conns, l \in Kinds \ {"ack"} : held[d] = <<q, l>> =>
              /\ saved'[q] \subseteq {"ack", l} /\ Ends(q, l)'
              /\ \A e \in Conns, m \in Kinds \ {"ack"} : held[e] = <<q, m>> => e = d
        BY <2>0, <2>1, <2>6, <3>3, Zenon DEF StoryOf
      <3>10. \A l \in Kinds \ {"ack"} : l \in saved'[q] => saved'[q] \subseteq {"ack", l} /\ Ends(q, l)'
        BY <2>0, <2>1, <2>6, <3>3, Zenon DEF StoryOf
      <3> QED BY <2>1, <2>4, <2>5, <3>4, <3>5, <3>6, <3>7, <3>8, <3>9, <3>10, Zenon DEF StoryOf
    <2>7. CASE k # "ack"
      <3>1. /\ saved[q] \subseteq {"ack", k} /\ Ends(q, k) /\ pending[q] = NoPending
            /\ \A d \in Conns, l \in Kinds \ {"ack"} : held[d] = <<q, l>> => d = c
        BY <2>0, <2>2, <2>7, Zenon DEF StoryOf
      <3>2. saved'[q] \subseteq {"ack", k} /\ ("ack" \in saved'[q] <=> "ack" \in saved[q])
        BY <2>1, <2>7, <3>1, Zenon
      <3>3. ASSUME NEW l \in Kinds, l = k PROVE Ends(q, l)'
        BY <2>1, <3>1, <3>2, <3>3, Zenon DEF Ends
      <3>4. \A d \in Conns, l \in Kinds \ {"ack"} : held[d] = <<q, l>> => d = c /\ l = k
        BY <2>2, <3>1
      <3>5. NoPending.acked = FALSE BY DEF NoPending
      <3>6. \E l \in Kinds \ {"ack"} : l \in saved'[q]
        BY <2>1, <2>2, <2>7, Zenon
      <3>7. \A d \in Conns, l \in Kinds \ {"ack"} : held[d] = <<q, l>> =>
              /\ saved'[q] \subseteq {"ack", l} /\ Ends(q, l)'
              /\ \A e \in Conns, m \in Kinds \ {"ack"} : held[e] = <<q, m>> => e = d
        BY <3>2, <3>3, <3>4, Zenon
      <3>8. \A l \in Kinds \ {"ack"} : l \in saved'[q] => saved'[q] \subseteq {"ack", l} /\ Ends(q, l)'
        BY <3>2, <3>3
      <3> QED BY <2>1, <2>4, <2>5, <3>1, <3>5, <3>6, <3>7, <3>8, Zenon DEF StoryOf
    <2> QED BY <2>6, <2>7
  <1> QED BY <1>6, <1>7, Zenon DEF StoryInv

\* The outcome of a save reaches the waiter.
LEMMA StoryDeliver ==
    ASSUME Types, FutureInv, StoryInv, NEW c \in Conns, Deliver(c)
    PROVE  StoryInv'
  <1>0. /\ held \in [Conns -> Envelope] /\ work \in [Conns -> Works]
        /\ pending \in [Requests -> PendingType] /\ waiter \in [Requests -> Outcome]
        /\ NoConn \notin Conns /\ NoPending.conn = NoConn
    BY TypeParts, GatewayAssumption, NoPendingType, Zenon
  <1> DEFINE r == held[c][1]
             k == held[c][2]
  <1>1. /\ work[c] \in {"saved", "failed"} /\ UNCHANGED saved
        /\ held' = [held EXCEPT ![c] = NoReport] /\ work' = [work EXCEPT ![c] = "none"]
    BY Zenon DEF Deliver
  <1>2. held[c] # NoReport BY <1>1, Zenon DEF FutureInv
  <1>3. held[c] = <<r, k>> /\ r \in Grants /\ r \in Requests /\ k \in Kinds
    BY <1>2, HandParts, Zenon DEF Requests
  <1>4. /\ held'[c] = NoReport
        /\ \A d \in Conns : d # c => held'[d] = held[d] /\ work'[d] = work[d]
    BY <1>0, <1>1
  <1>5. \/ \E w \in Outcome \ {"idle", "ok"} : Answer({r}, w)
        \/ k # "ack" /\ work[c] = "saved" /\ Answer({r}, "ok")
        \/ /\ k = "ack" /\ work[c] = "saved" /\ pending[r].conn = c /\ UNCHANGED waiter
           /\ pending' = [pending EXCEPT ![r].checkpoint = FALSE, ![r].acked = TRUE]
        \/ UNCHANGED <<pending, waiter>>
    BY "journal" \in Outcome \ {"idle", "ok"}, Zenon DEF Deliver, AckRecorded, FinalRecorded, Confirmed, requests, Outcome
  <1> HIDE DEF r, k
  <1>6. ASSUME NEW q \in Grants, pending'[q] = NoPending \/ pending'[q] = pending[q],
               waiter'[q] = waiter[q] \/ waiter'[q] \notin {"idle", "ok"}
        PROVE  StoryOf(q)'
    <2>1. Fewer(q) BY <1>1, <1>4, <1>6, Zenon DEF Fewer
    <2> QED BY <2>1, FewerKeeps, Zenon DEF StoryInv
  <1>7. CASE UNCHANGED <<pending, waiter>>
    BY <1>6, <1>7, Zenon DEF StoryInv
  <1>8. CASE \E w \in Outcome \ {"idle", "ok"} : Answer({r}, w)
    <2>1. PICK w \in Outcome \ {"idle", "ok"} : Answer({r}, w) BY <1>8, Zenon
    <2>2. ASSUME NEW q \in Grants
          PROVE  /\ pending'[q] = NoPending \/ pending'[q] = pending[q]
                 /\ waiter'[q] = waiter[q] \/ waiter'[q] \notin {"idle", "ok"}
      BY <1>0, <2>1 DEF Answer, Requests
    <2> QED BY <2>2, <1>6 DEF StoryInv
  <1>9. CASE k # "ack" /\ work[c] = "saved" /\ Answer({r}, "ok")
    <2>1. ASSUME NEW q \in Grants, q # r PROVE StoryOf(q)'
      <3>1. pending'[q] = pending[q] /\ waiter'[q] = waiter[q]
        BY <1>0, <1>9, <2>1, ZenonT(30) DEF Answer, Requests
      <3> QED BY <3>1, <1>6, <2>1, Zenon
    <2>2. ASSUME NEW q \in Grants, q = r PROVE StoryOf(q)'
      <3>0. StoryOf(q) /\ q \in Requests BY <2>2 DEF StoryInv, Requests
      <3>1. pending'[q] = NoPending /\ (waiter'[q] = waiter[q] \/ waiter'[q] = "ok")
        BY <1>0, <1>9, <2>2, <3>0, Zenon DEF Answer
      <3>2. CASE waiter'[q] = waiter[q]
        BY <3>1, <3>2, <1>6, <2>2, Zenon
      <3>3. CASE waiter'[q] = "ok"
        <4>1. k \in saved[q]
          BY <1>3, <1>9, <2>2, <3>0, Zenon DEF StoryOf
        <4>2. \A d \in Conns, l \in Kinds : held'[d] = <<q, l>> => held[d] = <<q, l>> /\ work'[d] = work[d]
          <5>1. \A l \in Kinds : NoReport # <<q, l>> BY DEF NoReport, Kinds
          <5> QED BY <1>4, <5>1, Zenon
        <4>3. saved'[q] = saved[q] BY <1>1, Zenon
        <4>4. \E l \in Kinds \ {"ack"} : l \in saved[q]
          BY <4>1, <1>3, <1>9, Zenon
        <4>5. Shrinks(q) BY <3>1, <3>3, <4>2, <4>3, <4>4, Zenon DEF Shrinks
        <4> QED BY <3>0, <4>5, ShrinksKeeps, Zenon
      <3> QED BY <3>1, <3>2, <3>3
    <2> QED BY <2>1, <2>2 DEF StoryInv
  <1>10. CASE /\ k = "ack" /\ work[c] = "saved" /\ pending[r].conn = c /\ UNCHANGED waiter
              /\ pending' = [pending EXCEPT ![r].checkpoint = FALSE, ![r].acked = TRUE]
    <2> DEFINE P == [[pending[r] EXCEPT !.checkpoint = FALSE] EXCEPT !.acked = TRUE]
    <2>1. P.acked = TRUE /\ P.checkpoint = FALSE /\ P.conn = c
      BY <1>0, <1>3, <1>10 DEF PendingType
    <2>2. \A q \in Requests : pending'[q] = IF q = r THEN P ELSE pending[q]
      BY <1>0, <1>3, <1>10
    <2>3. P # NoPending /\ pending[r] # NoPending
      BY <1>0, <1>10, <2>1, Zenon
    <2> HIDE DEF P
    <2>4. ASSUME NEW q \in Grants, q # r PROVE StoryOf(q)'
      <3>1. pending'[q] = pending[q] /\ waiter'[q] = waiter[q]
        BY <1>10, <2>2, <2>4, Zenon DEF Requests
      <3> QED BY <3>1, <1>6, <2>4, Zenon
    <2>5. ASSUME NEW q \in Grants, q = r PROVE StoryOf(q)'
      <3>0. StoryOf(q) /\ q \in Requests BY <2>5 DEF StoryInv, Requests
      <3>1. held[c] = <<q, "ack">> /\ pending'[q] = P /\ waiter' = waiter /\ saved' = saved
        BY <1>1, <1>3, <1>10, <2>2, <2>5, <3>0, Zenon
      <3>2. "ack" \in saved[q]
        BY <1>10, <3>0, <3>1, "ack" \in Kinds, Zenon DEF StoryOf, Kinds
      <3>3. /\ saved[q] \subseteq {"ack"} /\ waiter[q] # "idle"
            /\ \A d \in Conns, l \in Kinds \ {"ack"} : held[d] # <<q, l>>
            /\ \A d \in Conns : held[d] = <<q, "ack">> => d = c
        BY <1>10, <2>3, <2>5, <3>0, ZenonT(30) DEF StoryOf
      <3>4. \A d \in Conns, l \in Kinds : held'[d] # <<q, l>>
        BY <1>4, <3>3 DEF NoReport, Kinds
      <3>5. waiter[q] # "ok"
        BY <3>0, <3>3, Zenon DEF StoryOf
      <3>6. pending'[q] # NoPending /\ pending'[q].acked /\ ~pending'[q].checkpoint
        BY <3>1, <2>1, <2>3
      <3>7. "ack" \in saved'[q] /\ saved'[q] \subseteq {"ack"} /\ waiter'[q] # "ok" /\ waiter'[q] # "idle"
        BY <3>1, <3>2, <3>3, <3>5, Zenon
      <3> QED BY <3>4, <3>6, <3>7, "ack" \in Kinds, Zenon DEF StoryOf, Kinds
    <2> QED BY <2>4, <2>5 DEF StoryInv
  <1> QED BY <1>5, <1>7, <1>8, <1>9, <1>10, Zenon

LEMMA StoryKept ==
    ASSUME Types, FutureInv, StoryInv, Next
    PROVE  StoryInv'
  <1>1. ASSUME \A q \in Grants : Fewer(q) PROVE StoryInv'
    BY <1>1, FewerKeeps, Zenon DEF StoryInv
  <1>2. CASE GateStep
    BY <1>1, <1>2, FewerSteps, Zenon
  <1>3. ASSUME NEW c \in Conns, SessionStep(c) PROVE StoryInv'
    <2>1. CASE Take(c) BY <2>1, StoryTake
    <2>2. CASE Deliver(c) BY <2>2, StoryDeliver
    <2>3. CASE WorkerRecord(c) /\ work'[c] = "wrote" BY <2>3, StoryRecord
    <2>4. CASE \/ Connect(c) \/ \E n \in Nodes : Authenticate(c, n)
               \/ Admit(c) \/ Reject(c) \/ Register(c) \/ EndOfFile(c) \/ Fail(c)
               \/ Unroute(c) \/ FailPending(c) \/ Abort(c) \/ WorkerReturn(c)
               \/ WorkerRecord(c) /\ work'[c] # "wrote"
      <3>1. ASSUME NEW q \in Grants PROVE Fewer(q)
        BY <2>4, FewerSteps
      <3> QED BY <3>1, <1>1, Zenon
    <2> QED BY <1>3, <2>1, <2>2, <2>3, <2>4, Zenon DEF SessionStep
  <1>4. ASSUME NEW r \in Requests, CallStep(r) PROVE StoryInv'
    <2>1. CASE \E n \in Nodes : Invoke(r, n) BY <2>1, StoryInvoke
    <2>2. CASE Send(r) \/ Timeout(r) \/ Cleanup(r)
      <3>1. ASSUME NEW q \in Grants PROVE Fewer(q)
        BY <2>2, FewerSteps
      <3> QED BY <3>1, <1>1, Zenon
    <2> QED BY <1>4, <2>1, <2>2 DEF CallStep
  <1>5. ASSUME NEW c \in Conns, NEW r \in Requests, FrameStep(c, r) PROVE StoryInv'
    <2>1. CASE Probe(c, r) BY <2>1, StoryProbe
    <2>2. CASE ControlReply(c, r) \/ \E k \in Kinds : Report(c, r, k)
      <3>1. ASSUME NEW q \in Grants PROVE Fewer(q)
        BY <2>2, FewerSteps
      <3> QED BY <3>1, <1>1, Zenon
    <2> QED BY <1>5, <2>1, <2>2 DEF FrameStep
  <1> QED BY <1>2, <1>3, <1>4, <1>5 DEF Next

\* The invariants of sessions and of reports together.
GatewayInv == SessionInv /\ StoryInv

\* The gateway keeps it, for every order in which frames, saves, answers, ends of
\* sessions and stops interleave.
THEOREM ReportInvariant == Spec => []GatewayInv
  <1>1. Init => GatewayInv
    BY GatewayInit, StoryInit DEF GatewayInv
  <1>2. GatewayInv /\ [Next]_vars => GatewayInv'
    <2> SUFFICES ASSUME GatewayInv, [Next]_vars PROVE GatewayInv'
      OBVIOUS
    <2>1. SessionInv'
      BY SessionNext DEF GatewayInv
    <2>2. CASE Next
      <3>1. Types /\ FutureInv /\ StoryInv
        BY DEF GatewayInv, SessionInv
      <3> QED BY <2>1, <2>2, <3>1, StoryKept DEF GatewayInv
    <2>3. CASE UNCHANGED vars
      <3>1. UNCHANGED <<pending, waiter, held, work, saved>>
        BY <2>3, Zenon DEF vars, requests, reports
      <3>2. ASSUME NEW q \in Grants PROVE StoryOf(q)'
        BY <3>1, FewerKeeps, Zenon DEF GatewayInv, StoryInv, Fewer
      <3> QED BY <2>1, <3>2 DEF GatewayInv, StoryInv
    <2> QED BY <2>2, <2>3
  <1> QED BY <1>1, <1>2, PTL DEF Spec

\* A caller learns an outcome, and an acceptance is announced, only after the
\* observer recorded that report (resolve_response, resolve_grant_ack).
THEOREM ConfirmedAreSaved == Spec => []SavedBeforeConfirmed
  <1>1. GatewayInv => SavedBeforeConfirmed
    BY Zenon DEF GatewayInv, StoryInv, StoryOf, SavedBeforeConfirmed, Requests
  <1> QED BY <1>1, ReportInvariant, PTL

==============================================================================
