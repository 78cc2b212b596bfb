------------------------ MODULE NodeGatewayLimits ------------------------
(***************************************************************************)
(* What NodeGateway counts: the outcomes recorded of one grant, and the    *)
(* reports that are taken at a time, under the invariant of                *)
(* NodeGatewayProofs.                                                      *)
(***************************************************************************)
EXTENDS NodeGatewayProofs, FiniteSetTheorems

\* What the observer recorded of a grant tells one story: at most one outcome,
\* an acceptance before a completion, no rejection of what was accepted.
THEOREM OneStoryTold == Spec => []OneStory
  <1>1. ASSUME GatewayInv, NEW r \in Grants
        PROVE  /\ Cardinality(saved[r] \ {"ack"}) <= 1
               /\ "done" \in saved[r] => "ack" \in saved[r]
               /\ "unknown" \in saved[r] /\ r \notin Peers => "ack" \in saved[r]
               /\ "rejected" \in saved[r] => "ack" \notin saved[r]
    <2>0. saved \in [Requests -> SUBSET Kinds] /\ StoryOf(r)
      BY <1>1, TypeParts DEF GatewayInv, SessionInv, StoryInv
    <2>1. StoryOf(r) /\ saved[r] \subseteq Kinds
      BY <2>0 DEF Requests
    <2>2. \A k \in Kinds \ {"ack"} : k \in saved[r] => saved[r] \subseteq {"ack", k} /\ Ends(r, k)
      BY <2>1, Zenon DEF StoryOf
    <2>3. Cardinality(saved[r] \ {"ack"}) <= 1
      <3>1. CASE saved[r] \ {"ack"} = {}
        BY <3>1, FS_EmptySet
      <3>2. CASE saved[r] \ {"ack"} # {}
        <4>1. PICK k \in saved[r] \ {"ack"} : TRUE
          BY <3>2
        <4>2. saved[r] \ {"ack"} = {k}
          BY <2>1, <2>2, <4>1, Zenon
        <4> QED BY <4>2, FS_Singleton
      <3> QED BY <3>1, <3>2
    <2>4. {"done", "unknown", "rejected"} \subseteq Kinds \ {"ack"}
      BY DEF Kinds
    <2> QED BY <2>2, <2>3, <2>4, Zenon DEF Ends, NeedsAck
  <1>2. GatewayInv => OneStory
    BY <1>1 DEF OneStory
  <1> QED BY <1>2, ReportInvariant, PTL

-----------------------------------------------------------------------------
(* The limits on reports.                                                  *)

\* A session that was not admitted has no report in hand.
EarlyInv == \A c \in Conns : conn[c] \in Early => held[c] = NoReport

LEMMA FiniteReports ==
    ASSUME Types
    PROVE  /\ IsFiniteSet(Envelopes) /\ Cardinality(Envelopes) \in Nat
           /\ IsFiniteSet(InHand) /\ Cardinality(InHand) \in Nat
           /\ IsFiniteSet(Active) /\ Cardinality(Active) \in Nat
  <1>1. IsFiniteSet(Conns) /\ QueueLimit \in Nat
    BY GatewayAssumption
  <1>2. IsFiniteSet(1..QueueLimit)
    BY <1>1, FS_Interval
  <1>3. IsFiniteSet(Conns \X (1..QueueLimit))
    BY <1>1, <1>2, FS_Product, Zenon
  <1>4. Envelopes \in SUBSET (Conns \X (1..QueueLimit)) /\ InHand \in SUBSET Conns /\ Active \in SUBSET Conns
    BY DEF Envelopes, InHand, Active
  <1>5. IsFiniteSet(Envelopes) /\ IsFiniteSet(InHand) /\ IsFiniteSet(Active)
    BY <1>1, <1>3, <1>4, FS_Subset, Zenon
  <1> QED BY <1>5, FS_CardinalityType

\* Steps that queue nothing, take nothing and begin nothing keep the limits.
LEMMA BoundsShrink ==
    ASSUME Types, ReportsBounded, Envelopes' \subseteq Envelopes, InHand' \subseteq InHand,
           Active' \subseteq Active
    PROVE  ReportsBounded'
  <1>1. /\ Cardinality(Envelopes') <= Cardinality(Envelopes) /\ Cardinality(Envelopes') \in Nat
        /\ Cardinality(InHand') <= Cardinality(InHand) /\ Cardinality(InHand') \in Nat
        /\ Cardinality(Active') <= Cardinality(Active) /\ Cardinality(Active') \in Nat
    BY FiniteReports, FS_Subset, FS_CardinalityType, Zenon
  <1>2. ByteLimit \in Nat /\ WorkerLimit \in Nat
    BY GatewayAssumption
  <1> QED BY <1>1, <1>2, FiniteReports DEF ReportsBounded

\* Which of the sets can grow, session by session.
LEMMA BoundsLocal ==
    ASSUME Types, ReportsBounded,
           \A d \in Conns : Len(queue'[d]) <= Len(queue[d]),
           \A d \in Conns : Len(queue'[d]) \in Nat,
           \A d \in Conns : conn'[d] \in Serving /\ held'[d] # NoReport => conn[d] \in Serving /\ held[d] # NoReport,
           \A d \in Conns : work'[d] \in Owned => work[d] \in Owned
    PROVE  ReportsBounded'
  <1>1. Envelopes' \subseteq Envelopes
    <2>1. queue \in [Conns -> Seq(Grants \X Kinds)] /\ QueueLimit \in Nat
      BY TypeParts, GatewayAssumption, Zenon
    <2>2. \A d \in Conns : Len(queue[d]) \in Nat
      BY <2>1
    <2>3. ASSUME NEW e \in Conns \X (1..QueueLimit), e[2] <= Len(queue'[e[1]])
          PROVE  e[2] <= Len(queue[e[1]])
      <3>1. e[1] \in Conns /\ e[2] \in Nat
        BY <2>1
      <3> QED BY <2>2, <2>3, <3>1
    <2> QED BY <2>3 DEF Envelopes
  <1>2. InHand' \subseteq InHand
    BY DEF InHand
  <1>3. Active' \subseteq Active
    BY DEF Active
  <1> QED BY <1>1, <1>2, <1>3, BoundsShrink, Zenon

LEMMA OneMore ==
    ASSUME NEW S, IsFiniteSet(S), NEW x, NEW T, T \subseteq S \cup {x}
    PROVE  /\ Cardinality(S) \in Nat /\ Cardinality(T) \in Nat
           /\ Cardinality(T) <= Cardinality(S) + 1
  <1>1. Cardinality(S) \in Nat
    BY FS_CardinalityType
  <1>2. IsFiniteSet(S \cup {x})
    BY FS_AddElement
  <1>3. Cardinality(S \cup {x}) = IF x \in S THEN Cardinality(S) ELSE Cardinality(S) + 1
    BY FS_AddElement
  <1>4. T \in SUBSET (S \cup {x})
    OBVIOUS
  <1>5. IsFiniteSet(T) /\ Cardinality(T) <= Cardinality(S \cup {x})
    BY <1>2, <1>4, FS_Subset, Zenon
  <1>6. Cardinality(T) \in Nat
    BY <1>5, FS_CardinalityType, Zenon
  <1> QED BY <1>1, <1>3, <1>5, <1>6

\* Queue::try_send takes a permit for what it queues.
LEMMA BoundReport ==
    ASSUME Types, ReportsBounded, NEW c \in Conns, NEW r \in Grants, NEW k \in Kinds,
           Len(queue[c]) < QueueLimit, BytesFree,
           queue' = [queue EXCEPT ![c] = Append(@, <<r, k>>)], UNCHANGED <<conn, held, work>>
    PROVE  ReportsBounded'
  <1>0. queue \in [Conns -> Seq(Grants \X Kinds)] /\ {QueueLimit, ByteLimit, WorkerLimit} \subseteq Nat
    BY TypeParts, GatewayAssumption, Zenon
  <1> DEFINE n == Len(queue[c]) + 1
  <1>1. /\ \A d \in Conns : Len(queue[d]) \in Nat
        /\ \A d \in Conns : Len(queue'[d]) = IF d = c THEN n ELSE Len(queue[d])
    BY <1>0
  <1>2. Envelopes' \subseteq Envelopes \cup {<<c, n>>}
    <2>1. ASSUME NEW e \in Conns \X (1..QueueLimit), e[2] <= Len(queue'[e[1]])
          PROVE  e[2] <= Len(queue[e[1]]) \/ e = <<c, n>>
      <3>1. e[1] \in Conns /\ e[2] \in Nat /\ e = <<e[1], e[2]>>
        BY <1>0
      <3> QED BY <1>1, <2>1, <3>1
    <2> QED BY <2>1, Zenon DEF Envelopes
  <1>3. /\ Cardinality(Envelopes) \in Nat /\ Cardinality(Envelopes') \in Nat
        /\ Cardinality(Envelopes') <= Cardinality(Envelopes) + 1
    BY <1>2, FiniteReports, OneMore, Zenon
  <1>6. InHand' = InHand /\ Active' = Active
    BY DEF InHand, Active
  <1> QED BY <1>0, <1>3, <1>6, FiniteReports DEF ReportsBounded, BytesFree

\* The permit stays with the envelope its session takes, and ReportWorkers::begin
\* begins nothing above its limit.
LEMMA BoundTake ==
    ASSUME Types, ReportsBounded, NEW c \in Conns, Take(c)
    PROVE  ReportsBounded'
  <1>0. /\ queue \in [Conns -> Seq(Grants \X Kinds)] /\ {QueueLimit, ByteLimit, WorkerLimit} \subseteq Nat
        /\ held \in [Conns -> Envelope] /\ work \in [Conns -> Works]
    BY TypeParts, GatewayAssumption, Zenon
  <1> DEFINE n == Len(queue[c])
  <1>1. /\ queue[c] # <<>> /\ queue' = [queue EXCEPT ![c] = Tail(@)] /\ UNCHANGED conn
        /\ \/ /\ held' = [held EXCEPT ![c] = <<Head(queue[c])[1], Head(queue[c])[2]>>]
              /\ Begin(c)
           \/ UNCHANGED <<held, work>>
    <2>1. /\ queue[c] # <<>> /\ queue' = [queue EXCEPT ![c] = Tail(@)] /\ UNCHANGED conn
      BY Zenon DEF Take, sessions
    <2>2. \/ /\ held' = [held EXCEPT ![c] = <<Head(queue[c])[1], Head(queue[c])[2]>>]
             /\ Begin(c)
          \/ UNCHANGED <<held, work>>
      BY DEF Take
    <2> QED BY <2>1, <2>2, Zenon
  <1>2. /\ n \in Nat \ {0} /\ n <= QueueLimit
        /\ \A d \in Conns : Len(queue[d]) \in Nat
        /\ \A d \in Conns : Len(queue'[d]) = IF d = c THEN n - 1 ELSE Len(queue[d])
    <2>1. n \in Nat \ {0} /\ Len(Tail(queue[c])) = n - 1
      BY <1>1, HeadParts, Zenon
    <2>2. n <= QueueLimit BY DEF Types, TypeOK
    <2> QED BY <1>0, <1>1, <2>1, <2>2
  <1>3. Envelopes' \subseteq Envelopes \ {<<c, n>>}
    <2>1. ASSUME NEW e \in Conns \X (1..QueueLimit), e[2] <= Len(queue'[e[1]])
          PROVE  e[2] <= Len(queue[e[1]]) /\ e # <<c, n>>
      <3>1. e[1] \in Conns /\ e[2] \in Nat /\ e = <<e[1], e[2]>>
        BY <1>0
      <3> QED BY <1>2, <2>1, <3>1
    <2> QED BY <2>1, Zenon DEF Envelopes
  <1>4. <<c, n>> \in Envelopes
    BY <1>2, <1>0 DEF Envelopes
  <1>5. /\ IsFiniteSet(Envelopes \ {<<c, n>>})
        /\ Cardinality(Envelopes \ {<<c, n>>}) = Cardinality(Envelopes) - 1
    BY <1>4, FiniteReports, FS_RemoveElement, Zenon
  <1>6. Cardinality(Envelopes') <= Cardinality(Envelopes) - 1 /\ Cardinality(Envelopes') \in Nat
    BY <1>3, <1>5, FS_Subset, FS_CardinalityType, SMTT(30)
  <1>7. InHand' \subseteq InHand \cup {c}
    BY <1>0, <1>1, Zenon DEF InHand
  <1>9. Cardinality(InHand') <= Cardinality(InHand) + 1 /\ Cardinality(InHand') \in Nat
    BY <1>7, FiniteReports, OneMore, Zenon
  <1>10. Cardinality(Active') <= WorkerLimit
    <2>1. CASE Active' \subseteq Active
      <3>1. Cardinality(Active') <= Cardinality(Active) /\ Cardinality(Active') \in Nat
        BY <2>1, FiniteReports, FS_Subset, FS_CardinalityType, Zenon
      <3> QED BY <3>1, <1>0, FiniteReports DEF ReportsBounded
    <2>2. CASE ~(Active' \subseteq Active)
      <3>1. Active' \subseteq Active \cup {c}
        BY <1>0, <1>1, Zenon DEF Active, Begin
      <3>2. Cardinality(Active) < WorkerLimit
        <4>1. ~(Cardinality(Active) >= WorkerLimit)
          <5> SUFFICES ASSUME Cardinality(Active) >= WorkerLimit PROVE Active' \subseteq Active
            BY <2>2
          <5>1. UNCHANGED work \/ work' = [work EXCEPT ![c] = "failed"]
            BY <1>1, Zenon DEF Begin
          <5> QED BY <5>1, <1>0, Zenon DEF Active, Owned
        <4> QED BY <4>1, <1>0, FiniteReports
      <3>3. Cardinality(Active') <= Cardinality(Active) + 1 /\ Cardinality(Active') \in Nat
        BY <3>1, FiniteReports, OneMore
      <3> QED BY <1>0, <3>2, <3>3, FiniteReports
    <2> QED BY <2>1, <2>2, Zenon
  <1> QED BY <1>0, <1>6, <1>9, <1>10, FiniteReports DEF ReportsBounded

\* The steps that end a session's futures, or change only what a session is.
LEMMA BoundSession ==
    ASSUME Types, EarlyInv, ReportsBounded, NEW c \in Conns,
           \/ DropFutures(c) /\ \E p \in Phase \ Serving : conn' = [conn EXCEPT ![c] = p]
           \/ /\ UNCHANGED <<queue, held, work>>
              /\ \E p \in Phase : /\ conn' = [conn EXCEPT ![c] = p]
                                  /\ p \in Serving => conn[c] \in Serving \/ conn[c] \in Early
    PROVE  ReportsBounded'
  <1>0. /\ queue \in [Conns -> Seq(Grants \X Kinds)] /\ conn \in [Conns -> Phase]
        /\ held \in [Conns -> Envelope] /\ work \in [Conns -> Works]
    BY TypeParts
  <1>1. Len(<<>>) = 0 /\ \A d \in Conns : Len(queue[d]) \in Nat
    BY <1>0
  <1>2. CASE DropFutures(c) /\ \E p \in Phase \ Serving : conn' = [conn EXCEPT ![c] = p]
    <2>1. \A d \in Conns : queue'[d] = queue[d] \/ queue'[d] = <<>>
      BY <1>0, <1>2, Zenon DEF DropFutures
    <2>2. \A d \in Conns : held'[d] = held[d] \/ held'[d] = NoReport
      BY <1>0, <1>2, Zenon DEF DropFutures
    <2>3. \A d \in Conns : work'[d] = work[d] \/ work'[d] = "none"
      BY <1>0, <1>2, Zenon DEF DropFutures
    <2>4. \A d \in Conns : conn'[d] \in Serving => conn'[d] = conn[d]
      BY <1>0, <1>2, Zenon
    <2>5. /\ \A d \in Conns : Len(queue'[d]) <= Len(queue[d])
          /\ \A d \in Conns : Len(queue'[d]) \in Nat
      BY <1>1, <2>1
    <2>6. \A d \in Conns : conn'[d] \in Serving /\ held'[d] # NoReport => conn[d] \in Serving /\ held[d] # NoReport
      BY <2>2, <2>4, Zenon
    <2>7. \A d \in Conns : work'[d] \in Owned => work[d] \in Owned
      BY <2>3, Zenon DEF Owned
    <2> QED BY <2>5, <2>6, <2>7, BoundsLocal, Zenon
  <1>3. CASE /\ UNCHANGED <<queue, held, work>>
             /\ \E p \in Phase : /\ conn' = [conn EXCEPT ![c] = p]
                                 /\ p \in Serving => conn[c] \in Serving \/ conn[c] \in Early
    <2>1. \A d \in Conns : conn'[d] \in Serving => conn[d] \in Serving \/ conn[d] \in Early
      BY <1>0, <1>3, Zenon
    <2>2. \A d \in Conns : conn'[d] \in Serving /\ held'[d] # NoReport => conn[d] \in Serving /\ held[d] # NoReport
      BY <1>3, <2>1, Zenon DEF EarlyInv
    <2>3. /\ \A d \in Conns : Len(queue'[d]) <= Len(queue[d])
          /\ \A d \in Conns : Len(queue'[d]) \in Nat
      BY <1>1, <1>3
    <2> QED BY <1>3, <2>2, <2>3, BoundsLocal, Zenon
  <1> QED BY <1>2, <1>3, Zenon

LEMMA BoundSame ==
    ASSUME Types, ReportsBounded, UNCHANGED <<conn, queue>>,
           \A d \in Conns : held'[d] = held[d] \/ held'[d] = NoReport,
           \A d \in Conns : work'[d] \in Owned => work[d] \in Owned
    PROVE  ReportsBounded'
  <1>1. queue \in [Conns -> Seq(Grants \X Kinds)]
    BY TypeParts, Zenon
  <1>2. /\ \A d \in Conns : Len(queue'[d]) <= Len(queue[d])
        /\ \A d \in Conns : Len(queue'[d]) \in Nat
    BY <1>1
  <1>3. \A d \in Conns : conn'[d] \in Serving /\ held'[d] # NoReport => conn[d] \in Serving /\ held[d] # NoReport
    OBVIOUS
  <1> QED BY <1>2, <1>3, BoundsLocal, Zenon

LEMMA BoundKept ==
    ASSUME Types, FutureInv, EarlyInv, ReportsBounded, Next
    PROVE  ReportsBounded'
  <1>0. /\ queue \in [Conns -> Seq(Grants \X Kinds)] /\ conn \in [Conns -> Phase]
        /\ held \in [Conns -> Envelope] /\ work \in [Conns -> Works]
    BY TypeParts, Zenon
  <1>1. CASE UNCHANGED <<conn, queue, held, work>>
    BY <1>1, BoundSame, Zenon
  <1>2. CASE GateStep
    BY <1>1, <1>2, Zenon DEF GateStep, Start, EndLoop, StopBegin, StopAwaited, StopDrained, StopRoutes, StopPending,
        StopCancelled, sessions, reports
  <1>3. ASSUME NEW r \in Requests, CallStep(r) PROVE ReportsBounded'
    BY <1>1, <1>3, Zenon DEF CallStep, Invoke, Send, Timeout, Cleanup, sessions, reports
  <1>4. ASSUME NEW c \in Conns, conn[c] \in Serving, Finish(c) PROVE ReportsBounded'
    <2>1. "ending" \in Phase \ Serving
      BY DEF Phase, Serving
    <2> QED BY <1>4, <2>1, BoundSession, Zenon DEF Finish
  <1>5. ASSUME NEW c \in Conns, NEW r \in Requests, FrameStep(c, r) PROVE ReportsBounded'
    <2>1. CASE Probe(c, r) \/ ControlReply(c, r)
      BY <1>1, <2>1, Zenon DEF Probe, ControlReply, sessions, reports
    <2>2. ASSUME NEW k \in Kinds, Report(c, r, k) PROVE ReportsBounded'
      <3>1. CASE Len(queue[c]) < QueueLimit /\ BytesFree
        BY <2>2, <3>1, BoundReport, Zenon DEF Report, sessions
      <3>2. CASE ~(Len(queue[c]) < QueueLimit /\ BytesFree)
        BY <2>2, <3>2, <1>4, Zenon DEF Report, Correlated, Serving
      <3> QED BY <3>1, <3>2, Zenon
    <2> QED BY <1>5, <2>1, <2>2, Zenon DEF FrameStep
  <1>6. ASSUME NEW c \in Conns, NEW p \in Phase, conn' = [conn EXCEPT ![c] = p], UNCHANGED <<queue, held, work>>,
               p \in Serving => conn[c] \in Serving \/ conn[c] \in Early
        PROVE  ReportsBounded'
    BY <1>6, BoundSession, Zenon
  <1>7. ASSUME NEW c \in Conns, SessionStep(c) PROVE ReportsBounded'
    <2>1. CASE Connect(c) BY <2>1, <1>6, Zenon DEF Connect, Phase, Serving, reports
    <2>2. CASE \E n \in Nodes : Authenticate(c, n)
      <3>1. UNCHANGED <<queue, held, work>>
        BY <2>2 DEF Authenticate, reports
      <3>2. conn' = [conn EXCEPT ![c] = "gone"] \/ conn' = [conn EXCEPT ![c] = "leased"]
        BY <2>2 DEF Authenticate
      <3> QED BY <3>1, <3>2, <1>6, Zenon DEF Phase, Serving
    <2>3. CASE Admit(c) BY <2>3, <1>6, Zenon DEF Admit, Phase, Early, reports
    <2>4. CASE Reject(c) BY <2>4, <1>6, Zenon DEF Reject, Phase, Serving, reports
    <2>5. CASE Register(c) BY <2>5, <1>1, Zenon DEF Register, reports
    <2>6. CASE EndOfFile(c) BY <2>6, <1>6, Zenon DEF EndOfFile, Phase, Serving, reports
    <2>7. CASE Fail(c) BY <2>7, <1>4, Zenon DEF Fail
    <2>8. CASE Unroute(c) BY <2>8, <1>6, Zenon DEF Unroute, Phase, Serving, reports
    <2>9. CASE FailPending(c) BY <2>9, <1>6, Zenon DEF FailPending, Phase, Serving, reports
    <2>10. CASE Abort(c)
      <3>1. "gone" \in Phase \ Serving
        BY DEF Phase, Serving
      <3> QED BY <2>10, <3>1, BoundSession, Zenon DEF Abort
    <2>11. CASE Take(c) BY <2>11, BoundTake, Zenon
    <2>12. ASSUME work[c] \in Owned, NEW w, Returns(c, w), UNCHANGED <<conn, queue>> PROVE ReportsBounded'
      <3>1. \A d \in Conns : held'[d] = held[d] \/ held'[d] = NoReport
        BY <1>0, <2>12, Zenon DEF Returns
      <3>2. \A d \in Conns : work'[d] \in Owned => work[d] \in Owned
        BY <1>0, <2>12, Zenon DEF Returns
      <3> QED BY <2>12, <3>1, <3>2, BoundSame, Zenon
    <2>13. CASE WorkerRecord(c)
      <3>1. work[c] \in Owned /\ UNCHANGED <<conn, queue>>
        BY <2>13, Zenon DEF WorkerRecord, Owned, sessions
      <3>2. CASE Returns(c, "failed")
        BY <3>1, <3>2, <2>12, Zenon
      <3>3. CASE work' = [work EXCEPT ![c] = "wrote"] /\ UNCHANGED held
        <4>1. \A d \in Conns : work'[d] \in Owned => work[d] \in Owned
          BY <1>0, <3>1, <3>3, Zenon
        <4> QED BY <3>1, <3>3, <4>1, BoundSame, Zenon
      <3> QED BY <2>13, <3>2, <3>3, Zenon DEF WorkerRecord
    <2>14. CASE WorkerReturn(c)
      <3>1. work[c] \in Owned /\ UNCHANGED <<conn, queue>>
        BY <2>14, Zenon DEF WorkerReturn, Owned, sessions
      <3>2. PICK w : Returns(c, w)
        BY <2>14, Zenon DEF WorkerReturn
      <3> QED BY <3>1, <3>2, <2>12, Zenon
    <2>15. CASE Deliver(c)
      <3>1. /\ UNCHANGED <<conn, queue>> /\ held' = [held EXCEPT ![c] = NoReport]
            /\ work' = [work EXCEPT ![c] = "none"]
        BY <2>15, Zenon DEF Deliver, sessions
      <3>2. \A d \in Conns : held'[d] = held[d] \/ held'[d] = NoReport
        BY <1>0, <3>1, Zenon
      <3>3. \A d \in Conns : work'[d] \in Owned => work[d] \in Owned
        BY <1>0, <3>1, Zenon DEF Owned
      <3> QED BY <3>1, <3>2, <3>3, BoundSame, ZenonT(30)
    <2>16. \/ Connect(c) \/ \E n \in Nodes : Authenticate(c, n)
           \/ Admit(c) \/ Reject(c) \/ Register(c)
           \/ EndOfFile(c) \/ Fail(c) \/ Unroute(c) \/ FailPending(c) \/ Abort(c)
           \/ Take(c) \/ WorkerRecord(c) \/ WorkerReturn(c) \/ Deliver(c)
      BY <1>7, Zenon DEF SessionStep
    <2> QED BY <2>1, <2>2, <2>3, <2>4, <2>5, <2>6, <2>7, <2>8, <2>9, <2>10, <2>11, <2>13, <2>14, <2>15,
               <2>16, ZenonT(30)
  <1> QED BY <1>2, <1>3, <1>5, <1>7, Zenon DEF Next

LEMMA EarlyKept ==
    ASSUME Types, EarlyInv, Next
    PROVE  EarlyInv'
  <1>0. conn \in [Conns -> Phase] /\ held \in [Conns -> Envelope]
    BY TypeParts, Zenon
  <1>1. ASSUME NEW d \in Conns, conn'[d] \in Early PROVE conn[d] \in Early
    <2>1. CASE UNCHANGED conn BY <1>1, <2>1, Zenon
    <2>2. ASSUME NEW c \in Conns, NEW p, conn' = [conn EXCEPT ![c] = p], p \in Early => conn[c] \in Early
          PROVE  conn[d] \in Early
      BY <1>0, <1>1, <2>2, Zenon
    <2>3. ASSUME NEW c \in Conns, Connect(c) PROVE conn[d] \in Early
      BY <2>2, <2>3, Zenon DEF Connect, Early
    <2>4. ASSUME NEW c \in Conns, NEW n \in Nodes, Authenticate(c, n) PROVE conn[d] \in Early
      BY <2>2, <2>4, Zenon DEF Authenticate, Early
    <2>5. ASSUME NEW c \in Conns, Admit(c) \/ Reject(c) \/ EndOfFile(c) \/ Unroute(c) PROVE conn[d] \in Early
      BY <2>2, <2>5, Zenon DEF Admit, Reject, EndOfFile, Unroute, Early
    <2>6. ASSUME NEW c \in Conns, FailPending(c) \/ Abort(c) \/ Finish(c) PROVE conn[d] \in Early
      BY <2>2, <2>6, Zenon DEF FailPending, Abort, Finish, Early
    <2>7. CASE StopRoutes BY <2>1, <2>7, Zenon DEF StopRoutes
    <2> QED BY <2>1, <2>3, <2>4, <2>5, <2>6, <2>7, StepKinds, Zenon
  <1>2. ASSUME NEW d \in Conns, conn[d] \in Early PROVE held'[d] = held[d] \/ held'[d] = NoReport
    <2>1. CASE UNCHANGED held BY <2>1
    <2>2. ASSUME NEW c \in Conns, NEW e, held' = [held EXCEPT ![c] = e], e = NoReport \/ c # d \/ e = held[c]
          PROVE  held'[d] = held[d] \/ held'[d] = NoReport
      BY <1>0, <2>2, Zenon
    <2>3. CASE GateStep \/ \E r \in Requests : CallStep(r)
      BY <2>1, <2>3, Zenon DEF GateStep, Start, EndLoop, StopBegin, StopAwaited, StopDrained, StopRoutes, StopPending,
          StopCancelled, CallStep, Invoke, Send, Timeout, Cleanup, reports
    <2>4. ASSUME NEW c \in Conns, DropFutures(c) PROVE held'[d] = held[d] \/ held'[d] = NoReport
      BY <2>2, <2>4, Zenon DEF DropFutures
    <2>5. ASSUME NEW c \in Conns, NEW r \in Requests, FrameStep(c, r)
          PROVE  held'[d] = held[d] \/ held'[d] = NoReport
      BY <2>1, <2>4, <2>5, Zenon DEF FrameStep, Probe, ControlReply, Report, Finish, reports
    <2>6. ASSUME NEW c \in Conns, Take(c) PROVE held'[d] = held[d] \/ held'[d] = NoReport
      <3>1. c # d
        BY <1>2, <2>6, ZenonT(30) DEF Take, Serving, Early
      <3>2. \/ held' = [held EXCEPT ![c] = <<Head(queue[c])[1], Head(queue[c])[2]>>]
            \/ UNCHANGED held
        BY <2>6 DEF Take
      <3> QED BY <2>1, <2>2, <3>1, <3>2, Zenon
    <2>7. ASSUME NEW c \in Conns, WorkerRecord(c) \/ WorkerReturn(c) \/ Deliver(c)
          PROVE  held'[d] = held[d] \/ held'[d] = NoReport
      <3>1. held' = [held EXCEPT ![c] = NoReport] \/ UNCHANGED held
        BY <2>7, Zenon DEF WorkerRecord, WorkerReturn, Deliver, Returns
      <3> QED BY <2>1, <2>2, <3>1, Zenon
    <2>8. ASSUME NEW c \in Conns, SessionStep(c) PROVE held'[d] = held[d] \/ held'[d] = NoReport
      BY <2>1, <2>4, <2>6, <2>7, <2>8, ZenonT(30) DEF SessionStep, Connect, Authenticate, Admit, Reject, Register, EndOfFile,
          Fail, Finish, Unroute, FailPending, Abort, reports
    <2> QED BY <2>3, <2>5, <2>8, Zenon DEF Next
  <1> QED BY <1>1, <1>2, Zenon DEF EarlyInv

\* The envelopes that exist, queued or being saved, never exceed the shared byte
\* permits, and the saves never exceed the worker limit, detached ones counted
\* (Queue::try_send, ReportWorkers::begin).
THEOREM ReportsStayBounded == Spec => []ReportsBounded
  <1> DEFINE Inv == Types /\ FutureInv /\ EarlyInv /\ ReportsBounded
  <1>1. Init => Inv
    <2> SUFFICES ASSUME Init PROVE Inv
      OBVIOUS
    <2>1. Types /\ FutureInv
      BY GatewayInit DEF SessionInv
    <2>2. EarlyInv
      BY DEF Init, EarlyInv
    <2>3. Envelopes = {} /\ InHand = {} /\ Active = {}
      <3>1. \A d \in Conns : Len(queue[d]) = 0
        BY DEF Init
      <3>2. QueueLimit \in Nat BY GatewayAssumption, Zenon
      <3> QED BY <3>1, <3>2 DEF Init, Envelopes, InHand, Active, Serving, Owned
    <2>4. ReportsBounded
      BY <2>3, FS_EmptySet, GatewayAssumption DEF ReportsBounded
    <2> QED BY <2>1, <2>2, <2>4, Zenon
  <1>2. Inv /\ [Next]_vars => Inv'
    <2> SUFFICES ASSUME Inv, [Next]_vars PROVE Inv'
      OBVIOUS
    <2>1. CASE Next
      BY <2>1, TypesKept, FutureKept, EarlyKept, BoundKept, ZenonT(30)
    <2>2. CASE UNCHANGED vars
      <3>1. UNCHANGED <<conn, queue, held, work>>
        BY <2>2, Zenon DEF vars, sessions, reports
      <3>2. Types'
        BY <2>2, Zenon DEF Types, TypeOK, QueueType, vars, control, sessions, requests, reports
      <3>3. FutureInv' /\ EarlyInv'
        BY <3>1, Zenon DEF FutureInv, EarlyInv
      <3>4. ReportsBounded'
        BY <3>1, BoundSame, Zenon
      <3> QED BY <3>2, <3>3, <3>4, Zenon
    <2> QED BY <2>1, <2>2, Zenon
  <1>3. Inv => ReportsBounded
    OBVIOUS
  <1> QED BY <1>1, <1>2, <1>3, PTL DEF Spec
=============================================================================
