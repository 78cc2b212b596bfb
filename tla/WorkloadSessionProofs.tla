----------------------- MODULE WorkloadSessionProofs -----------------------
(***************************************************************************)
(* Proofs about WorkloadSession for every session and lease length, every  *)
(* margin and timeout, and any number of leases, events and crashes.       *)
(***************************************************************************)
EXTENDS WorkloadSession, TLAPS

Held == {"held", "sent", "driving"}

\* What the messages carry.
NetType ==
    \A m \in net :
        /\ m.type = "probe" => m.sequence \in Nat /\ m.sent \in Int
        /\ m.type = "lease" => m.sequence \in Nat /\ {m.sent, m.lease, m.session} \subseteq Int
        /\ m.type = "done" => m.report \in Evidence

Queues == {<<>>, <<"event">>, <<"unknown">>, <<"complete">>, <<"event", "unknown">>}

CoordinatorType ==
    /\ job \in Jobs
    /\ issuer \in Issuers \cup {None}
    /\ ack \in {"none", "waiting", "abandoned", "saved", "refused"}
    /\ final \in Completions \cup {None, Uncertain} /\ cfailed \in BOOLEAN

NodeType ==
    /\ row \in Rows
    /\ stopped \in BOOLEAN /\ slot \in BOOLEAN /\ nfailed \in BOOLEAN /\ open \in BOOLEAN
    /\ holder \in Held \cup {"none", "done", "gone"}
    /\ window \in Leases \cup {None}
    /\ reporting \in Lifetimes
    /\ source \in Sources
    /\ filter \in [blocks : Nat, events : Nat] /\ append \in Saves \cup {None}

WireType ==
    /\ now \in Int /\ crashes \in Nat /\ promised \in Seq(Int)
    /\ probe \in Challenges \cup {None} /\ renewals \in Seq(Leases) /\ NetType

\* A running consumption has its lease window, and a worker that has something to
\* save an event for it.
ShapeInv ==
    /\ holder \in Held \cup {"done"} => window # None
    /\ ack \in {"waiting", "saved", "refused"} => issuer # None /\ ~issuer.retired
    /\ job.state = "approved" => promised = <<>>
    /\ reporting.started \/ holder # "driving"
    /\ holder \in {"held", "sent"} => window.sequence = 1

\* The journal worker has at most one event and one final save, in this order; the
\* place of the final save is free unless a consumption or the save has it.
Pending == append # None /\ append.stage \in {"queued", "checked"}
QueueInv ==
    /\ queue \in Queues
    /\ Pending <=> queue \in {<<"event">>, <<"event", "unknown">>}
    /\ holder \in Held => queue \in {<<>>, <<"event">>}
    /\ slot <=> holder \notin Held /\ queue \in {<<>>, <<"event">>}

\* A moment up to which lease s was answered.
Covered(s, d) == s \in 1..Len(promised) /\ d <= promised[s]

\* A lease is covered by the issuer's answer wherever it is: on its way, confirmed,
\* applied, or the reason to save an event.
MailInv ==
    /\ issuer # None => issuer.next = Len(promised) + 1
    /\ \A m \in net : m.type = "probe" => m.sent <= now
    /\ \A m \in net : m.type = "lease" => Covered(m.sequence, m.sent + m.lease)
WindowInv ==
    /\ \A i \in 1..Len(renewals) : Covered(renewals[i].sequence, renewals[i].deadline)
    /\ window # None => Covered(window.sequence, End(window))
    /\ reporting.started => Covered(reporting.sequence, reporting.deadline)
SaveInv ==
    /\ append # None => Covered(append.sequence, append.deadline)
    /\ append # None /\ append.stage = "checked" => append.at < append.deadline
    /\ \A i \in 1..Len(row.events) :
          /\ row.events[i].sequence \in 1..Len(promised)
          /\ row.events[i].at < promised[row.events[i].sequence]
LeaseInv == MailInv /\ WindowInv /\ SaveInv

\* Renewals are answered after the ACK is on record.
AckInv ==
    /\ ack = "saved" => job.ack
    /\ issuer # None /\ issuer.consumed => job.ack
    /\ Len(promised) > 1 => job.ack

\* The authority of an active job, and the place of its record.
IssuerInv ==
    /\ job.state \in Active => (issuer # None /\ ~issuer.retired) \/ final # None \/ cfailed
    /\ issuer # None /\ ~issuer.retired => issuer.slot /\ final = None

MicInv ==
    /\ source.process \in {"prepared", "running", "killed"} => source.mic = "held"
    /\ source.process = "unconfirmed" => source.mic = "quarantined"

\* An accepted row has somebody who will settle it.
RowInv ==
    row.state = "accepted" /\ crashes = 0 =>
        holder \in Held \/ queue \in {<<"unknown">>, <<"complete">>, <<"event", "unknown">>} \/ nfailed

\* What completion rests on, from the end of the source to the retained job.
Settled(f) ==
    /\ row.state = "completed" /\ f \in Completions /\ f.report = row.report
    /\ f.report.sequence <= f.last /\ f.last = Len(promised)

DoneInv ==
    /\ queue = <<"complete">> => holder = "done"
    /\ holder = "done" => source.process = "ended"
    /\ row.state = "completed" =>
          /\ queue = <<>> /\ holder \in {"done", "gone"} /\ source.process \in {"ended", "none"}
          /\ row.report \in Evidence /\ Len(row.events) = row.report.events
    /\ \A m \in net : m.type = "done" => row.state = "completed" /\ m.report = row.report
    /\ final \in Completions => Settled(final)
    /\ job.state = "completed" => Settled(job.completion)

Types == CoordinatorType /\ NodeType /\ WireType
WorkloadInv ==
    /\ Types /\ ShapeInv /\ QueueInv /\ LeaseInv /\ AckInv /\ IssuerInv /\ MicInv /\ RowInv /\ DoneInv

-----------------------------------------------------------------------------
(* Which variables a step leaves alone.                                    *)

LEMMA NodeFrame == NodeStep \/ Environment => UNCHANGED coordinator
  <1>1. Request \/ Abandon \/ Confirm \/ Prepare \/ Consume \/ SendAck => UNCHANGED coordinator
    BY Zenon DEF Request, Abandon, Confirm, Prepare, Consume, SendAck
  <1>2. Drop \/ Drive \/ Advance \/ Supervise \/ Quiet \/ Observe => UNCHANGED coordinator
    BY Zenon DEF Drop, Drive, Advance, Supervise, Quiet, Observe
  <1>3. Appended \/ Finish \/ Exit \/ NodeWorker \/ NodeCrash => UNCHANGED coordinator
    BY Zenon DEF Appended, Finish, Exit, NodeWorker, AppendCheck, AppendCommit, MarkUnknown, SaveCompletion, NodeCrash
  <1>4. Environment => UNCHANGED coordinator
    BY DEF Environment, Stop, Disable, Enable, Tick
  <1> QED BY <1>1, <1>2, <1>3, <1>4, Zenon DEF NodeStep

LEMMA CoordinatorFrame ==
    CoordinatorStep => UNCHANGED <<now, journal, runner, open, probe, renewals>>
  <1>1. Issue \/ Lease \/ Acknowledge \/ AckWorker => UNCHANGED <<now, journal, runner, open, probe, renewals>>
    BY Zenon DEF Issue, Lease, Acknowledge, AckWorker, wire
  <1>2. Acknowledged \/ Complete \/ DropIssuer => UNCHANGED <<now, journal, runner, open, probe, renewals>>
    BY DEF Acknowledged, Complete, DropIssuer, wire
  <1>3. FinalWorker \/ CoordinatorCrash => UNCHANGED <<now, journal, runner, open, probe, renewals>>
    BY DEF FinalWorker, CoordinatorCrash, wire
  <1> QED BY <1>1, <1>2, <1>3, Zenon DEF CoordinatorStep

-----------------------------------------------------------------------------
(* Every variable keeps its type.                                          *)

LEMMA WorkloadStart == Init => WorkloadInv
  <1> SUFFICES ASSUME Init PROVE WorkloadInv
    OBVIOUS
  <1>1. CoordinatorType
    BY Zenon DEF Init, CoordinatorType, Jobs
  <1>2. NodeType
    <2>1. row \in Rows BY DEF Init, Rows
    <2>2. reporting \in Lifetimes BY DEF Init, Lifetimes, Off
    <2>3. source \in Sources BY DEF Init, Sources
    <2> QED BY <2>1, <2>2, <2>3, Zenon DEF Init, NodeType
  <1>3. WireType
    BY DEF Init, WireType, NetType
  <1>4. ShapeInv
    BY DEF Init, ShapeInv, Held, Off
  <1>5. QueueInv
    BY DEF Init, QueueInv, Queues, Pending, Held
  <1>6. LeaseInv
    BY DEF Init, LeaseInv, MailInv, WindowInv, SaveInv, Off
  <1>7. AckInv /\ MicInv /\ RowInv
    BY DEF Init, AckInv, MicInv, RowInv
  <1>8. IssuerInv
    BY DEF Init, IssuerInv, Active
  <1>9. DoneInv
    <2>1. None \notin Completions BY NoneAssumption
    <2> QED BY <2>1 DEF Init, DoneInv
  <1> QED BY <1>1, <1>2, <1>3, <1>4, <1>5, <1>6, <1>7, <1>8, <1>9 DEF WorkloadInv, Types

\* Issued::retire
LEMMA RetireType ==
    ASSUME CoordinatorType, issuer # None, Retire
    PROVE  /\ issuer' \in Issuers /\ final' \in Completions \cup {None, Uncertain} /\ cfailed' \in BOOLEAN
           /\ issuer'.retired /\ issuer'.next = issuer.next /\ issuer'.consumed = issuer.consumed
           /\ issuer.retired => issuer' = issuer /\ final' = final /\ cfailed' = cfailed
           /\ ~issuer.retired /\ issuer.slot => final' = Uncertain /\ cfailed' = cfailed
  <1>1. issuer \in Issuers /\ final \in Completions \cup {None, Uncertain} /\ cfailed \in BOOLEAN
    BY DEF CoordinatorType
  <1>2. issuer' = IF issuer.retired THEN issuer ELSE Retired(issuer)
    BY DEF Retire
  <1>3. /\ Retired(issuer) \in Issuers /\ Retired(issuer).retired
        /\ Retired(issuer).next = issuer.next /\ Retired(issuer).consumed = issuer.consumed
    BY <1>1, Zenon DEF Retired, Issuers
  <1>4. /\ issuer' \in Issuers /\ issuer'.retired /\ issuer'.next = issuer.next /\ issuer'.consumed = issuer.consumed
        /\ issuer.retired => issuer' = issuer
    BY <1>1, <1>2, <1>3
  <1>5. final' \in Completions \cup {None, Uncertain}
    BY <1>1 DEF Retire
  <1>6. cfailed' \in BOOLEAN
    BY <1>1 DEF Retire
  <1>7. /\ issuer.retired => final' = final /\ cfailed' = cfailed
        /\ ~issuer.retired /\ issuer.slot => final' = Uncertain /\ cfailed' = cfailed
    BY <1>1 DEF Retire
  <1> QED BY <1>4, <1>5, <1>6, <1>7

LEMMA CoordinatorTypes ==
    ASSUME Types, ShapeInv, Next
    PROVE  CoordinatorType'
  <1>0. /\ job \in Jobs
        /\ issuer \in Issuers \cup {None} /\ CoordinatorType /\ WireType
        /\ final \in Completions \cup {None, Uncertain} /\ cfailed \in BOOLEAN
    BY DEF Types, CoordinatorType
  <1> USE WorkloadAssumption
  <1>1. CASE NodeStep \/ Environment
    BY <1>0, <1>1, NodeFrame DEF CoordinatorType, coordinator
  <1>2. CASE Issue
    <2>1. issuer' \in Issuers
      BY <1>0, <1>2, SMTT(30) DEF Issue, Issuers, WireType
    <2>2. job' \in Jobs
      BY <1>0, <1>2 DEF Issue, Active, Jobs
    <2> QED BY <1>0, <1>2, <2>1, <2>2 DEF Issue, CoordinatorType
  <1>3. CASE Lease
    <2>1. issuer # None /\ UNCHANGED <<job, ack>>
      BY <1>3 DEF Lease
    <2>2. CASE Retire
      BY <1>0, <2>1, <2>2, RetireType DEF CoordinatorType
    <2>3. CASE UNCHANGED <<final, cfailed>> /\ issuer' \in {issuer, [issuer EXCEPT !.next = @ + 1]}
      <3>1. issuer \in Issuers BY <1>0, <2>1
      <3>2. [issuer EXCEPT !.next = @ + 1] \in Issuers BY <3>1 DEF Issuers
      <3> QED BY <1>0, <2>1, <2>3, <3>2 DEF CoordinatorType
    <2> QED BY <1>3, <2>2, <2>3 DEF Lease
  <1>4. CASE Acknowledge
    <2>1. issuer # None /\ UNCHANGED job
      BY <1>4 DEF Acknowledge
    <2>2. \/ Retire /\ UNCHANGED ack
          \/ ack' \in {ack, "waiting"} /\ UNCHANGED <<issuer, final, cfailed>>
      BY <1>4 DEF Acknowledge
    <2> QED BY <1>0, <2>1, <2>2, RetireType DEF CoordinatorType
  <1>5. CASE AckWorker
    <2>1. /\ job' = job \/ job' = [job EXCEPT !.state = "accepted", !.ack = TRUE]
          /\ ack' \in {"none", "saved", "refused"} /\ UNCHANGED <<issuer, final, cfailed>>
      BY <1>5 DEF AckWorker
    <2>2. job' \in Jobs
      BY <1>0, <2>1, Zenon DEF Active, Jobs
    <2> QED BY <1>0, <2>1, <2>2 DEF CoordinatorType
  <1>6. CASE Acknowledged
    <2>1. issuer # None /\ ack' = "none" /\ UNCHANGED job
      BY <1>6 DEF Acknowledged, ShapeInv
    <2>2. \/ Retire
          \/ issuer' = [issuer EXCEPT !.consumed = TRUE, !.acknowledged = TRUE] /\ UNCHANGED <<final, cfailed>>
      BY <1>6 DEF Acknowledged
    <2>3. [issuer EXCEPT !.consumed = TRUE, !.acknowledged = TRUE] \in Issuers
      BY <1>0, <2>1, Zenon DEF Issuers
    <2> QED BY <1>0, <2>1, <2>2, <2>3, RetireType DEF CoordinatorType
  <1>7. CASE Complete
    <2>1. issuer # None /\ UNCHANGED <<job, ack>>
      BY <1>7 DEF Complete
    <2>2. PICK m \in net :
            /\ m.type = "done"
            /\ \/ UNCHANGED <<issuer, final, cfailed>> \/ Retire
               \/ /\ issuer' = Retired(issuer) /\ UNCHANGED cfailed
                  /\ final' = [kind |-> "complete", report |-> m.report, last |-> issuer.next - 1]
      BY <1>7 DEF Complete
    <2>3. m.report \in Evidence
      BY <1>0, <2>2, Zenon DEF WireType, NetType
    <2>4. issuer \in Issuers
      BY <1>0, <2>1
    <2>5. Retired(issuer) \in Issuers
      BY <2>4, Zenon DEF Retired, Issuers
    <2>6. issuer.next \in Nat \ {0}
      BY <2>4 DEF Issuers
    <2>7. [kind |-> "complete", report |-> m.report, last |-> issuer.next - 1] \in Completions
      BY <2>3, <2>6 DEF Completions
    <2> QED BY <1>0, <2>1, <2>2, <2>5, <2>7, RetireType, Zenon DEF CoordinatorType
  <1>8. CASE DropIssuer
    <2>1. issuer # None /\ Retire /\ UNCHANGED job /\ ack' \in {"none", "abandoned"}
      BY <1>8 DEF DropIssuer
    <2> QED BY <1>0, <2>1, RetireType DEF CoordinatorType
  <1>9. CASE FinalWorker
    <2>1. final' = None /\ UNCHANGED <<issuer, ack>> /\ final # None
      BY <1>9 DEF FinalWorker
    <2>2. \/ job' = [job EXCEPT !.state = "completed", !.completion = final] /\ final.kind = "complete"
          \/ job' = mark_unknown \/ job' = job
      BY <1>9 DEF FinalWorker
    <2>3. final.kind = "complete" => final \in Completions
      BY <1>0, <2>1 DEF Uncertain
    <2>4. job' \in Jobs
      BY <1>0, <2>2, <2>3, Zenon DEF mark_unknown, Jobs
    <2>5. cfailed' \in BOOLEAN
      BY <1>0, <1>9 DEF FinalWorker
    <2> QED BY <1>0, <2>1, <2>4, <2>5 DEF CoordinatorType
  <1>10. CASE CoordinatorCrash
    <2>1. job' \in Jobs
      BY <1>0, <1>10 DEF CoordinatorCrash, mark_unknown, Jobs
    <2> QED BY <1>0, <1>10, <2>1, Zenon DEF CoordinatorCrash, CoordinatorType
  <1> QED BY <1>1, <1>2, <1>3, <1>4, <1>5, <1>6, <1>7, <1>8, <1>9, <1>10, Zenon DEF Next, CoordinatorStep

\* Running::drop and Consumption::drop.
LEMMA DiscardType ==
    ASSUME NodeType, Discard
    PROVE  /\ source' \in Sources /\ reporting' \in Lifetimes /\ holder' = "gone"
           /\ nfailed' \in BOOLEAN /\ append' \in Saves \cup {None}
           /\ append = None => append' = None
           /\ append # None => /\ append' # None /\ append'.stage = append.stage /\ append'.at = append.at
                               /\ append'.sequence = append.sequence /\ append'.deadline = append.deadline
           /\ reporting'.started = reporting.started /\ reporting'.sequence = reporting.sequence
           /\ reporting'.deadline = reporting.deadline
  <1>1. source \in Sources /\ reporting \in Lifetimes /\ nfailed \in BOOLEAN /\ append \in Saves \cup {None}
    BY DEF NodeType
  <1>2. source' \in Sources
    BY <1>1, Zenon DEF Discard, Released, Sources
  <1>3. /\ reporting' \in Lifetimes /\ reporting'.started = reporting.started
        /\ reporting'.sequence = reporting.sequence /\ reporting'.deadline = reporting.deadline
    BY <1>1, Zenon DEF Discard, Lifetimes
  <1>4. nfailed' \in BOOLEAN
    BY <1>1 DEF Discard
  <1>5. append # None => /\ append' \in Saves /\ append'.stage = append.stage /\ append'.at = append.at
                         /\ append'.sequence = append.sequence /\ append'.deadline = append.deadline
    BY <1>1, Zenon DEF Discard, Saves
  <1>6. append = None => append' = None
    BY DEF Discard
  <1>7. None \notin Saves
    BY NoneAssumption
  <1>8. holder' = "gone"
    BY DEF Discard
  <1> QED BY <1>2, <1>3, <1>4, <1>5, <1>6, <1>7, <1>8

LEMMA EventType ==
    ASSUME Types, QueueInv, queue # <<>>, Head(queue) = "event"
    PROVE  append \in Saves /\ append # None
  <1>1. Pending
    BY DEF QueueInv, Queues
  <1> QED BY <1>1 DEF Pending, Types, NodeType

\* LeaseProof::confirm
LEMMA ProofType ==
    ASSUME WireType, NEW m \in net, m.type = "lease"
    PROVE  /\ Proof(m) \in Leases /\ Proof(m).sequence = m.sequence
           /\ End(Proof(m)) <= m.sent + m.lease /\ Proof(m).deadline <= m.sent + m.lease
  <1>1. m.sequence \in Nat /\ m.sent \in Int /\ m.lease \in Int /\ m.session \in Int /\ Margin \in Nat
    BY WorkloadAssumption, Zenon DEF WireType, NetType
  <1> QED BY <1>1 DEF Proof, Counted, Leases, End, Min2

LEMMA NodeTypes ==
    ASSUME Types, ShapeInv, QueueInv, DoneInv, Next
    PROVE  NodeType'
  <1>0. /\ row \in Rows /\ stopped \in BOOLEAN /\ slot \in BOOLEAN /\ nfailed \in BOOLEAN /\ open \in BOOLEAN
        /\ holder \in Held \cup {"none", "done", "gone"} /\ window \in Leases \cup {None}
        /\ reporting \in Lifetimes /\ source \in Sources /\ filter \in [blocks : Nat, events : Nat]
        /\ append \in Saves \cup {None} /\ NodeType /\ WireType /\ now \in Int
    BY DEF Types, NodeType, WireType
  <1> USE WorkloadAssumption
  <1>1. CASE CoordinatorStep
    BY <1>0, <1>1, CoordinatorFrame DEF NodeType, journal, runner
  <1>2. CASE Request \/ Abandon \/ Tick
    BY <1>0, <1>2, Zenon DEF Request, Abandon, Tick, NodeType, journal, runner
  <1>3. CASE Confirm
    <2>1. PICK m \in net : m.type = "lease" /\ (window' = window \/ window' = Proof(m))
      BY <1>3, Zenon DEF Confirm
    <2>2. Proof(m) \in Leases
      BY <1>0, <2>1, ProofType
    <2> QED BY <1>0, <1>3, <2>1, <2>2, Zenon DEF Confirm, NodeType, journal
  <1>4. CASE Prepare
    <2>1. source' \in Sources BY <1>4 DEF Prepare, Sources
    <2> QED BY <1>0, <1>4, <2>1, Zenon DEF Prepare, NodeType, journal
  <1>5. CASE Consume
    <2>1. row' \in Rows BY <1>0, <1>5, Zenon DEF Consume, Rows
    <2> QED BY <1>0, <1>5, <2>1, Zenon DEF Consume, NodeType, Held
  <1>6. CASE SendAck
    BY <1>0, <1>6 DEF SendAck, NodeType, Held, journal
  <1>7. CASE Drop \/ Supervise
    <2>1. Discard /\ UNCHANGED <<row, stopped, slot, window, filter, open>>
      BY <1>7 DEF Drop, Supervise
    <2> QED BY <1>0, <2>1, DiscardType, Zenon DEF NodeType
  <1>8. CASE Drive
    <2>1. window \in Leases BY <1>0, <1>8 DEF Drive, ShapeInv, Held
    <2>2. reporting' \in Lifetimes BY <1>0, <1>8, <2>1 DEF Drive, Lifetimes, Leases, End, Min2
    <2>3. source' \in Sources BY <1>0, <1>8 DEF Drive, Sources
    <2> QED BY <1>0, <1>8, <2>2, <2>3, Zenon DEF Drive, NodeType, Held, journal
  <1>9. CASE Advance
    <2>1. window \in Leases BY <1>0, <1>9 DEF Advance, ShapeInv, Held
    <2>2. Head(renewals) \in Leases
      <3>1. renewals \in Seq(Leases) /\ renewals # <<>> BY <1>0, <1>9, Zenon DEF Advance, WireType
      <3> QED BY <3>1
    <2>3. window' \in Leases BY <1>9, <2>1, <2>2, Zenon DEF Advance, Leases, Min2
    <2>4. reporting' = [reporting EXCEPT !.sequence = window'.sequence, !.deadline = End(window')]
      BY <1>9 DEF Advance
    <2>5. reporting' \in Lifetimes BY <1>0, <2>3, <2>4, Zenon DEF Lifetimes, Leases, End, Min2
    <2> QED BY <1>0, <1>9, <2>3, <2>5, Zenon DEF Advance, NodeType, journal
  <1>10. CASE Quiet
    <2>1. filter' \in [blocks : Nat, events : Nat] BY <1>0, <1>10 DEF Quiet
    <2> QED BY <1>0, <1>10, <2>1 DEF Quiet, NodeType, journal
  <1>11. CASE Observe
    <2>1. filter' \in [blocks : Nat, events : Nat] BY <1>0, <1>11 DEF Observe
    <2>2. append' \in Saves BY <1>0, <1>11 DEF Observe, Saves, Lifetimes
    <2> QED BY <1>0, <1>11, <2>1, <2>2, Zenon DEF Observe, NodeType
  <1>12. CASE AppendCheck
    <2>1. append \in Saves BY <1>12, EventType DEF AppendCheck
    <2>2. append' \in Saves BY <1>0, <1>12, <2>1, Zenon DEF AppendCheck, Saves
    <2> QED BY <1>0, <1>12, <2>2, Zenon DEF AppendCheck, NodeType
  <1>13. CASE AppendCommit
    <2>1. append \in Saves BY <1>13, EventType DEF AppendCommit
    <2>2. append' \in Saves BY <1>0, <1>13, <2>1, Zenon DEF AppendCommit, Saves
    <2>3. [sequence |-> append.sequence, at |-> append.at] \in [sequence : Nat, at : Int]
      BY <2>1 DEF Saves
    <2>4. row' \in Rows
      <3> DEFINE e == [sequence |-> append.sequence, at |-> append.at]
      <3>1. Append(row.events, e) \in Seq([sequence : Nat, at : Int])
        BY <1>0, <2>3 DEF Rows
      <3>2. [row EXCEPT !.events = Append(row.events, e)] \in Rows
        BY <1>0, <3>1, Zenon DEF Rows
      <3>3. row' \in {row, [row EXCEPT !.events = Append(row.events, e)]}
        BY <1>13 DEF AppendCommit
      <3> QED BY <1>0, <3>2, <3>3, Zenon
    <2> QED BY <1>0, <1>13, <2>2, <2>4, Zenon DEF AppendCommit, NodeType
  <1>14. CASE Appended
    <2>1. UNCHANGED <<row, stopped, slot, window, filter, open>>
      BY <1>14 DEF Appended
    <2>2. \/ append' = None /\ UNCHANGED <<queue, nfailed, holder, reporting, source>>
          \/ Discard
      BY <1>14 DEF Appended
    <2> QED BY <1>0, <2>1, <2>2, DiscardType, Zenon DEF NodeType
  <1>15. CASE Finish
    <2>1. source' \in Sources BY <1>0, <1>15, Zenon DEF Finish, Sources
    <2>2. reporting' \in Lifetimes BY <1>0, <1>15, Zenon DEF Finish, Lifetimes
    <2>3. nfailed' \in BOOLEAN BY <1>0, <1>15 DEF Finish
    <2> QED BY <1>0, <1>15, <2>1, <2>2, <2>3, Zenon DEF Finish, NodeType
  <1>16. CASE Exit
    <2>1. source' \in Sources BY <1>0, <1>16, Zenon DEF Exit, Sources
    <2> QED BY <1>0, <1>16, <2>1 DEF Exit, NodeType, journal
  <1>17. CASE MarkUnknown
    <2>1. row' \in Rows BY <1>0, <1>17, Zenon DEF MarkUnknown, Rows
    <2>2. nfailed' \in BOOLEAN BY <1>0, <1>17 DEF MarkUnknown
    <2> QED BY <1>0, <1>17, <2>1, <2>2, Zenon DEF MarkUnknown, NodeType, runner
  <1>18. CASE SaveCompletion
    <2>1. window \in Leases
      <3>1. queue = <<"complete">> BY <1>18 DEF SaveCompletion, QueueInv, Queues
      <3> QED BY <1>0, <3>1 DEF ShapeInv, QueueInv, DoneInv
    <2>2. Report \in Evidence BY <1>0, <2>1 DEF Report, Evidence, Leases
    <2>3. row' \in Rows BY <1>0, <1>18, <2>2, Zenon DEF SaveCompletion, Rows
    <2>4. nfailed' \in BOOLEAN BY <1>0, <1>18, Zenon DEF SaveCompletion
    <2> QED BY <1>0, <1>18, <2>3, <2>4, Zenon DEF SaveCompletion, NodeType, runner
  <1>19. CASE NodeCrash
    <2>1. source' \in Sources BY <1>0, <1>19, Zenon DEF NodeCrash, Sources
    <2>2. reporting' \in Lifetimes BY <1>0, <1>19, Zenon DEF NodeCrash, Lifetimes
    <2> QED BY <1>0, <1>19, <2>1, <2>2, Zenon DEF NodeCrash, NodeType
  <1>20. CASE Stop
    <2>1. row' \in Rows BY <1>0, <1>20, Zenon DEF Stop, Rows
    <2> QED BY <1>0, <1>20, <2>1 DEF Stop, NodeType, runner
  <1>21. CASE Disable \/ Enable
    <2>1. source' \in Sources BY <1>0, <1>21, Zenon DEF Disable, Enable, NewEpoch, Sources
    <2> QED BY <1>0, <1>21, <2>1, Zenon DEF Disable, Enable, NodeType, journal
  <1> QED
    BY <1>1, <1>2, <1>3, <1>4, <1>5, <1>6, <1>7, <1>8, <1>9, <1>10, <1>11, <1>12, <1>13, <1>14, <1>15, <1>16,
       <1>17, <1>18, <1>19, <1>20, <1>21, Zenon DEF Next, NodeStep, NodeWorker, Environment

\* A message that is taken, kept or added leaves the others as they are.
LEMMA NetGrows ==
    ASSUME NetType, NEW m, net' \subseteq net \cup {m},
           m.type = "probe" => m.sequence \in Nat /\ m.sent \in Int,
           m.type = "lease" => m.sequence \in Nat /\ {m.sent, m.lease, m.session} \subseteq Int,
           m.type = "done" => m.report \in Evidence
    PROVE  NetType'
  BY DEF NetType

LEMMA NetShrinks == NetType /\ net' \subseteq net => NetType'
  BY DEF NetType

LEMMA WireTypes ==
    ASSUME Types, ShapeInv, QueueInv, DoneInv, Next
    PROVE  WireType'
  <1>0. /\ now \in Int /\ crashes \in Nat /\ promised \in Seq(Int) /\ probe \in Challenges \cup {None}
        /\ renewals \in Seq(Leases) /\ NetType /\ WireType /\ NodeType /\ CoordinatorType
    BY DEF Types, WireType
  <1> USE WorkloadAssumption
  <1>1. CASE Issue
    <2>1. NetType'
      <3> DEFINE m == [type |-> "offer"]
      <3>1. net' \subseteq net \cup {m} /\ m.type = "offer"
        BY <1>1 DEF Issue
      <3> HIDE DEF m
      <3> QED BY <1>0, <3>1, NetGrows, Zenon
    <2> QED BY <1>0, <1>1, <2>1 DEF Issue, WireType
  <1>2. CASE Lease
    <2>1. UNCHANGED <<now, probe, renewals, crashes>>
      BY <1>2 DEF Lease
    <2>2. PICK q \in net :
            /\ q.type = "probe" /\ issuer # None
            /\ \/ net' = net \ {q} /\ UNCHANGED promised
               \/ /\ promised' = Append(promised, now + Min2(Remaining, MaxLease))
                  /\ net' = (net \ {q}) \cup
                               {[type |-> "lease", sequence |-> q.sequence, sent |-> q.sent,
                                 lease |-> Min2(Remaining, MaxLease), session |-> Remaining]}
      BY <1>2, Zenon DEF Lease
    <2>3. Remaining \in Int /\ Min2(Remaining, MaxLease) \in Int /\ q.sequence \in Nat /\ q.sent \in Int
      <3>1. issuer.end \in Int BY <1>0, <2>2 DEF CoordinatorType, Issuers
      <3>2. q.sequence \in Nat /\ q.sent \in Int BY <1>0, <2>2, Zenon DEF NetType
      <3>3. Remaining \in Int BY <1>0, <3>1, SMTT(30) DEF Remaining
      <3>4. MaxLease \in Int BY <1>0
      <3> QED BY <3>2, <3>3, <3>4, Zenon DEF Min2
    <2>4. CASE net' = net \ {q} /\ UNCHANGED promised
      BY <1>0, <2>1, <2>4, NetShrinks DEF WireType
    <2>5. CASE net' # net \ {q} \/ promised' # promised
      <3> DEFINE m == [type |-> "lease", sequence |-> q.sequence, sent |-> q.sent,
                       lease |-> Min2(Remaining, MaxLease), session |-> Remaining]
      <3>1. /\ m.type = "lease" /\ m.sequence = q.sequence /\ m.sent = q.sent
            /\ m.lease = Min2(Remaining, MaxLease) /\ m.session = Remaining
        OBVIOUS
      <3>2. net' \subseteq net \cup {m} /\ promised' = Append(promised, now + Min2(Remaining, MaxLease))
        BY <2>2, <2>5, Zenon
      <3> HIDE DEF m
      <3>3. NetType'
        <4>1. m.sequence \in Nat /\ {m.sent, m.lease, m.session} \subseteq Int
          BY <2>3, <3>1
        <4> QED BY <1>0, <3>1, <3>2, <4>1, Zenon DEF NetType
      <3>4. promised' \in Seq(Int)
        BY <1>0, <2>3, <3>2, SMTT(30)
      <3> QED BY <1>0, <2>1, <3>3, <3>4, Zenon DEF WireType
    <2> QED BY <2>4, <2>5
  <1>3. CASE Acknowledge \/ Complete
    <2>1. net' \subseteq net /\ UNCHANGED <<now, probe, renewals, crashes, promised>>
      BY <1>3 DEF Acknowledge, Complete
    <2> QED BY <1>0, <2>1, NetShrinks DEF WireType
  <1>4. CASE AckWorker \/ Acknowledged \/ DropIssuer \/ FinalWorker
    <2>1. UNCHANGED <<now, wire, crashes, promised>>
      BY <1>4, Zenon DEF AckWorker, Acknowledged, DropIssuer, FinalWorker
    <2> QED BY <1>0, <2>1 DEF WireType, NetType, wire
  <1>5. CASE CoordinatorCrash
    BY <1>0, <1>5 DEF CoordinatorCrash, WireType, NetType
  <1>6. CASE Request
    <2>1. Sequence \in Nat
      <3>1. CASE renewals # <<>>
        <4>1. renewals[Len(renewals)] \in Leases BY <1>0, <3>1
        <4> QED BY <3>1, <4>1 DEF Sequence, Leases
      <3>2. CASE renewals = <<>>
        BY <1>0, <3>2 DEF Sequence, Leases, NodeType
      <3> QED BY <3>1, <3>2
    <2>2. probe' \in Challenges
      BY <1>0, <1>6, <2>1 DEF Request, Challenges
    <2>3. NetType'
      <3> DEFINE m == [type |-> "probe", sequence |-> Sequence + 1, sent |-> now]
      <3>1. m.type = "probe" /\ m.sequence = Sequence + 1 /\ m.sent = now
        BY Zenon
      <3>2. net' \subseteq net \cup {m}
        BY <1>6, Zenon DEF Request
      <3> HIDE DEF m
      <3>3. m.sequence \in Nat /\ m.sent \in Int
        BY <1>0, <2>1, <3>1
      <3> QED BY <1>0, <3>1, <3>2, <3>3, Zenon DEF NetType
    <2> QED BY <1>0, <1>6, <2>2, <2>3, Zenon DEF Request, WireType
  <1>7. CASE Abandon
    BY <1>0, <1>7, Zenon DEF Abandon, WireType, NetType
  <1>8. CASE Confirm
    <2>1. UNCHANGED <<now, crashes, promised>> /\ probe' \in {probe, None}
      BY <1>8 DEF Confirm
    <2>2. PICK m \in net : m.type = "lease" /\ net' = net \ {m} /\ renewals' \in {renewals, Append(renewals, Proof(m))}
      BY <1>8, Zenon DEF Confirm
    <2>3. Proof(m) \in Leases
      BY <1>0, <2>2, ProofType, Zenon
    <2>4. renewals' \in Seq(Leases)
      <3>1. Append(renewals, Proof(m)) \in Seq(Leases) BY <1>0, <2>3
      <3> QED BY <1>0, <2>2, <3>1, Zenon
    <2>5. NetType'
      BY <1>0, <2>2, NetShrinks
    <2> QED BY <1>0, <2>1, <2>4, <2>5, Zenon DEF WireType
  <1>9. CASE Prepare \/ Drop \/ Drive \/ Supervise \/ Quiet \/ Observe
    <2>1. UNCHANGED <<now, wire, crashes, promised>>
      BY <1>9, Zenon DEF Prepare, Drop, Drive, Supervise, Quiet, Observe
    <2> QED BY <1>0, <2>1 DEF WireType, NetType, wire
  <1>10. CASE Appended \/ Finish \/ Exit \/ AppendCheck \/ AppendCommit \/ MarkUnknown
    <2>1. UNCHANGED <<now, wire, crashes, promised>>
      BY <1>10, Zenon DEF Appended, Finish, Exit, AppendCheck, AppendCommit, MarkUnknown
    <2> QED BY <1>0, <2>1 DEF WireType, NetType, wire
  <1>11. CASE Consume
    <2>1. net' \subseteq net /\ UNCHANGED <<now, probe, renewals, crashes, promised>>
      BY <1>11 DEF Consume
    <2> QED BY <1>0, <2>1, NetShrinks DEF WireType
  <1>12. CASE SendAck
    <2>1. NetType'
      <3> DEFINE m == [type |-> "ack"]
      <3>1. net' \subseteq net \cup {m} /\ m.type = "ack"
        BY <1>12 DEF SendAck
      <3> HIDE DEF m
      <3> QED BY <1>0, <3>1, NetGrows, Zenon
    <2> QED BY <1>0, <1>12, <2>1 DEF SendAck, WireType
  <1>13. CASE Advance
    <2>1. renewals' \in Seq(Leases)
      BY <1>0, <1>13 DEF Advance
    <2> QED BY <1>0, <1>13, <2>1, Zenon DEF Advance, WireType, NetType
  <1>14. CASE SaveCompletion
    <2>1. Report \in Evidence
      <3>1. queue = <<"complete">> BY <1>14 DEF SaveCompletion, QueueInv, Queues
      <3>2. window \in Leases BY <1>0, <3>1 DEF ShapeInv, DoneInv, NodeType
      <3> QED BY <1>0, <3>2, Zenon DEF Report, Evidence, Leases, NodeType
    <2>2. NetType'
      <3> DEFINE m == [type |-> "done", report |-> Report]
      <3>1. m.type = "done" /\ m.report = Report
        OBVIOUS
      <3>2. net' \subseteq net \cup {m}
        BY <1>14 DEF SaveCompletion, Reported
      <3> HIDE DEF m
      <3> QED BY <1>0, <2>1, <3>1, <3>2, NetGrows, Zenon
    <2> QED BY <1>0, <1>14, <2>2, Zenon DEF SaveCompletion, WireType
  <1>15. CASE NodeCrash
    BY <1>0, <1>15, SMTT(30) DEF NodeCrash, WireType, NetType
  <1>16. CASE Stop \/ Disable \/ Enable
    <2>1. UNCHANGED <<now, wire, crashes, promised>>
      BY <1>16 DEF Stop, Disable, Enable
    <2> QED BY <1>0, <2>1 DEF WireType, NetType, wire
  <1>17. CASE Tick
    BY <1>0, <1>17 DEF Tick, WireType, NetType, wire
  <1> QED
    BY <1>1, <1>2, <1>3, <1>4, <1>5, <1>6, <1>7, <1>8, <1>9, <1>10, <1>11, <1>12, <1>13, <1>14, <1>15, <1>16,
       <1>17, Zenon DEF Next, CoordinatorStep, NodeStep, NodeWorker, Environment

-----------------------------------------------------------------------------
(* Who holds what: the window of a consumption, the issuer of a checkpoint, *)
(* the two places of the journal worker.                                    *)

LEMMA ShapeKept ==
    ASSUME Types, ShapeInv, Next, NodeType'
    PROVE  ShapeInv'
  <1>0. /\ holder \in Held \cup {"none", "done", "gone"} /\ window \in Leases \cup {None} /\ None \notin Leases
        /\ reporting \in Lifetimes /\ NodeType /\ WireType /\ None \notin Issuers
        /\ issuer \in Issuers \cup {None} /\ CoordinatorType
    BY NoneAssumption DEF Types, NodeType, CoordinatorType
  <1>1. holder' \in Held \cup {"done"} => window' # None
    <2>1. CASE CoordinatorStep
      BY <2>1, CoordinatorFrame DEF ShapeInv, runner
    <2>2. CASE Confirm
      <3>1. window' = window \/ \E m \in net : m.type = "lease" /\ window' = Proof(m)
        BY <2>2, Zenon DEF Confirm
      <3>2. holder' = holder BY <2>2 DEF Confirm
      <3> QED BY <1>0, <3>1, <3>2, ProofType DEF ShapeInv
    <2>3. CASE Consume
      BY <2>3 DEF Consume
    <2>4. CASE Drop \/ Supervise \/ Appended
      <3>1. \/ holder' = "gone" \/ UNCHANGED <<holder, window>>
        BY <2>4, Zenon DEF Drop, Supervise, Appended, Discard
      <3> QED BY <3>1 DEF ShapeInv, Held
    <2>5. CASE SendAck \/ Drive \/ Finish
      BY <2>5, Zenon DEF SendAck, Drive, Finish, Polls, ShapeInv, Held
    <2>6. CASE Advance
      <3>1. window \in Leases BY <1>0, <2>6 DEF Advance, ShapeInv, Held
      <3>2. Head(renewals) \in Leases BY <1>0, <2>6 DEF Advance, WireType
      <3>3. window' \in Leases BY <2>6, <3>1, <3>2, Zenon DEF Advance, Leases, Min2
      <3> QED BY <1>0, <3>3
    <2>7. CASE NodeCrash
      BY <2>7 DEF NodeCrash, Held
    <2>8. CASE Request \/ Abandon \/ Prepare \/ Quiet \/ Observe \/ Exit \/ NodeWorker \/ Environment
      <3>1. UNCHANGED <<holder, window>>
        BY <2>8, Zenon DEF Request, Abandon, Prepare, Quiet, Observe, Exit, NodeWorker, AppendCheck, AppendCommit,
           MarkUnknown, SaveCompletion, Environment, Stop, Disable, Enable, Tick, runner
      <3> QED BY <3>1, Zenon DEF ShapeInv
    <2> QED BY <2>1, <2>2, <2>3, <2>4, <2>5, <2>6, <2>7, <2>8, Zenon DEF Next, NodeStep
  <1>2. ack' \in {"waiting", "saved", "refused"} => issuer' # None /\ ~issuer'.retired
    <2>1. CASE NodeStep \/ Environment
      BY <2>1, NodeFrame DEF ShapeInv, coordinator
    <2>2. CASE Issue \/ FinalWorker
      BY <2>2 DEF Issue, FinalWorker, ShapeInv
    <2>3. CASE Lease \/ Complete
      BY <2>3, Zenon DEF Lease, Complete, ShapeInv
    <2>4. CASE Acknowledge
      BY <2>4 DEF Acknowledge, ShapeInv, validate_live, local_live
    <2>5. CASE AckWorker \/ Acknowledged
      BY <2>5 DEF AckWorker, Acknowledged, ShapeInv
    <2>6. CASE DropIssuer \/ CoordinatorCrash
      BY <2>6 DEF DropIssuer, CoordinatorCrash
    <2> QED BY <2>1, <2>2, <2>3, <2>4, <2>5, <2>6, Zenon DEF Next, CoordinatorStep
  <1>3. job'.state = "approved" => promised' = <<>>
    <2>1. CASE NodeStep \/ Environment
      <3>1. UNCHANGED promised
        BY <2>1, Zenon DEF NodeStep, Environment, Request, Abandon, Confirm, Prepare, Consume, SendAck, Drop, Drive,
           Advance, Supervise, Quiet, Observe, Appended, Finish, Exit, NodeWorker, AppendCheck, AppendCommit,
           MarkUnknown, SaveCompletion, NodeCrash, Stop, Disable, Enable, Tick
      <3> QED BY <2>1, <3>1, NodeFrame DEF ShapeInv, coordinator
    <2>2. CASE Lease
      BY <2>2 DEF Lease, ShapeInv, validate_live, Active
    <2>3. CASE Acknowledge \/ Acknowledged \/ Complete \/ DropIssuer
      BY <2>3, Zenon DEF Acknowledge, Acknowledged, Complete, DropIssuer, ShapeInv
    <2>4. CASE Issue \/ AckWorker \/ FinalWorker \/ CoordinatorCrash
      <3>1. UNCHANGED promised
        BY <2>4, Zenon DEF Issue, AckWorker, FinalWorker, CoordinatorCrash
      <3>2. job' = job \/ job'.state # "approved"
        BY <1>0, <2>4, Zenon DEF Issue, AckWorker, FinalWorker, CoordinatorCrash, mark_unknown, CoordinatorType, Jobs
      <3> QED BY <3>1, <3>2 DEF ShapeInv
    <2> QED BY <2>1, <2>2, <2>3, <2>4, Zenon DEF Next, CoordinatorStep
  <1>4. reporting'.started \/ holder' # "driving"
    <2>1. CASE CoordinatorStep
      BY <2>1, CoordinatorFrame, Zenon DEF ShapeInv, runner
    <2>2. CASE Drop \/ Supervise \/ Appended \/ NodeCrash \/ Finish \/ Consume \/ SendAck
      BY <2>2, Zenon DEF Drop, Supervise, Appended, NodeCrash, Finish, Consume, SendAck, Discard, ShapeInv
    <2>3. CASE Drive
      BY <2>3 DEF Drive
    <2>4. CASE Advance
      BY <1>0, <2>4 DEF Advance, ShapeInv, Lifetimes
    <2>5. CASE Request \/ Abandon \/ Confirm \/ Prepare \/ Quiet \/ Observe \/ Exit \/ NodeWorker \/ Environment
      <3>1. UNCHANGED <<holder, reporting>>
        BY <2>5, Zenon DEF Request, Abandon, Confirm, Prepare, Quiet, Observe, Exit, NodeWorker, AppendCheck,
           AppendCommit, MarkUnknown, SaveCompletion, Environment, Stop, Disable, Enable, Tick, runner
      <3> QED BY <3>1 DEF ShapeInv
    <2> QED BY <2>1, <2>2, <2>3, <2>4, <2>5, Zenon DEF Next, NodeStep
  <1>5. holder' \in {"held", "sent"} => window'.sequence = 1
    <2>1. CASE CoordinatorStep
      BY <2>1, CoordinatorFrame DEF ShapeInv, runner
    <2>2. CASE Drop \/ Supervise \/ Appended \/ NodeCrash \/ Finish \/ Drive
      BY <2>2, Zenon DEF Drop, Supervise, Appended, NodeCrash, Finish, Drive, Discard, ShapeInv
    <2>3. CASE Consume \/ SendAck \/ Advance
      BY <2>3, Zenon DEF Consume, SendAck, Advance, ShapeInv
    <2>4. CASE Confirm
      <3>1. UNCHANGED holder /\ (window # None => window' = window)
        BY <2>4 DEF Confirm
      <3> QED BY <3>1, Zenon DEF ShapeInv, Held
    <2>5. CASE Request \/ Abandon \/ Prepare \/ Quiet \/ Observe \/ Exit \/ NodeWorker \/ Environment
      <3>1. UNCHANGED <<holder, window>>
        BY <2>5, Zenon DEF Request, Abandon, Prepare, Quiet, Observe, Exit, NodeWorker, AppendCheck, AppendCommit,
           MarkUnknown, SaveCompletion, Environment, Stop, Disable, Enable, Tick, runner
      <3> QED BY <3>1 DEF ShapeInv
    <2> QED BY <2>1, <2>2, <2>3, <2>4, <2>5, Zenon DEF Next, NodeStep
  <1> QED BY <1>1, <1>2, <1>3, <1>4, <1>5 DEF ShapeInv

LEMMA SameSequence ==
    ASSUME NEW S, NEW s \in Seq(S), NEW t \in Seq(S), Len(s) = Len(t), \A i \in 1..Len(s) : s[i] = t[i]
    PROVE  s = t
  OBVIOUS

\* The few contents of the worker's queue.
LEMMA QueueFacts ==
    /\ \A j : Append(<<>>, j) = <<j>> /\ Append(<<"event">>, j) = <<"event", j>>
    /\ Len(<<>>) = 0 /\ \A j : Len(<<j>>) = 1 /\ Head(<<j>>) = j /\ Tail(<<j>>) = <<>> /\ <<j>> # <<>>
    /\ \A j : Len(<<"event", j>>) = 2 /\ Head(<<"event", j>>) = "event" /\ Tail(<<"event", j>>) = <<j>>
    /\ \A j, k : <<j>> = <<k>> => j = k
    /\ \A j, k : <<j>> # <<"event", k>>
  <1>1. \A j : Append(<<>>, j) = <<j>> OBVIOUS
  <1>2. ASSUME NEW j PROVE Append(<<"event">>, j) = <<"event", j>>
    <2> DEFINE S == {"event", j}
               s == Append(<<"event">>, j)
               t == <<"event", j>>
    <2>1. <<"event">> \in Seq(S) /\ j \in S /\ Len(<<"event">>) = 1 /\ <<"event">>[1] = "event"
      OBVIOUS
    <2>2. s \in Seq(S) /\ Len(s) = 2 /\ s[1] = "event" /\ s[2] = j
      BY <2>1
    <2>3. t \in Seq(S) /\ Len(t) = 2 /\ t[1] = "event" /\ t[2] = j
      OBVIOUS
    <2> HIDE DEF s, t, S
    <2>4. \A i \in 1..Len(s) : s[i] = t[i]
      BY <2>2, <2>3
    <2>5. s = t BY <2>2, <2>3, <2>4, SameSequence
    <2> QED BY <2>5 DEF s, t
  <1>3. Len(<<>>) = 0 /\ \A j : Len(<<j>>) = 1 /\ Head(<<j>>) = j OBVIOUS
  <1>4. \A j : Tail(<<j>>) = <<>> OBVIOUS
  <1>5. \A j : <<j>> # <<>> OBVIOUS
  <1>6. \A j : Len(<<"event", j>>) = 2 /\ Head(<<"event", j>>) = "event" OBVIOUS
  <1>7. \A j : Tail(<<"event", j>>) = <<j>> OBVIOUS
  <1>8. \A j, k : <<j>> = <<k>> => j = k OBVIOUS
  <1>9. \A j, k : <<j>> # <<"event", k>> OBVIOUS
  <1> QED BY <1>1, <1>2, <1>3, <1>4, <1>5, <1>6, <1>7, <1>8, <1>9

\* A consumption that is dropped has its place.
LEMMA DiscardQueue ==
    ASSUME Types, QueueInv, holder \in Held, Discard
    PROVE  /\ queue' = (IF Pending THEN <<"event", "unknown">> ELSE <<"unknown">>)
           /\ nfailed' = nfailed /\ Pending' = Pending
  <1>1. queue \in {<<>>, <<"event">>} /\ (Pending <=> queue = <<"event">>)
    BY QueueFacts DEF QueueInv
  <1>2. Len(queue) < 2 /\ Len(queue) \in Nat
    BY <1>1
  <1>2a. queue' = Append(queue, "unknown")
    BY <1>2 DEF Discard, Submitted
  <1>3. nfailed' = nfailed
    BY <1>1, <1>2 DEF Discard, Types, NodeType
  <1>4. Pending' = Pending
    <2>1. NodeType BY DEF Types
    <2> QED BY <2>1, DiscardType DEF Pending
  <1> QED BY <1>1, <1>2a, <1>3, <1>4, QueueFacts, Zenon

\* The worker is done with an event.
LEMMA EventDone ==
    ASSUME QueueInv, queue \in {<<"event">>, <<"event", "unknown">>}, queue' = Tail(queue),
           UNCHANGED <<slot, holder>>, ~(Pending')
    PROVE  QueueInv'
  <1>1. CASE queue = <<"event">>
    <2>1. queue' = <<>> /\ (slot <=> holder \notin Held)
      BY <1>1, QueueFacts DEF QueueInv
    <2> QED BY <2>1, QueueFacts DEF QueueInv, Queues
  <1>2. CASE queue = <<"event", "unknown">>
    <2>1. queue' = <<"unknown">> /\ holder \notin Held /\ ~slot
      BY <1>2, QueueFacts DEF QueueInv
    <2> QED BY <2>1, QueueFacts, Zenon DEF QueueInv, Queues
  <1> QED BY <1>1, <1>2, Zenon

LEMMA QueueKept ==
    ASSUME Types, QueueInv, Next
    PROVE  QueueInv'
  <1>0. /\ holder \in Held \cup {"none", "done", "gone"} /\ append \in Saves \cup {None} /\ None \notin Saves
        /\ slot \in BOOLEAN /\ NodeType
    BY NoneAssumption DEF Types, NodeType
  <1>1. CASE UNCHANGED <<queue, slot, holder, append>>
    BY <1>1 DEF QueueInv, Pending
  <1>2. CASE Consume
    <2>1. /\ queue \in {<<>>, <<"event">>} /\ queue' = queue /\ slot' = FALSE /\ holder' = "held"
          /\ append' = append
      BY <1>2 DEF Consume, QueueInv
    <2> QED BY <2>1 DEF QueueInv, Pending, Queues, Held
  <1>3. CASE SendAck \/ Drive
    <2>1. holder \in Held /\ holder' \in Held /\ UNCHANGED <<queue, slot, append>>
      BY <1>3 DEF SendAck, Drive, Held, journal
    <2> QED BY <2>1 DEF QueueInv, Pending
  <1>4. ASSUME holder \in Held, Discard, UNCHANGED slot PROVE QueueInv'
    <2>1. /\ queue' = (IF Pending THEN <<"event", "unknown">> ELSE <<"unknown">>) /\ Pending' = Pending
          /\ holder' = "gone" /\ ~slot
      BY <1>4, DiscardQueue DEF Discard, QueueInv
    <2>2. holder' \notin Held BY <2>1 DEF Held
    <2> QED BY <1>4, <2>1, <2>2, QueueFacts DEF QueueInv, Queues
  <1>5. CASE Drop \/ Supervise
    BY <1>4, <1>5 DEF Drop, Supervise, Held
  <1>6. CASE Appended
    <2>1. CASE Polls /\ Discard
      BY <1>4, <1>6, <2>1 DEF Appended, Polls, Held
    <2>2. CASE ~(Polls /\ Discard)
      <3>1. append' = None /\ ~Pending /\ UNCHANGED <<queue, slot, holder>>
        BY <1>6, <2>2 DEF Appended, Pending
      <3> QED BY <3>1 DEF QueueInv, Pending
    <2> QED BY <2>1, <2>2
  <1>7. CASE Observe
    <2>1. holder = "driving" /\ append = None /\ UNCHANGED <<slot, holder>>
      BY <1>7 DEF Observe, Polls
    <2>2. queue = <<>> /\ ~slot
      BY <2>1, Zenon DEF QueueInv, Pending, Held
    <2>3. queue' = <<"event">>
      BY <1>7, <2>2, QueueFacts DEF Observe, Submitted
    <2>4. append' # None /\ append'.stage = "queued"
      <3>1. append' \in Saves
        <4>1. filter.events \in Nat /\ reporting \in Lifetimes /\ now \in Int
          BY DEF Types, NodeType, WireType
        <4> QED BY <1>7, <4>1 DEF Observe, Saves, Lifetimes
      <3> QED BY <1>0, <1>7, <3>1, Zenon DEF Observe
    <2> QED BY <2>1, <2>2, <2>3, <2>4, Zenon DEF QueueInv, Pending, Queues, Held
  <1>8. CASE Finish
    <2>1. holder = "driving" /\ append = None /\ UNCHANGED <<slot, append>> /\ holder' = "done"
      BY <1>8 DEF Finish, Polls
    <2>2. queue = <<>> /\ ~slot
      BY <2>1 DEF QueueInv, Pending, Held
    <2>3. queue' = <<"complete">>
      BY <1>8, <2>2, QueueFacts DEF Finish, Submitted
    <2> QED BY <2>1, <2>2, <2>3, QueueFacts DEF QueueInv, Pending, Queues, Held
  <1>9. CASE AppendCheck
    <2>1. append \in Saves /\ queue # <<>> /\ Head(queue) = "event" /\ append.stage = "queued"
      BY <1>9, EventType DEF AppendCheck
    <2>2. append' \in Saves /\ append'.stage \in {"checked", "refused"}
      <3>1. now \in Int BY DEF Types, WireType
      <3> QED BY <1>9, <2>1, <3>1, Zenon DEF AppendCheck, Saves
    <2>3. queue \in {<<"event">>, <<"event", "unknown">>}
      BY <2>1, QueueFacts DEF QueueInv, Queues
    <2>4. UNCHANGED <<slot, holder>> /\ queue' = IF append'.stage = "refused" THEN Tail(queue) ELSE queue
      BY <1>9 DEF AppendCheck
    <2>5. CASE append'.stage = "checked"
      BY <1>0, <2>2, <2>3, <2>4, <2>5 DEF QueueInv, Pending
    <2>6. CASE append'.stage = "refused"
      BY <2>3, <2>4, <2>6, EventDone DEF Pending
    <2> QED BY <2>2, <2>5, <2>6
  <1>10. CASE AppendCommit
    <2>1. append \in Saves /\ queue # <<>> /\ Head(queue) = "event"
      BY <1>10, EventType DEF AppendCommit
    <2>2. append'.stage \in {"saved", "refused"}
      BY <1>10, <2>1 DEF AppendCommit, Saves
    <2>3. queue \in {<<"event">>, <<"event", "unknown">>}
      BY <2>1, QueueFacts DEF QueueInv, Queues
    <2>4. UNCHANGED <<slot, holder>> /\ queue' = Tail(queue)
      BY <1>10, Zenon DEF AppendCommit
    <2> QED BY <2>2, <2>3, <2>4, EventDone DEF Pending
  <1>11. CASE MarkUnknown \/ SaveCompletion
    <2>1. /\ queue # <<>> /\ Head(queue) \in {"unknown", "complete"} /\ queue' = Tail(queue) /\ slot' = TRUE
          /\ UNCHANGED <<holder, append>>
      BY <1>11 DEF MarkUnknown, SaveCompletion, runner
    <2>2. queue \in {<<"unknown">>, <<"complete">>}
      BY <2>1, QueueFacts DEF QueueInv, Queues
    <2>3. queue' = <<>> /\ holder \notin Held /\ ~Pending
      BY <2>1, <2>2, QueueFacts, Zenon DEF QueueInv
    <2> QED BY <2>1, <2>3, QueueFacts DEF QueueInv, Pending, Queues
  <1>12. CASE NodeCrash
    BY <1>12, QueueFacts DEF NodeCrash, QueueInv, Pending, Queues, Held
  <1>13. CASE CoordinatorStep
    BY <1>1, <1>13, CoordinatorFrame DEF journal, runner
  <1>14. CASE Request \/ Abandon \/ Confirm \/ Prepare \/ Advance \/ Quiet \/ Exit \/ Environment
    <2>1. UNCHANGED <<queue, slot, holder, append>>
      BY <1>14, Zenon DEF Request, Abandon, Confirm, Prepare, Advance, Quiet, Exit, Environment, Stop, Disable, Enable,
         Tick, journal, runner
    <2> QED BY <1>1, <2>1, Zenon
  <1> QED
    BY <1>2, <1>3, <1>5, <1>6, <1>7, <1>8, <1>9, <1>10, <1>11, <1>12, <1>13, <1>14, Zenon
    DEF Next, NodeStep, NodeWorker

-----------------------------------------------------------------------------
(* Leases.                                                                 *)

\* An answer is never taken back.
LEMMA PromisesKept ==
    ASSUME Types, Next
    PROVE  /\ promised \in Seq(Int) /\ promised' \in Seq(Int) /\ Len(promised) <= Len(promised')
           /\ \A s \in 1..Len(promised) : s \in 1..Len(promised') /\ promised'[s] = promised[s]
  <1>0. promised \in Seq(Int) /\ now \in Int /\ MaxLease \in Nat /\ issuer \in Issuers \cup {None}
    BY WorkloadAssumption DEF Types, WireType, CoordinatorType
  <1>1. CASE promised' = promised
    BY <1>0, <1>1
  <1>2. CASE Lease
    <2>1. issuer # None /\ promised' \in {promised, Append(promised, now + Min2(Remaining, MaxLease))}
      BY <1>2 DEF Lease
    <2>2. now + Min2(Remaining, MaxLease) \in Int
      <3>1. issuer.end \in Int BY <1>0, <2>1 DEF Issuers
      <3> QED BY <1>0, <3>1 DEF Remaining, Min2
    <2> DEFINE e == now + Min2(Remaining, MaxLease)
    <2>3. promised' = promised \/ promised' = Append(promised, e)
      BY <2>1
    <2>4. e \in Int BY <2>2
    <2> HIDE DEF e
    <2>5. CASE promised' = Append(promised, e)
      BY <1>0, <2>4, <2>5
    <2> QED BY <1>1, <2>3, <2>5
  <1>3. CASE NodeStep \/ Environment
    <2>1. UNCHANGED promised
      BY <1>3, Zenon DEF NodeStep, Environment, Request, Abandon, Confirm, Prepare, Consume, SendAck, Drop, Drive,
         Advance, Supervise, Quiet, Observe, Appended, Finish, Exit, NodeWorker, AppendCheck, AppendCommit,
         MarkUnknown, SaveCompletion, NodeCrash, Stop, Disable, Enable, Tick
    <2> QED BY <1>1, <2>1
  <1>4. CASE CoordinatorStep /\ ~Lease
    <2>1. UNCHANGED promised
      BY <1>4, Zenon DEF CoordinatorStep, Issue, Acknowledge, AckWorker, Acknowledged, Complete, DropIssuer,
         FinalWorker, CoordinatorCrash
    <2> QED BY <1>1, <2>1
  <1> QED BY <1>2, <1>3, <1>4, Zenon DEF Next

LEMMA WindowKept ==
    ASSUME Types, ShapeInv, LeaseInv, Next, NodeType'
    PROVE  WindowInv'
  <1>0. /\ NodeType /\ WireType /\ WindowInv /\ MailInv /\ None \notin Leases
        /\ window \in Leases \cup {None} /\ renewals \in Seq(Leases) /\ reporting \in Lifetimes
    BY NoneAssumption DEF Types, NodeType, WireType, LeaseInv
  <1>p. /\ promised \in Seq(Int) /\ promised' \in Seq(Int) /\ Len(promised) <= Len(promised')
        /\ \A s \in 1..Len(promised) : s \in 1..Len(promised') /\ promised'[s] = promised[s]
    BY PromisesKept, Zenon
  <1>r. ASSUME UNCHANGED renewals
        PROVE  \A i \in 1..Len(renewals') : Covered(renewals[i].sequence, renewals[i].deadline)'
    BY <1>0, <1>p, <1>r, Zenon DEF WindowInv, Covered
  <1>w. ASSUME UNCHANGED window
        PROVE  window' # None => Covered(window.sequence, End(window))'
    BY <1>0, <1>p, <1>w, Zenon DEF WindowInv, Covered, End
  <1>s. ASSUME reporting'.started = reporting.started, reporting'.sequence = reporting.sequence,
               reporting'.deadline = reporting.deadline
        PROVE  reporting'.started => Covered(reporting.sequence, reporting.deadline)'
    BY <1>0, <1>p, <1>s, Zenon DEF WindowInv, Covered
  <1>1. CASE Confirm
    <2>1. PICK m \in net : /\ m.type = "lease" /\ (window' = window \/ window' = Proof(m))
                           /\ renewals' = renewals \/ renewals' = Append(renewals, Proof(m))
      BY <1>1, Zenon DEF Confirm
    <2>2. UNCHANGED <<reporting, promised>>
      BY <1>1, Zenon DEF Confirm
    <2>3. /\ Proof(m) \in Leases /\ Proof(m).sequence = m.sequence /\ End(Proof(m)) <= m.sent + m.lease
          /\ Proof(m).deadline <= m.sent + m.lease
      BY <1>0, <2>1, ProofType, Zenon
    <2>4. m.sequence \in 1..Len(promised) /\ m.sent + m.lease <= promised[m.sequence] /\ m.sent + m.lease \in Int
      BY <1>0, <2>1 DEF MailInv, Covered, WireType, NetType
    <2>5. Covered(m.sequence, End(Proof(m))) /\ Covered(m.sequence, Proof(m).deadline)
      <3>1. End(Proof(m)) \in Int /\ Proof(m).deadline \in Int
        BY <2>3 DEF Leases, End, Min2
      <3>2. promised[m.sequence] \in Int BY <1>p, <2>4
      <3> QED BY <2>3, <2>4, <3>1, <3>2 DEF Covered
    <2>6. window' # None => Covered(window.sequence, End(window))'
      BY <1>w, <2>1, <2>2, <2>3, <2>5, Zenon DEF Covered
    <2>7. \A i \in 1..Len(renewals') : Covered(renewals[i].sequence, renewals[i].deadline)'
      <3>1. CASE renewals' = Append(renewals, Proof(m))
        <4>1. ASSUME NEW i \in 1..Len(renewals')
              PROVE  (i \in 1..Len(renewals) /\ renewals'[i] = renewals[i]) \/ renewals'[i] = Proof(m)
          BY <1>0, <2>3, <3>1
        <4> QED BY <1>0, <2>2, <2>3, <2>5, <4>1, ZenonT(30) DEF WindowInv, Covered
      <3> QED BY <1>r, <2>1, <3>1
    <2> QED BY <1>s, <2>2, <2>6, <2>7, Zenon DEF WindowInv
  <1>2. CASE Advance
    <2>1. window \in Leases /\ renewals # <<>> /\ UNCHANGED promised
      BY <1>0, <1>2 DEF Advance, ShapeInv, Held
    <2>2. /\ window' = [Head(renewals) EXCEPT !.session = Min2(window.session, Head(renewals).session)]
          /\ reporting' = [reporting EXCEPT !.sequence = window'.sequence, !.deadline = End(window')]
          /\ renewals' = Tail(renewals)
      BY <1>2 DEF Advance
    <2>3. Head(renewals) = renewals[1] /\ renewals[1] \in Leases /\ 1 \in 1..Len(renewals)
      BY <1>0, <2>1
    <2>4. /\ window' \in Leases /\ window'.sequence = renewals[1].sequence /\ window'.deadline = renewals[1].deadline
      BY <2>1, <2>2, <2>3, Zenon DEF Leases, Min2
    <2>5. End(window') \in Int /\ End(window') <= renewals[1].deadline
      BY <2>4 DEF Leases, End, Min2
    <2>6. Covered(renewals[1].sequence, renewals[1].deadline) /\ renewals[1].deadline \in Int
      BY <1>0, <2>3, Zenon DEF WindowInv, Leases
    <2>7. window'.sequence \in 1..Len(promised) /\ End(window') <= promised[window'.sequence]
      BY <1>p, <2>4, <2>5, <2>6, SMTT(30) DEF Covered
    <2>8. window' # None => Covered(window.sequence, End(window))'
      BY <2>1, <2>7 DEF Covered, End
    <2>9. reporting'.sequence = window'.sequence /\ reporting'.deadline = End(window')
      BY <1>0, <2>2 DEF Lifetimes
    <2>10. \A i \in 1..Len(renewals') : Covered(renewals[i].sequence, renewals[i].deadline)'
      <3>1. \A i \in 1..Len(renewals') : i + 1 \in 1..Len(renewals) /\ renewals'[i] = renewals[i + 1]
        BY <1>0, <2>1, <2>2
      <3> QED BY <1>0, <2>1, <3>1, Zenon DEF WindowInv, Covered
    <2> QED BY <2>1, <2>7, <2>8, <2>9, <2>10, Zenon DEF WindowInv, Covered
  <1>3. CASE Drive
    <2>1. /\ window # None /\ window.sequence = 1 /\ UNCHANGED <<window, renewals, promised>>
          /\ reporting'.sequence = 1 /\ reporting'.deadline = End(window)
      BY <1>3, Zenon DEF Drive, ShapeInv, Held, wire
    <2>2. Covered(1, End(window))
      BY <1>0, <2>1 DEF WindowInv
    <2> QED BY <1>r, <1>w, <2>1, <2>2, Zenon DEF WindowInv, Covered
  <1>4. CASE NodeCrash
    <2>1. window' = None /\ renewals' = <<>> /\ reporting' = [reporting EXCEPT !.retired = TRUE]
      BY <1>4 DEF NodeCrash
    <2>2. /\ reporting'.started = reporting.started /\ reporting'.sequence = reporting.sequence
          /\ reporting'.deadline = reporting.deadline
      BY <1>0, <2>1 DEF Lifetimes
    <2> QED BY <1>s, <2>1, <2>2 DEF WindowInv
  <1>5. CASE Drop \/ Supervise \/ Appended \/ Finish
    <2>1. UNCHANGED <<window, renewals>> /\ reporting' \in {reporting, [reporting EXCEPT !.retired = TRUE]}
      BY <1>5, Zenon DEF Drop, Supervise, Appended, Finish, Discard, wire
    <2>2. /\ reporting'.started = reporting.started /\ reporting'.sequence = reporting.sequence
          /\ reporting'.deadline = reporting.deadline
      BY <1>0, <2>1, Zenon DEF Lifetimes
    <2> QED BY <1>r, <1>w, <1>s, <2>1, <2>2 DEF WindowInv
  <1>6. CASE CoordinatorStep
    BY <1>r, <1>w, <1>s, <1>6, CoordinatorFrame, Zenon DEF WindowInv, runner
  <1>7. CASE Request \/ Abandon \/ Prepare \/ Consume \/ SendAck \/ Quiet \/ Observe \/ Exit
    <2>1. UNCHANGED <<window, renewals, reporting>>
      BY <1>7, Zenon DEF Request, Abandon, Prepare, Consume, SendAck, Quiet, Observe, Exit, runner, wire
    <2> QED BY <1>r, <1>w, <1>s, <2>1 DEF WindowInv
  <1>8. CASE NodeWorker \/ Environment
    <2>1. UNCHANGED <<window, renewals, reporting>>
      BY <1>8, Zenon DEF NodeWorker, AppendCheck, AppendCommit, MarkUnknown, SaveCompletion, Environment, Stop, Disable,
         Enable, Tick, runner, wire
    <2> QED BY <1>r, <1>w, <1>s, <2>1 DEF WindowInv
  <1> QED BY <1>1, <1>2, <1>3, <1>4, <1>5, <1>6, <1>7, <1>8, Zenon DEF Next, NodeStep

LEMMA MailKept ==
    ASSUME Types, ShapeInv, LeaseInv, Next
    PROVE  MailInv'
  <1>0. /\ WireType /\ MailInv /\ None \notin Issuers /\ now \in Int /\ MaxLease \in Nat /\ NetType
        /\ issuer \in Issuers \cup {None} /\ CoordinatorType
    BY NoneAssumption, WorkloadAssumption, Zenon DEF Types, WireType, CoordinatorType, LeaseInv
  <1>p. /\ promised \in Seq(Int) /\ promised' \in Seq(Int) /\ Len(promised) <= Len(promised')
        /\ \A s \in 1..Len(promised) : s \in 1..Len(promised') /\ promised'[s] = promised[s]
    BY PromisesKept
  <1>n. ASSUME net' \subseteq net, now <= now', now' \in Int
        PROVE  /\ \A m \in net' : m.type = "probe" => m.sent <= now'
               /\ \A m \in net' : m.type = "lease" => Covered(m.sequence, m.sent + m.lease)'
    <2>1. ASSUME NEW m \in net', m.type = "probe" PROVE m.sent <= now'
      <3>1. m.sent <= now /\ m.sent \in Int BY <1>0, <1>n, <2>1, Zenon DEF MailInv, NetType
      <3> QED BY <1>0, <1>n, <3>1
    <2>2. ASSUME NEW m \in net', m.type = "lease" PROVE Covered(m.sequence, m.sent + m.lease)'
      <3>1. m.sequence \in 1..Len(promised) /\ m.sent + m.lease <= promised[m.sequence]
        BY <1>0, <1>n, <2>2, Zenon DEF MailInv, Covered
      <3> QED BY <1>p, <3>1, Zenon DEF Covered
    <2> QED BY <2>1, <2>2, Zenon
  <1>1. CASE Lease
    <2>0. UNCHANGED now BY <1>1, Zenon DEF Lease
    <2>1. CASE UNCHANGED promised /\ net' \subseteq net
      <3>1. issuer' = issuer \/ Retire
        <4>1. issuer # None /\ \A l : Append(promised, l) # promised
          BY <1>1, <1>p DEF Lease
        <4> QED BY <1>1, <2>1, <4>1 DEF Lease
      <3>2. issuer # None BY <1>1, Zenon DEF Lease
      <3>3. issuer'.next = issuer.next BY <1>0, <3>1, <3>2, RetireType, Zenon
      <3> QED BY <1>0, <1>n, <2>0, <2>1, <3>2, <3>3 DEF MailInv
    <2>2. CASE ~(UNCHANGED promised /\ net' \subseteq net)
      <3>1. PICK q \in net :
              /\ q.type = "probe" /\ issuer # None /\ q.sequence = issuer.next
              /\ issuer' = [issuer EXCEPT !.next = @ + 1]
              /\ promised' = Append(promised, now + Min2(Remaining, MaxLease))
              /\ net' = (net \ {q}) \cup
                           {[type |-> "lease", sequence |-> q.sequence, sent |-> q.sent,
                             lease |-> Min2(Remaining, MaxLease), session |-> Remaining]}
        BY <1>1, <2>2 DEF Lease, reply
      <3> DEFINE l == Min2(Remaining, MaxLease)
                 a == [type |-> "lease", sequence |-> q.sequence, sent |-> q.sent, lease |-> l,
                       session |-> Remaining]
      <3>2. l \in Int
        <4>1. issuer.end \in Int BY <1>0, <3>1, Zenon DEF Issuers
        <4> QED BY <1>0, <4>1 DEF Remaining, Min2
      <3>3. a.type = "lease" /\ a.sequence = q.sequence /\ a.sent = q.sent /\ a.lease = l
        OBVIOUS
      <3>4. net' \subseteq net \cup {a} /\ promised' = Append(promised, now + l)
        BY <3>1
      <3> HIDE DEF l, a
      <3>5. q.sequence = Len(promised) + 1 /\ q.sent <= now /\ q.sent \in Int
        BY <1>0, <3>1, Zenon DEF MailInv, NetType
      <3>6. Len(promised') = Len(promised) + 1 /\ promised'[Len(promised) + 1] = now + l
        BY <1>0, <1>p, <3>2, <3>4
      <3>7. a.sequence \in 1..Len(promised') /\ a.sent + a.lease <= promised'[a.sequence]
        BY <1>0, <1>p, <3>2, <3>3, <3>5, <3>6
      <3>8. \A m \in net' : m.type = "lease" => Covered(m.sequence, m.sent + m.lease)'
        BY <1>0, <1>p, <3>4, <3>7, Zenon DEF MailInv, Covered, NetType
      <3>9. \A m \in net' : m.type = "probe" => m.sent <= now'
        BY <1>0, <2>0, <3>3, <3>4 DEF MailInv
      <3>10. issuer'.next = Len(promised') + 1
        BY <1>0, <1>p, <3>1, <3>6, Zenon DEF MailInv, Issuers
      <3> QED BY <3>8, <3>9, <3>10 DEF MailInv
    <2> QED BY <2>1, <2>2
  <1>2. CASE Issue
    <2>1. promised = <<>> /\ UNCHANGED <<promised, now>> /\ issuer'.next = 1
      BY <1>2 DEF Issue, ShapeInv
    <2>2. net' = net \cup {[type |-> "offer"]}
      BY <1>2, Zenon DEF Issue
    <2>3. /\ \A m \in net' : m.type = "probe" => m.sent <= now'
          /\ \A m \in net' : m.type = "lease" => Covered(m.sequence, m.sent + m.lease)'
      BY <1>0, <2>1, <2>2 DEF MailInv, Covered
    <2>4. Len(promised') = 0 BY <2>1
    <2> QED BY <2>1, <2>3, <2>4 DEF MailInv
  <1>3. CASE Acknowledge \/ Acknowledged \/ Complete \/ DropIssuer
    <2>1. net' \subseteq net /\ UNCHANGED <<now, promised>>
      BY <1>3, Zenon DEF Acknowledge, Acknowledged, Complete, DropIssuer, wire
    <2>2. issuer # None /\ (\/ Retire \/ UNCHANGED issuer \/ issuer' = Retired(issuer)
                            \/ issuer' = [issuer EXCEPT !.consumed = TRUE, !.acknowledged = TRUE])
      BY <1>3, Zenon DEF Acknowledge, Acknowledged, Complete, DropIssuer, ShapeInv
    <2>3. issuer'.next = issuer.next
      BY <1>0, <2>2, RetireType, Zenon DEF Retired, Issuers
    <2> QED BY <1>0, <1>n, <2>1, <2>2, <2>3 DEF MailInv
  <1>4. CASE AckWorker \/ FinalWorker
    <2>1. UNCHANGED <<net, now, promised, issuer>>
      BY <1>4, Zenon DEF AckWorker, FinalWorker, wire
    <2> QED BY <1>0, <1>n, <2>1 DEF MailInv
  <1>5. CASE CoordinatorCrash
    BY <1>0, <1>n, <1>5, Zenon DEF CoordinatorCrash, MailInv
  <1>6. ASSUME NodeStep \/ Environment, UNCHANGED promised, net' \subseteq net, now <= now', now' \in Int
        PROVE  MailInv'
    <2>1. UNCHANGED issuer BY <1>6, NodeFrame DEF coordinator
    <2> QED BY <1>0, <1>n, <1>6, <2>1 DEF MailInv
  <1>7. CASE Request
    <2>1. UNCHANGED <<issuer, now, promised>>
      BY <1>7, Zenon DEF Request, coordinator
    <2> DEFINE a == [type |-> "probe", sequence |-> Sequence + 1, sent |-> now]
    <2>2. net' = net \cup {a} /\ a.type = "probe" /\ a.sent = now
      BY <1>7, Zenon DEF Request
    <2> HIDE DEF a
    <2> QED BY <1>0, <2>1, <2>2 DEF MailInv, Covered
  <1>8. CASE SendAck
    <2>1. UNCHANGED <<issuer, now, promised>>
      BY <1>8 DEF SendAck, coordinator
    <2>2. net' = net \cup {[type |-> "ack"]}
      BY <1>8 DEF SendAck
    <2> QED BY <1>0, <2>1, <2>2 DEF MailInv, Covered
  <1>9. CASE SaveCompletion
    <2>1. UNCHANGED <<issuer, now, promised>>
      BY <1>9 DEF SaveCompletion, coordinator
    <2> DEFINE a == [type |-> "done", report |-> Report]
    <2>2. net' \subseteq net \cup {a} /\ a.type = "done"
      BY <1>9 DEF SaveCompletion, Reported
    <2> HIDE DEF a
    <2> QED BY <1>0, <2>1, <2>2 DEF MailInv, Covered
  <1>10. CASE Abandon \/ Confirm \/ Prepare \/ Consume \/ Drop \/ Drive \/ Advance \/ Supervise \/ Quiet \/ Observe
    <2>1. UNCHANGED <<now, promised>> /\ net' \subseteq net
      BY <1>10, Zenon DEF Abandon, Confirm, Prepare, Consume, Drop, Drive, Advance, Supervise, Quiet, Observe, wire
    <2>2. NodeStep BY <1>10, Zenon DEF NodeStep
    <2> QED BY <1>0, <1>6, <2>1, <2>2
  <1>11. CASE Appended \/ Finish \/ Exit \/ AppendCheck \/ AppendCommit \/ MarkUnknown \/ NodeCrash
    <2>1. UNCHANGED <<now, promised>> /\ net' \subseteq net
      BY <1>11, Zenon DEF Appended, Finish, Exit, AppendCheck, AppendCommit, MarkUnknown, NodeCrash, wire
    <2>2. NodeStep BY <1>11, Zenon DEF NodeStep, NodeWorker
    <2> QED BY <1>0, <1>6, <2>1, <2>2
  <1>12. CASE Environment
    <2>1. UNCHANGED <<promised, net>> /\ now' \in {now, now + 1}
      BY <1>12 DEF Environment, Stop, Disable, Enable, Tick, wire
    <2> QED BY <1>0, <1>6, <1>12, <2>1
  <1> QED
    BY <1>1, <1>2, <1>3, <1>4, <1>5, <1>7, <1>8, <1>9, <1>10, <1>11, <1>12, Zenon
    DEF Next, CoordinatorStep, NodeStep, NodeWorker

LEMMA SaveKept ==
    ASSUME Types, ShapeInv, QueueInv, LeaseInv, Next
    PROVE  SaveInv'
  <1>0. /\ NodeType /\ SaveInv /\ WindowInv /\ None \notin Saves /\ now \in Int
        /\ append \in Saves \cup {None} /\ row \in Rows /\ reporting \in Lifetimes
    BY NoneAssumption DEF Types, NodeType, WireType, LeaseInv
  <1>p. /\ promised \in Seq(Int) /\ promised' \in Seq(Int) /\ Len(promised) <= Len(promised')
        /\ \A s \in 1..Len(promised) : s \in 1..Len(promised') /\ promised'[s] = promised[s]
    BY PromisesKept
  <1>e. ASSUME row'.events = row.events
        PROVE  \A i \in 1..Len(row'.events) :
                  /\ row'.events[i].sequence \in 1..Len(promised')
                  /\ row'.events[i].at < promised'[row'.events[i].sequence]
    BY <1>0, <1>p, <1>e, Zenon DEF SaveInv
  <1>a. ASSUME append' = None \/
               (/\ append' # None /\ append # None /\ append'.sequence = append.sequence
                /\ append'.deadline = append.deadline)
        PROVE  append' # None => Covered(append.sequence, append.deadline)'
    BY <1>0, <1>p, <1>a, Zenon DEF SaveInv, Covered, Saves
  <1>1. ASSUME row'.events = row.events,
               append' = None \/
               (/\ append' # None /\ append # None /\ append'.sequence = append.sequence
                /\ append'.deadline = append.deadline /\ append'.at = append.at /\ append'.stage = append.stage)
        PROVE  SaveInv'
    <2>1. append' # None => Covered(append.sequence, append.deadline)' BY <1>1, <1>a, Zenon
    <2>2. append' # None /\ append'.stage = "checked" => append'.at < append'.deadline
      BY <1>0, <1>1 DEF SaveInv
    <2> QED BY <1>1, <1>e, <2>1, <2>2, Zenon DEF SaveInv
  <1>2. CASE Observe
    <2>1. holder = "driving" /\ UNCHANGED row
      BY <1>2, Zenon DEF Observe, Polls
    <2>2. append' = [event |-> filter.events + 1, sequence |-> reporting.sequence,
                     deadline |-> reporting.deadline, at |-> now, stage |-> "queued", waiter |-> TRUE]
      BY <1>2 DEF Observe
    <2>3. /\ append'.sequence = reporting.sequence /\ append'.deadline = reporting.deadline
          /\ append'.stage = "queued"
      BY <2>2, Zenon
    <2>4. Covered(reporting.sequence, reporting.deadline) /\ reporting.deadline \in Int
      BY <1>0, <2>1 DEF ShapeInv, WindowInv, Lifetimes
    <2>5. Covered(append.sequence, append.deadline)'
      BY <1>p, <2>3, <2>4 DEF Covered
    <2> QED BY <1>e, <2>1, <2>3, <2>5, Zenon DEF SaveInv
  <1>3. CASE AppendCheck
    <2>1. append \in Saves /\ append # None /\ UNCHANGED row
      BY <1>3, EventType DEF AppendCheck
    <2>2. /\ append' \in Saves /\ append'.sequence = append.sequence /\ append'.deadline = append.deadline
          /\ append'.at = now
      BY <1>0, <1>3, <2>1, Zenon DEF AppendCheck, Saves
    <2>3. append'.stage = "checked" => check(append)
      BY <1>3, <2>1, Zenon DEF AppendCheck, Saves
    <2>4. check(append) => now < append.deadline
      BY <1>0, <2>1 DEF check, Min2, Saves, Lifetimes
    <2>5. append' # None => Covered(append.sequence, append.deadline)'
      BY <1>a, <1>0, <2>1, <2>2
    <2> QED BY <1>e, <2>1, <2>2, <2>3, <2>4, <2>5, Zenon DEF SaveInv
  <1>4. CASE AppendCommit
    <2>1. append \in Saves /\ append # None /\ append.stage = "checked"
      BY <1>4, EventType DEF AppendCommit
    <2>2. /\ append' \in Saves /\ append'.sequence = append.sequence /\ append'.deadline = append.deadline
          /\ append'.stage # "checked"
      BY <1>4, <2>1, Zenon DEF AppendCommit, Saves
    <2>3. append' # None => Covered(append.sequence, append.deadline)'
      BY <1>a, <1>0, <2>1, <2>2, Zenon
    <2>4. CASE row' = row
      BY <1>e, <2>2, <2>3, <2>4, Zenon DEF SaveInv
    <2>5. CASE row' # row
      <3> DEFINE e == [sequence |-> append.sequence, at |-> append.at]
      <3>1. row' = [row EXCEPT !.events = Append(row.events, e)]
        BY <1>4, <2>5 DEF AppendCommit
      <3>2. e.sequence = append.sequence /\ e.at = append.at /\ e \in [sequence : Nat, at : Int]
        BY <2>1 DEF Saves
      <3>3. row'.events = Append(row.events, e) /\ row.events \in Seq([sequence : Nat, at : Int])
        BY <1>0, <3>1, Zenon DEF Rows
      <3> HIDE DEF e
      <3>4. append.at < append.deadline /\ Covered(append.sequence, append.deadline)
        BY <1>0, <2>1 DEF SaveInv
      <3>5. e.sequence \in 1..Len(promised') /\ e.at < promised'[e.sequence]
        BY <1>p, <2>1, <3>2, <3>4, SMTT(30) DEF Covered, Saves
      <3>6. ASSUME NEW i \in 1..Len(row'.events)
            PROVE  (i \in 1..Len(row.events) /\ row'.events[i] = row.events[i]) \/ row'.events[i] = e
        BY <3>2, <3>3
      <3>7. \A i \in 1..Len(row'.events) :
              /\ row'.events[i].sequence \in 1..Len(promised')
              /\ row'.events[i].at < promised'[row'.events[i].sequence]
        BY <1>0, <1>p, <3>5, <3>6, Zenon DEF SaveInv
      <3> QED BY <2>2, <2>3, <3>7, Zenon DEF SaveInv
    <2> QED BY <2>4, <2>5
  <1>5. CASE Drop \/ Supervise \/ Appended
    <2>1. UNCHANGED row /\ (append' = None \/ Discard)
      BY <1>5 DEF Drop, Supervise, Appended
    <2> QED BY <1>0, <1>1, <2>1, DiscardType, Zenon
  <1>6. CASE NodeCrash
    BY <1>1, <1>6 DEF NodeCrash
  <1>7. CASE Consume \/ MarkUnknown \/ SaveCompletion \/ Stop
    <2>1. UNCHANGED append
      BY <1>7, Zenon DEF Consume, MarkUnknown, SaveCompletion, Stop, runner
    <2>2. row'.events = row.events
      BY <1>0, <1>7, Zenon DEF Consume, MarkUnknown, SaveCompletion, Stop, Rows
    <2> QED BY <1>1, <2>1, <2>2
  <1>8. CASE CoordinatorStep
    BY <1>1, <1>8, CoordinatorFrame DEF journal, runner
  <1>9. CASE Request \/ Abandon \/ Confirm \/ Prepare \/ SendAck \/ Drive \/ Advance \/ Quiet \/ Finish \/ Exit
    <2>1. UNCHANGED <<row, append>>
      BY <1>9, Zenon DEF Request, Abandon, Confirm, Prepare, SendAck, Drive, Advance, Quiet, Finish, Exit, journal, runner
    <2> QED BY <1>1, <2>1, Zenon
  <1>10. CASE Disable \/ Enable \/ Tick
    <2>1. UNCHANGED <<row, append>>
      BY <1>10 DEF Disable, Enable, Tick, journal, runner
    <2> QED BY <1>1, <2>1, Zenon
  <1> QED
    BY <1>2, <1>3, <1>4, <1>5, <1>6, <1>7, <1>8, <1>9, <1>10, Zenon DEF Next, NodeStep, NodeWorker, Environment

-----------------------------------------------------------------------------
(* Nothing is forgotten.                                                   *)

\* A saved ACK stays on record.
LEMMA AckSaved ==
    ASSUME Types, Next
    PROVE  job.ack => job'.ack
  <1>0. job \in Jobs
    BY DEF Types, CoordinatorType
  <1>1. CASE NodeStep \/ Environment
    BY <1>1, NodeFrame DEF coordinator
  <1>2. CASE Issue \/ AckWorker \/ FinalWorker \/ CoordinatorCrash
    BY <1>0, <1>2, Zenon DEF Issue, AckWorker, FinalWorker, CoordinatorCrash, mark_unknown, Jobs
  <1>3. CASE Lease \/ Acknowledge \/ Acknowledged \/ Complete \/ DropIssuer
    BY <1>3, Zenon DEF Lease, Acknowledge, Acknowledged, Complete, DropIssuer
  <1> QED BY <1>1, <1>2, <1>3, Zenon DEF Next, CoordinatorStep

LEMMA AckKept ==
    ASSUME Types, ShapeInv, MailInv, AckInv, Next
    PROVE  AckInv'
  <1>0. /\ job \in Jobs /\ issuer \in Issuers \cup {None} /\ None \notin Issuers /\ CoordinatorType
        /\ job.ack => job'.ack
    BY NoneAssumption, AckSaved DEF Types, CoordinatorType
  <1>p. promised \in Seq(Int) /\ promised' \in Seq(Int)
    BY PromisesKept, Zenon
  <1>1. ack' = "saved" => job'.ack
    <2>1. CASE AckWorker
      BY <1>0, <2>1 DEF AckWorker, Jobs
    <2>2. CASE ~AckWorker
      <3>1. CASE NodeStep \/ Environment
        BY <1>0, <3>1, NodeFrame DEF coordinator, AckInv
      <3>2. CASE CoordinatorStep
        <4>1. ack' = ack \/ ack' \in {"waiting", "none", "abandoned"}
          BY <2>2, <3>2, Zenon DEF CoordinatorStep, Issue, Lease, Acknowledge, Acknowledged, Complete, DropIssuer,
             FinalWorker, CoordinatorCrash
        <4> QED BY <1>0, <4>1, Zenon DEF AckInv
      <3> QED BY <3>1, <3>2 DEF Next
    <2> QED BY <2>1, <2>2
  <1>2. issuer' # None /\ issuer'.consumed => job'.ack
    <2>1. CASE NodeStep \/ Environment
      BY <1>0, <2>1, NodeFrame, Zenon DEF coordinator, AckInv
    <2>2. CASE Issue \/ AckWorker \/ FinalWorker \/ CoordinatorCrash
      BY <1>0, <2>2 DEF Issue, AckWorker, FinalWorker, CoordinatorCrash, AckInv
    <2>3. CASE Lease \/ Acknowledge \/ DropIssuer \/ Complete
      <3>1. issuer # None /\ (\/ Retire \/ UNCHANGED issuer \/ issuer' = Retired(issuer)
                              \/ issuer' = [issuer EXCEPT !.next = @ + 1])
        BY <2>3, Zenon DEF Lease, Acknowledge, DropIssuer, Complete
      <3>2. issuer'.consumed = issuer.consumed
        BY <1>0, <3>1, RetireType, Zenon DEF Retired, Issuers
      <3> QED BY <1>0, <3>1, <3>2 DEF AckInv
    <2>4. CASE Acknowledged
      <3>1. issuer # None /\ (ack = "saved" \/ Retire)
        BY <2>4 DEF Acknowledged, ShapeInv
      <3> QED BY <1>0, <3>1, RetireType, Zenon DEF AckInv
    <2> QED BY <2>1, <2>2, <2>3, <2>4, Zenon DEF Next, CoordinatorStep
  <1>3. Len(promised') > 1 => job'.ack
    <2>1. CASE promised' = promised
      BY <1>0, <2>1 DEF AckInv
    <2>2. CASE promised' # promised
      <3>1. Lease
        <4>1. CASE NodeStep \/ Environment
          <5>1. UNCHANGED promised
            BY <4>1, Zenon DEF NodeStep, Environment, Request, Abandon, Confirm, Prepare, Consume, SendAck, Drop, Drive,
               Advance, Supervise, Quiet, Observe, Appended, Finish, Exit, NodeWorker, AppendCheck, AppendCommit,
               MarkUnknown, SaveCompletion, NodeCrash, Stop, Disable, Enable, Tick
          <5> QED BY <2>2, <5>1
        <4>2. CASE CoordinatorStep
          BY <2>2, <4>2, Zenon DEF CoordinatorStep, Issue, Acknowledge, AckWorker, Acknowledged, Complete, DropIssuer,
             FinalWorker, CoordinatorCrash
        <4> QED BY <4>1, <4>2 DEF Next
      <3>2. PICK q \in net : issuer # None /\ q.sequence = issuer.next /\ (q.sequence = 1 \/ issuer.consumed)
                             /\ promised' = Append(promised, now + Min2(Remaining, MaxLease))
        BY <2>2, <3>1 DEF Lease, reply
      <3>3. issuer.next = Len(promised) + 1 /\ Len(promised') = Len(promised) + 1 /\ Len(promised) \in Nat
        BY <1>p, <3>2 DEF MailInv
      <3>4. Len(promised') > 1 => issuer.consumed
        BY <3>2, <3>3
      <3> QED BY <1>0, <3>2, <3>4 DEF AckInv
    <2> QED BY <2>1, <2>2
  <1> QED BY <1>1, <1>2, <1>3, Zenon DEF AckInv

LEMMA IssuerKept ==
    ASSUME Types, ShapeInv, IssuerInv, Next
    PROVE  IssuerInv'
  <1>0. /\ job \in Jobs /\ issuer \in Issuers \cup {None} /\ None \notin Issuers /\ CoordinatorType
        /\ Uncertain # None /\ None \notin Completions
        /\ final \in Completions \cup {None, Uncertain} /\ cfailed \in BOOLEAN
    BY NoneAssumption DEF Types, CoordinatorType
  <1>1. CASE NodeStep \/ Environment
    BY <1>1, NodeFrame, Zenon DEF coordinator, IssuerInv
  <1>2. CASE Issue
    <2>1. issuer' # None /\ ~issuer'.retired /\ issuer'.slot /\ final' = None
      <3>1. issuer' \in Issuers
        <4>1. now \in Int /\ MaxSession \in Nat BY WorkloadAssumption DEF Types, WireType
        <4> QED BY <1>2, <4>1 DEF Issue, Issuers
      <3> QED BY <1>0, <1>2, <3>1, Zenon DEF Issue
    <2> QED BY <2>1 DEF IssuerInv
  <1>3. ASSUME issuer # None, Retire, UNCHANGED job PROVE IssuerInv'
    <2>1. CASE issuer.retired
      <3>1. UNCHANGED <<issuer, final, cfailed>>
        BY <1>0, <1>3, <2>1, RetireType, Zenon
      <3> QED BY <1>3, <3>1 DEF IssuerInv
    <2>2. CASE ~issuer.retired
      <3>1. issuer.slot BY <1>3, <2>2, Zenon DEF IssuerInv
      <3>2. final' = Uncertain /\ issuer'.retired
        BY <1>0, <1>3, <2>2, <3>1, RetireType
      <3> QED BY <1>0, <3>2 DEF IssuerInv
    <2> QED BY <2>1, <2>2
  <1>4. ASSUME issuer \in Issuers, UNCHANGED <<job, final, cfailed>>,
               issuer' \in {issuer, [issuer EXCEPT !.next = @ + 1],
                            [issuer EXCEPT !.consumed = TRUE, !.acknowledged = TRUE]}
        PROVE  IssuerInv'
    <2>1. issuer'.retired = issuer.retired /\ issuer'.slot = issuer.slot
      BY <1>4, Zenon DEF Issuers
    <2>2. issuer' \in Issuers
      <3>1. [issuer EXCEPT !.next = @ + 1] \in Issuers BY <1>4 DEF Issuers
      <3>2. [issuer EXCEPT !.consumed = TRUE, !.acknowledged = TRUE] \in Issuers BY <1>4, Zenon DEF Issuers
      <3> QED BY <1>4, <3>1, <3>2
    <2> QED BY <1>0, <1>4, <2>1, <2>2 DEF IssuerInv
  <1>5. CASE Lease
    <2>1. issuer # None /\ UNCHANGED job
      BY <1>5 DEF Lease
    <2>2. Retire \/ (UNCHANGED <<final, cfailed>> /\ issuer' \in {issuer, [issuer EXCEPT !.next = @ + 1]})
      BY <1>5, Zenon DEF Lease
    <2> QED BY <1>0, <1>3, <1>4, <2>1, <2>2
  <1>6. CASE Acknowledge
    <2>1. issuer # None /\ UNCHANGED job /\ (Retire \/ UNCHANGED <<issuer, final, cfailed>>)
      BY <1>6, Zenon DEF Acknowledge
    <2> QED BY <1>3, <2>1 DEF IssuerInv
  <1>7. CASE AckWorker
    <2>1. UNCHANGED <<issuer, final, cfailed>> /\ (job'.state \in Active => job.state \in Active)
      BY <1>0, <1>7 DEF AckWorker, AckAllowed, Active, Jobs
    <2> QED BY <2>1 DEF IssuerInv
  <1>8. CASE Acknowledged
    <2>1. issuer # None /\ UNCHANGED job
      BY <1>8 DEF Acknowledged, ShapeInv
    <2>2. Retire \/ (/\ UNCHANGED <<final, cfailed>>
                     /\ issuer' = [issuer EXCEPT !.consumed = TRUE, !.acknowledged = TRUE])
      BY <1>8, Zenon DEF Acknowledged
    <2> QED BY <1>0, <1>3, <1>4, <2>1, <2>2
  <1>9. CASE Complete
    <2>1. issuer # None /\ UNCHANGED job
      BY <1>9 DEF Complete
    <2>2. PICK m \in net :
            /\ m.type = "done"
            /\ \/ UNCHANGED <<issuer, final, cfailed>> \/ Retire
               \/ /\ issuer' = Retired(issuer)
                  /\ final' = [kind |-> "complete", report |-> m.report, last |-> issuer.next - 1]
      BY <1>9 DEF Complete
    <2>3. CASE UNCHANGED <<issuer, final, cfailed>>
      BY <2>1, <2>3, Zenon DEF IssuerInv
    <2>4. CASE issuer' = Retired(issuer) /\ final' = [kind |-> "complete", report |-> m.report, last |-> issuer.next - 1]
      <3>1. issuer'.retired BY <1>0, <2>1, <2>4, Zenon DEF Retired, Issuers
      <3>2. final' \in Completions
        <4>1. m.report \in Evidence BY <2>2 DEF Types, WireType, NetType
        <4>2. issuer.next \in Nat \ {0} BY <1>0, <2>1 DEF Issuers
        <4> QED BY <2>4, <4>1, <4>2 DEF Completions
      <3> QED BY <1>0, <3>1, <3>2 DEF IssuerInv
    <2> QED BY <1>3, <2>1, <2>2, <2>3, <2>4
  <1>10. CASE DropIssuer
    BY <1>3, <1>10, Zenon DEF DropIssuer
  <1>11. CASE FinalWorker
    <2>1. UNCHANGED issuer /\ final' = None /\ final # None
      BY <1>11 DEF FinalWorker
    <2>2. job'.state \in Active => cfailed'
      BY <1>0, <1>11, Zenon DEF FinalWorker, mark_unknown, Active, Jobs
    <2>3. issuer # None => issuer.retired
      BY <2>1, Zenon DEF IssuerInv
    <2> QED BY <2>1, <2>2, <2>3 DEF IssuerInv
  <1>12. CASE CoordinatorCrash
    <2>1. issuer' = None /\ job'.state \notin Active
      BY <1>0, <1>12 DEF CoordinatorCrash, mark_unknown, Active, Jobs
    <2> QED BY <2>1 DEF IssuerInv
  <1> QED
    BY <1>1, <1>2, <1>5, <1>6, <1>7, <1>8, <1>9, <1>10, <1>11, <1>12, Zenon DEF Next, CoordinatorStep

LEMMA MicKept ==
    ASSUME Types, MicInv, Next
    PROVE  MicInv'
  <1>0. source \in Sources
    BY DEF Types, NodeType
  <1>1. CASE UNCHANGED source
    BY <1>1 DEF MicInv
  <1>2. CASE Discard
    BY <1>0, <1>2 DEF Discard, Released, MicInv, Sources
  <1>3. CASE Prepare \/ Drive \/ Finish \/ Exit \/ NodeCrash
    <2>1. CASE Prepare
      BY <2>1 DEF Prepare, MicInv
    <2>2. CASE Drive
      BY <1>0, <2>2 DEF Drive, MicInv, Sources
    <2>3. CASE Finish
      BY <1>0, <2>3 DEF Finish, MicInv, Sources
    <2>4. CASE Exit
      BY <1>0, <2>4, Zenon DEF Exit, MicInv, Sources
    <2>5. CASE NodeCrash
      BY <1>0, <2>5 DEF NodeCrash, MicInv, Sources
    <2> QED BY <1>3, <2>1, <2>2, <2>3, <2>4, <2>5, Zenon
  <1>4. CASE Disable \/ Enable
    BY <1>0, <1>4 DEF Disable, Enable, NewEpoch, MicInv, Sources
  <1>5. CASE Drop \/ Supervise \/ Appended
    BY <1>1, <1>2, <1>5, Zenon DEF Drop, Supervise, Appended
  <1>6. CASE CoordinatorStep
    BY <1>1, <1>6, CoordinatorFrame DEF runner
  <1>7. CASE Request \/ Abandon \/ Confirm \/ Consume \/ SendAck \/ Advance \/ Quiet \/ Observe
    <2>1. UNCHANGED source
      BY <1>7, Zenon DEF Request, Abandon, Confirm, Consume, SendAck, Advance, Quiet, Observe, runner
    <2> QED BY <1>1, <2>1, Zenon
  <1>8. CASE NodeWorker \/ Stop \/ Tick
    <2>1. UNCHANGED source
      BY <1>8, Zenon DEF NodeWorker, AppendCheck, AppendCommit, MarkUnknown, SaveCompletion, Stop, Tick, runner
    <2> QED BY <1>1, <2>1
  <1> QED BY <1>3, <1>4, <1>5, <1>6, <1>7, <1>8, Zenon DEF Next, NodeStep, Environment

LEMMA RowKept ==
    ASSUME Types, QueueInv, RowInv, Next
    PROVE  RowInv'
  <1> DEFINE Due(q) == q \in {<<"unknown">>, <<"complete">>, <<"event", "unknown">>}
  <1>0. row \in Rows /\ nfailed \in BOOLEAN /\ NodeType /\ crashes \in Nat
    BY DEF Types, NodeType, WireType
  <1>1. CASE UNCHANGED <<row, crashes, holder, queue, nfailed>>
    BY <1>1 DEF RowInv
  <1>2. CASE Consume
    BY <1>2 DEF Consume, RowInv, Held
  <1>3. CASE SendAck \/ Drive \/ Observe
    <2>1. holder' \in Held
      BY <1>3, Zenon DEF SendAck, Drive, Observe, Polls, Held
    <2> QED BY <2>1 DEF RowInv
  <1>4. ASSUME holder \in Held, Discard PROVE RowInv'
    <2>1. queue' \in {<<"unknown">>, <<"event", "unknown">>}
      BY <1>4, DiscardQueue, Zenon
    <2> QED BY <2>1 DEF RowInv
  <1>5. CASE Drop \/ Supervise
    BY <1>4, <1>5 DEF Drop, Supervise, Held
  <1>6. CASE Appended
    <2>1. CASE Polls /\ Discard
      BY <1>4, <2>1, Zenon DEF Polls, Held
    <2>2. CASE ~(Polls /\ Discard)
      BY <1>1, <1>6, <2>2 DEF Appended
    <2> QED BY <2>1, <2>2
  <1>7. CASE Finish
    <2>1. holder = "driving" /\ append = None
      BY <1>7 DEF Finish, Polls
    <2>2. queue = <<>>
      BY <2>1 DEF QueueInv, Pending, Held
    <2>3. queue' = <<"complete">>
      BY <1>7, <2>2, QueueFacts DEF Finish, Submitted
    <2> QED BY <2>3 DEF RowInv
  <1>8. CASE AppendCheck \/ AppendCommit
    <2>1. /\ row'.state = row.state /\ UNCHANGED <<crashes, holder, nfailed>>
          /\ queue # <<>> /\ Head(queue) = "event" /\ queue' \in {queue, Tail(queue)}
      BY <1>0, <1>8, Zenon DEF AppendCheck, AppendCommit, Rows
    <2>2. queue \in {<<"event">>, <<"event", "unknown">>}
      BY <2>1, QueueFacts DEF QueueInv, Queues
    <2>3. Due(queue) => Due(queue')
      BY <2>1, <2>2, QueueFacts, Zenon
    <2> QED BY <2>1, <2>3 DEF RowInv
  <1>9. CASE MarkUnknown
    <2>1. row'.state # "accepted" \/ nfailed'
      BY <1>0, <1>9, Zenon DEF MarkUnknown, Rows
    <2> QED BY <2>1 DEF RowInv
  <1>10. CASE SaveCompletion
    <2>1. row'.state # "accepted" \/ nfailed'
      BY <1>0, <1>10, Zenon DEF SaveCompletion, Rows
    <2> QED BY <2>1 DEF RowInv
  <1>11. CASE NodeCrash \/ CoordinatorCrash
    <2>1. crashes' # 0
      BY <1>0, <1>11 DEF NodeCrash, CoordinatorCrash
    <2> QED BY <2>1 DEF RowInv
  <1>12. CASE Stop
    <2>1. UNCHANGED <<crashes, holder, queue, nfailed>> /\ (row'.state = "accepted" => row.state = "accepted")
      BY <1>0, <1>12 DEF Stop, runner, Rows
    <2> QED BY <2>1 DEF RowInv
  <1>13. CASE CoordinatorStep /\ ~CoordinatorCrash
    <2>1. UNCHANGED <<row, holder, queue, nfailed>>
      BY <1>13, CoordinatorFrame, Zenon DEF journal, runner
    <2>2. UNCHANGED crashes
      BY <1>13, Zenon DEF CoordinatorStep, Issue, Lease, Acknowledge, AckWorker, Acknowledged, Complete, DropIssuer,
         FinalWorker
    <2> QED BY <1>1, <2>1, <2>2
  <1>14. CASE Request \/ Abandon \/ Confirm \/ Prepare \/ Advance \/ Quiet \/ Exit \/ Disable \/ Enable \/ Tick
    <2>1. UNCHANGED <<row, crashes, holder, queue, nfailed>>
      BY <1>14, Zenon DEF Request, Abandon, Confirm, Prepare, Advance, Quiet, Exit, Disable, Enable, Tick, journal, runner
    <2> QED BY <1>1, <2>1, Zenon
  <1> QED
    BY <1>2, <1>3, <1>5, <1>6, <1>7, <1>8, <1>9, <1>10, <1>11, <1>12, <1>13, <1>14, Zenon
    DEF Next, NodeStep, NodeWorker, Environment

-----------------------------------------------------------------------------
(* A completion is what happened.                                          *)

\* A completed row and its source are left alone.
LEMMA CompletedStays ==
    ASSUME Types, QueueInv, DoneInv, Next, row.state = "completed"
    PROVE  /\ row' = row /\ queue' = <<>> /\ holder' \in {"done", "gone"}
           /\ source'.process \in {"ended", "none"}
           /\ \A m \in net' : m.type = "done" => m \in net
  <1>0. /\ queue = <<>> /\ holder \in {"done", "gone"} /\ source.process \in {"ended", "none"}
        /\ source \in Sources
    BY DEF DoneInv, Types, NodeType
  <1>q. ~Pending BY <1>0, QueueFacts DEF QueueInv
  <1>1. CASE UNCHANGED <<row, queue, holder, source>> /\ \A m \in net' : m.type = "done" => m \in net
    BY <1>0, <1>1
  <1>2. CASE CoordinatorStep
    <2>1. UNCHANGED <<row, queue, holder, source>>
      BY <1>2, CoordinatorFrame DEF journal, runner
    <2>2. \A m \in net' : m.type = "done" => m \in net
      <3>1. CASE Issue
        BY <3>1 DEF Issue
      <3>2. CASE Lease
        BY <3>2 DEF Lease
      <3>3. CASE Acknowledge \/ AckWorker \/ Acknowledged \/ Complete \/ DropIssuer \/ FinalWorker \/ CoordinatorCrash
        BY <3>3, Zenon DEF Acknowledge, AckWorker, Acknowledged, Complete, DropIssuer, FinalWorker, CoordinatorCrash, wire
      <3> QED BY <1>2, <3>1, <3>2, <3>3, Zenon DEF CoordinatorStep
    <2> QED BY <1>1, <2>1, <2>2, Zenon
  <1>3. CASE Request \/ SendAck
    <2>1. UNCHANGED <<row, queue, holder, source>> \/ SendAck
      BY <1>3, Zenon DEF Request, journal, runner
    <2>2. ~SendAck BY <1>0, Zenon DEF SendAck
    <2>3. \A m \in net' : m.type = "done" => m \in net
      <3>1. Request BY <1>3, <2>2, ZenonT(30)
      <3>2. net' = net \cup {[type |-> "probe", sequence |-> Sequence + 1, sent |-> now]}
        BY <3>1, Zenon DEF Request
      <3> QED BY <3>2
    <2> QED BY <1>1, <2>1, <2>2, <2>3
  <1>4. CASE Abandon \/ Confirm \/ Stop \/ Tick
    <2>1. UNCHANGED <<row, queue, holder, source>> /\ net' \subseteq net
      BY <1>4, Zenon DEF Abandon, Confirm, Stop, Tick, journal, runner, wire
    <2> QED BY <1>1, <2>1
  <1>5. ~(Prepare \/ Consume \/ Drop \/ Drive \/ Advance \/ Supervise \/ Quiet \/ Observe \/ Finish)
    BY <1>0, Zenon DEF Prepare, Consume, Drop, Drive, Advance, Supervise, Quiet, Observe, Finish, Polls
  <1>6. ~(Exit \/ NodeWorker \/ Disable \/ Enable)
    BY <1>0, Zenon DEF Exit, NodeWorker, AppendCheck, AppendCommit, MarkUnknown, SaveCompletion, Disable, Enable, NewEpoch
  <1>7. CASE Appended
    <2>1. UNCHANGED <<row, queue, holder, source, net>>
      BY <1>0, <1>7 DEF Appended, Polls, wire
    <2> QED BY <1>1, <2>1, Zenon
  <1>8. CASE NodeCrash
    <2>1. row' = row /\ queue' = <<>> /\ holder' = "gone" /\ net' = {} /\ source' = [source EXCEPT !.process = "none", !.mic = "free"]
      BY <1>8 DEF NodeCrash
    <2> QED BY <1>0, <2>1 DEF Sources
  <1> QED BY <1>2, <1>3, <1>4, <1>5, <1>6, <1>7, <1>8, Zenon DEF Next, NodeStep, Environment

\* The only step that completes a row.
LEMMA CompletesByReport ==
    ASSUME Types, ShapeInv, QueueInv, DoneInv, Next, row.state # "completed"
    PROVE  \/ row'.state # "completed" /\ \A m \in net' : m.type = "done" => m \in net
           \/ /\ SaveCompletion /\ row' = [row EXCEPT !.state = "completed", !.report = Report]
              /\ queue' = <<>> /\ holder' = "done" /\ source'.process = "ended"
              /\ Report \in Evidence /\ Len(row.events) = Report.events
              /\ net' = net \cup {[type |-> "done", report |-> Report]}
  <1>0. row \in Rows /\ NodeType
    BY DEF Types, NodeType
  <1>1. CASE SaveCompletion
    <2>1. queue = <<"complete">>
      BY <1>1, QueueFacts DEF SaveCompletion, QueueInv, Queues
    <2>2. holder = "done" /\ source.process = "ended" /\ window \in Leases /\ queue' = <<>>
      BY <1>0, <1>1, <2>1, QueueFacts, Zenon DEF DoneInv, ShapeInv, NodeType, SaveCompletion
    <2>3. UNCHANGED <<holder, source>>
      BY <1>1, Zenon DEF SaveCompletion, runner
    <2>4. Report \in Evidence /\ Report.events = filter.events
      BY <1>0, <2>2 DEF Report, Evidence, Leases, NodeType
    <2>5. \/ row'.state # "completed" /\ net' = net
          \/ /\ row' = [row EXCEPT !.state = "completed", !.report = Report] /\ Confirms
             /\ net' = net \cup {[type |-> "done", report |-> Report]}
      <3>1. PICK saved \in BOOLEAN :
              LET refused == row.state # "accepted" \/ stopped
              IN /\ row' = CASE ~saved -> row
                             [] saved /\ refused -> [row EXCEPT !.state = IF @ = "accepted" THEN "unknown" ELSE @]
                             [] saved /\ ~refused /\ Confirms -> [row EXCEPT !.state = "completed", !.report = Report]
                             [] OTHER -> row
                 /\ net' = net \cup Reported(saved /\ ~refused /\ Confirms)
        BY <1>1, Zenon DEF SaveCompletion
      <3>2. CASE saved /\ ~(row.state # "accepted" \/ stopped) /\ Confirms
        BY <3>1, <3>2 DEF Reported
      <3>3. CASE ~(saved /\ ~(row.state # "accepted" \/ stopped) /\ Confirms)
        <4>1. net' = net BY <3>1, <3>3 DEF Reported
        <4>2. row' = row \/ row' = [row EXCEPT !.state = IF @ = "accepted" THEN "unknown" ELSE @]
          <5>1. CASE ~saved
            BY <3>1, <5>1
          <5>2. CASE saved /\ (row.state # "accepted" \/ stopped)
            BY <3>1, <5>2
          <5>3. CASE saved /\ ~(row.state # "accepted" \/ stopped) /\ ~Confirms
            BY <3>1, <5>3
          <5> QED BY <3>3, <5>1, <5>2, <5>3
        <4>3. row'.state # "completed" BY <1>0, <4>2 DEF Rows
        <4> QED BY <4>1, <4>3
      <3> QED BY <3>2, <3>3
    <2> QED BY <1>1, <2>2, <2>3, <2>4, <2>5 DEF Confirms
  <1>2. CASE CoordinatorStep
    <2>1. UNCHANGED row BY <1>2, CoordinatorFrame DEF journal
    <2>2. \A m \in net' : m.type = "done" => m \in net
      <3>1. CASE Issue
        BY <3>1 DEF Issue
      <3>2. CASE Lease
        BY <3>2 DEF Lease
      <3>3. CASE Acknowledge \/ AckWorker \/ Acknowledged \/ Complete \/ DropIssuer \/ FinalWorker \/ CoordinatorCrash
        BY <3>3, Zenon DEF Acknowledge, AckWorker, Acknowledged, Complete, DropIssuer, FinalWorker, CoordinatorCrash, wire
      <3> QED BY <1>2, <3>1, <3>2, <3>3, Zenon DEF CoordinatorStep
    <2> QED BY <2>1, <2>2
  <1>3. CASE Request \/ SendAck
    BY <1>3 DEF Request, SendAck, journal
  <1>4. CASE Abandon \/ Confirm \/ Prepare \/ Drop \/ Drive \/ Advance \/ Supervise \/ Quiet \/ Observe \/ Appended
    BY <1>4, Zenon DEF Abandon, Confirm, Prepare, Drop, Drive, Advance, Supervise, Quiet, Observe, Appended, journal, wire
  <1>5. CASE Finish \/ Exit \/ AppendCheck \/ NodeCrash \/ Disable \/ Enable \/ Tick
    BY <1>5, Zenon DEF Finish, Exit, AppendCheck, NodeCrash, Disable, Enable, Tick, journal, wire
  <1>6. CASE Consume \/ AppendCommit \/ MarkUnknown \/ Stop
    <2>1. net' \subseteq net
      BY <1>6, Zenon DEF Consume, AppendCommit, MarkUnknown, Stop, wire
    <2>2. row'.state # "completed"
      BY <1>0, <1>6, Zenon DEF Consume, AppendCommit, MarkUnknown, Stop, Rows
    <2> QED BY <2>1, <2>2
  <1> QED BY <1>1, <1>2, <1>3, <1>4, <1>5, <1>6, Zenon DEF Next, NodeStep, NodeWorker, Environment

\* Once a completion is on its way to the job, no lease is answered any more.
LEMMA PromisesEnd ==
    ASSUME Types, IssuerInv, Next, final \in Completions \/ job.state = "completed"
    PROVE  promised' = promised
  <1>1. CASE Lease
    <2>1. issuer # None /\ (promised' # promised => validate_live)
      BY <1>1 DEF Lease
    <2>2. None \notin Completions BY NoneAssumption
    <2> QED BY <2>1, <2>2 DEF IssuerInv, validate_live, local_live, Active
  <1>2. CASE NodeStep \/ Environment
    BY <1>2, Zenon DEF NodeStep, Environment, Request, Abandon, Confirm, Prepare, Consume, SendAck, Drop, Drive,
       Advance, Supervise, Quiet, Observe, Appended, Finish, Exit, NodeWorker, AppendCheck, AppendCommit,
       MarkUnknown, SaveCompletion, NodeCrash, Stop, Disable, Enable, Tick
  <1>3. CASE CoordinatorStep /\ ~Lease
    BY <1>3, Zenon DEF CoordinatorStep, Issue, Acknowledge, AckWorker, Acknowledged, Complete, DropIssuer,
       FinalWorker, CoordinatorCrash
  <1> QED BY <1>1, <1>2, <1>3, Zenon DEF Next

LEMMA DoneKept ==
    ASSUME Types, ShapeInv, QueueInv, MailInv, IssuerInv, DoneInv, Next
    PROVE  DoneInv'
  <1>0. /\ row \in Rows /\ source \in Sources /\ job \in Jobs /\ issuer \in Issuers \cup {None}
        /\ None \notin Completions /\ Uncertain \notin Completions /\ CoordinatorType
        /\ final \in Completions \cup {None, Uncertain} /\ promised \in Seq(Int)
    BY NoneAssumption DEF Types, NodeType, CoordinatorType, WireType, Uncertain, Completions
  <1>1. queue' = <<"complete">> => holder' = "done"
    <2>1. CASE UNCHANGED <<queue, holder>>
      BY <2>1 DEF DoneInv
    <2>2. CASE queue' = <<>> \/ Finish
      BY <2>2, QueueFacts DEF Finish
    <2>3. ASSUME holder \in Held, Discard PROVE queue' # <<"complete">>
      BY <2>3, DiscardQueue, QueueFacts, Zenon
    <2>4. CASE Drop \/ Supervise
      BY <2>3, <2>4, Zenon DEF Drop, Supervise, Held
    <2>5. CASE Appended
      <3>1. CASE Polls /\ Discard
        BY <2>3, <3>1 DEF Polls, Held
      <3> QED BY <2>1, <2>5, <3>1 DEF Appended
    <2>6. CASE Consume \/ SendAck \/ Drive \/ Observe
      <3>1. queue' \in {queue, <<"event">>} /\ queue \in {<<>>, <<"event">>}
        <4>1. CASE Consume
          BY <4>1 DEF Consume, QueueInv
        <4>2. CASE SendAck \/ Drive
          BY <4>2, Zenon DEF SendAck, Drive, QueueInv, Held, journal
        <4>3. CASE Observe
          <5>1. holder = "driving" /\ append = None BY <4>3 DEF Observe, Polls
          <5>2. queue = <<>> BY <5>1 DEF QueueInv, Pending, Held
          <5> QED BY <4>3, <5>2, QueueFacts, ZenonT(30) DEF Observe, Submitted
        <4> QED BY <2>6, <4>1, <4>2, <4>3
      <3> QED BY <3>1, QueueFacts
    <2>7. CASE AppendCheck \/ AppendCommit
      <3>1. queue # <<>> /\ Head(queue) = "event" /\ queue' \in {queue, Tail(queue)} /\ UNCHANGED holder
        BY <2>7, Zenon DEF AppendCheck, AppendCommit
      <3>2. queue \in {<<"event">>, <<"event", "unknown">>}
        BY <3>1, QueueFacts, Zenon DEF QueueInv, Queues
      <3> QED BY <3>1, <3>2, QueueFacts
    <2>8. CASE MarkUnknown \/ SaveCompletion
      <3>1. queue # <<>> /\ Head(queue) \in {"unknown", "complete"} /\ queue' = Tail(queue)
        BY <2>8, Zenon DEF MarkUnknown, SaveCompletion
      <3> QED BY <2>2, <3>1, QueueFacts DEF QueueInv, Queues
    <2>9. CASE NodeCrash
      BY <2>2, <2>9, Zenon DEF NodeCrash
    <2>10. CASE CoordinatorStep
      BY <2>1, <2>10, CoordinatorFrame DEF journal, runner
    <2>11. CASE Request \/ Abandon \/ Confirm \/ Prepare \/ Advance \/ Quiet \/ Exit \/ Environment
      <3>1. UNCHANGED <<queue, holder>>
        BY <2>11, Zenon DEF Request, Abandon, Confirm, Prepare, Advance, Quiet, Exit, Environment, Stop, Disable, Enable,
           Tick, journal, runner
      <3> QED BY <2>1, <3>1, Zenon
    <2> QED
      BY <2>2, <2>4, <2>5, <2>6, <2>7, <2>8, <2>9, <2>10, <2>11, Zenon DEF Next, NodeStep, NodeWorker
  <1>2. holder' = "done" => source'.process = "ended"
    <2>1. CASE Finish
      BY <1>0, <2>1, Zenon DEF Finish, Sources
    <2>2. CASE Drop \/ Supervise \/ NodeCrash \/ Consume \/ SendAck \/ Drive \/ Appended
      BY <2>2, Zenon DEF Drop, Supervise, NodeCrash, Consume, SendAck, Drive, Appended, Discard, DoneInv
    <2>3. CASE CoordinatorStep
      BY <2>3, CoordinatorFrame DEF runner, DoneInv
    <2>4. CASE Prepare \/ Exit \/ Disable \/ Enable
      BY <2>4, Zenon DEF Prepare, Exit, Disable, Enable, NewEpoch, DoneInv
    <2>5. CASE Request \/ Abandon \/ Confirm \/ Advance \/ Quiet \/ Observe \/ NodeWorker \/ Stop \/ Tick
      <3>1. UNCHANGED <<holder, source>>
        BY <2>5, Zenon DEF Request, Abandon, Confirm, Advance, Quiet, Observe, NodeWorker, AppendCheck, AppendCommit,
           MarkUnknown, SaveCompletion, Stop, Tick, runner
      <3> QED BY <3>1 DEF DoneInv
    <2> QED BY <2>1, <2>2, <2>3, <2>4, <2>5, Zenon DEF Next, NodeStep, Environment
  <1>3. /\ row'.state = "completed" =>
             /\ queue' = <<>> /\ holder' \in {"done", "gone"} /\ source'.process \in {"ended", "none"}
             /\ row'.report \in Evidence /\ Len(row'.events) = row'.report.events
        /\ \A m \in net' : m.type = "done" => row'.state = "completed" /\ m.report = row'.report
    <2>1. CASE row.state = "completed"
      <3>1. row.report \in Evidence /\ Len(row.events) = row.report.events
        BY <2>1 DEF DoneInv
      <3> QED BY <2>1, <3>1, CompletedStays, Zenon DEF DoneInv
    <2>2. CASE row.state # "completed"
      <3>1. \A m \in net : m.type # "done" BY <2>2, Zenon DEF DoneInv
      <3>2. CASE row'.state # "completed" /\ \A m \in net' : m.type = "done" => m \in net
        BY <3>1, <3>2, ZenonT(30)
      <3>3. CASE row' = [row EXCEPT !.state = "completed", !.report = Report]
        <4>1. row'.report = Report /\ row'.events = row.events /\ row'.state = "completed"
          BY <1>0, <3>3 DEF Rows
        <4>2. /\ queue' = <<>> /\ holder' = "done" /\ source'.process = "ended"
              /\ Report \in Evidence /\ Len(row.events) = Report.events
              /\ net' = net \cup {[type |-> "done", report |-> Report]}
          BY <2>2, <4>1, CompletesByReport
        <4> QED BY <3>1, <4>1, <4>2
      <3> QED BY <2>2, <3>2, <3>3, CompletesByReport
    <2> QED BY <2>1, <2>2, Zenon
  <1>4. final' \in Completions => Settled(final)'
    <2>1. CASE final' = final /\ final \in Completions
      <3>1. Settled(final) BY <2>1 DEF DoneInv
      <3>2. promised' = promised BY <2>1, PromisesEnd
      <3> QED BY <2>1, <3>1, <3>2, CompletedStays, Zenon DEF Settled
    <2>2. CASE final' # final /\ final' \in Completions
      <3>1. CASE Complete
        <4>1. PICK m \in net :
                /\ m.type = "done" /\ issuer # None /\ close_after_report(m.report)
                /\ final' = [kind |-> "complete", report |-> m.report, last |-> issuer.next - 1]
          BY <1>0, <2>2, <3>1, Zenon DEF Complete, Retire
        <4>2. row.state = "completed" /\ m.report = row.report /\ UNCHANGED <<row, promised>>
          BY <3>1, <4>1, Zenon DEF DoneInv, Complete, journal
        <4>3. issuer.next = Len(promised) + 1 /\ Len(promised) \in Nat
          BY <1>0, <4>1 DEF MailInv
        <4>4. m.report.sequence < issuer.next /\ m.report.sequence \in Nat
          BY <4>1, Zenon DEF close_after_report, Types, WireType, NetType, Evidence
        <4>5. final'.report = m.report /\ final'.last = issuer.next - 1
          BY <4>1
        <4> QED BY <2>2, <4>2, <4>3, <4>4, <4>5 DEF Settled
      <3>2. CASE CoordinatorStep /\ ~Complete
        <4>1. final' \in {final, Uncertain, None}
          BY <3>2, Zenon DEF CoordinatorStep, Issue, Lease, Acknowledge, AckWorker, Acknowledged, DropIssuer, FinalWorker,
             CoordinatorCrash, Retire
        <4> QED BY <1>0, <2>2, <4>1, Zenon
      <3>3. CASE NodeStep \/ Environment
        BY <2>2, <3>3, NodeFrame DEF coordinator
      <3> QED BY <3>1, <3>2, <3>3, Zenon DEF Next
    <2> QED BY <2>1, <2>2
  <1>5. job'.state = "completed" => Settled(job.completion)'
    <2>1. CASE job' = job /\ job.state = "completed"
      <3>1. Settled(job.completion) BY <2>1 DEF DoneInv
      <3>2. promised' = promised BY <2>1, PromisesEnd
      <3> QED BY <2>1, <3>1, <3>2, CompletedStays, ZenonT(30) DEF Settled
    <2>2. CASE job' # job /\ job'.state = "completed"
      <3>1. CASE FinalWorker
        <4>1. final # None /\ final.kind = "complete" /\ job' = [job EXCEPT !.state = "completed", !.completion = final]
          BY <1>0, <2>2, <3>1, Zenon DEF FinalWorker, mark_unknown, Jobs
        <4>2. final \in Completions
          BY <1>0, <4>1 DEF Uncertain
        <4>3. job'.completion = final /\ UNCHANGED <<row, promised>>
          BY <1>0, <3>1, <4>1, Zenon DEF Jobs, FinalWorker, journal
        <4>4. Settled(final) BY <4>2 DEF DoneInv
        <4> QED BY <4>3, <4>4 DEF Settled
      <3>2. CASE CoordinatorStep /\ ~FinalWorker
        <4>1. job' = job \/ job'.state # "completed"
          BY <1>0, <3>2, Zenon DEF CoordinatorStep, Issue, Lease, Acknowledge, AckWorker, Acknowledged, Complete,
             DropIssuer, CoordinatorCrash, mark_unknown, Jobs, AckAllowed
        <4> QED BY <2>2, <4>1
      <3>3. CASE NodeStep \/ Environment
        BY <2>2, <3>3, NodeFrame DEF coordinator
      <3> QED BY <3>1, <3>2, <3>3, Zenon DEF Next
    <2> QED BY <2>1, <2>2, Zenon
  <1> QED BY <1>1, <1>2, <1>3, <1>4, <1>5, Zenon DEF DoneInv

-----------------------------------------------------------------------------
(* The theorems.                                                           *)

LEMMA WorkloadStep ==
    ASSUME WorkloadInv, [Next]_vars
    PROVE  WorkloadInv'
  <1>0. /\ Types /\ ShapeInv /\ QueueInv /\ LeaseInv /\ AckInv /\ IssuerInv /\ MicInv /\ RowInv /\ DoneInv /\ MailInv
    BY DEF WorkloadInv, LeaseInv
  <1>1. CASE Next
    <2>1. CoordinatorType' BY <1>0, <1>1, CoordinatorTypes
    <2>2. NodeType' BY <1>0, <1>1, NodeTypes
    <2>3. WireType' BY <1>0, <1>1, WireTypes
    <2>4. ShapeInv' BY <1>0, <1>1, <2>2, ShapeKept
    <2>5. QueueInv' BY <1>0, <1>1, QueueKept
    <2>6. MailInv' BY <1>0, <1>1, MailKept, Zenon
    <2>7. WindowInv' BY <1>0, <1>1, <2>2, WindowKept
    <2>8. SaveInv' BY <1>0, <1>1, SaveKept
    <2>9. AckInv' BY <1>0, <1>1, AckKept
    <2>10. IssuerInv' BY <1>0, <1>1, IssuerKept
    <2>11. MicInv' BY <1>0, <1>1, MicKept
    <2>12. RowInv' BY <1>0, <1>1, RowKept
    <2>13. DoneInv' BY <1>0, <1>1, DoneKept, Zenon
    <2> QED
      BY <2>1, <2>2, <2>3, <2>4, <2>5, <2>6, <2>7, <2>8, <2>9, <2>10, <2>11, <2>12, <2>13, Zenon
      DEF WorkloadInv, Types, LeaseInv
  <1>2. CASE UNCHANGED vars
    <2> USE <1>0, <1>2 DEF vars, coordinator, journal, runner, wire
    <2>1. Types' BY SMTT(30) DEF Types, CoordinatorType, NodeType, WireType, NetType
    <2>2. ShapeInv' /\ QueueInv' BY DEF ShapeInv, QueueInv, Pending
    <2>3. MailInv' BY Zenon DEF MailInv, Covered
    <2>4. WindowInv' BY Zenon DEF LeaseInv, WindowInv, Covered, End
    <2>5. SaveInv' BY Zenon DEF LeaseInv, SaveInv, Covered
    <2>6. AckInv' /\ IssuerInv' /\ MicInv' BY Zenon DEF AckInv, IssuerInv, MicInv
    <2>7. RowInv' /\ DoneInv' BY Zenon DEF RowInv, DoneInv, Settled
    <2> QED BY <2>1, <2>2, <2>3, <2>4, <2>5, <2>6, <2>7, ZenonT(30) DEF WorkloadInv, LeaseInv
  <1> QED BY <1>1, <1>2

\* The inductive invariant of the workload: types, the two reservations, the leases
\* and the completion, on both sides and on the wire.
THEOREM WorkloadInvariant == Spec => []WorkloadInv
  BY WorkloadStart, WorkloadStep, PTL DEF Spec

\* The node never believes a lease longer than the issuer's, and no second lease is
\* answered before the consumption is on record (IssuerWindow::reply,
\* LeaseProof::confirm, Window::advance, event_journal::append).
THEOREM LeasesBounded == Spec => []LeaseBounded
  <1>1. WorkloadInv => LeaseBounded
    <2> SUFFICES ASSUME WorkloadInv PROVE LeaseBounded
      OBVIOUS
    <2>0. Types /\ WindowInv /\ SaveInv /\ AckInv
      BY Zenon DEF WorkloadInv, LeaseInv
    <2>1. promised \in Seq(Int) /\ row.events \in Seq([sequence : Nat, at : Int])
      BY <2>0 DEF Types, WireType, NodeType, Rows
    <2>2. window # None => window.sequence <= Len(promised) /\ End(window) <= promised[window.sequence]
      <3>1. Len(promised) \in Nat BY <2>1
      <3>2. window # None => Covered(window.sequence, End(window)) BY <2>0, Zenon DEF WindowInv
      <3> QED BY <3>1, <3>2 DEF Covered
    <2>3. ASSUME NEW i \in DOMAIN row.events
          PROVE  /\ row.events[i].sequence <= Len(promised)
                 /\ row.events[i].at < promised[row.events[i].sequence]
      <3>1. row.events \in Seq([sequence : Nat, at : Int]) BY <2>1, Zenon
      <3>2. DOMAIN row.events = 1..Len(row.events) BY <3>1
      <3>3. i \in 1..Len(row.events) BY <2>3, <3>2, Zenon
      <3>4. row.events[i].sequence \in 1..Len(promised) /\ row.events[i].at < promised[row.events[i].sequence]
        BY <2>0, <3>3, Zenon DEF SaveInv
      <3>5. Len(promised) \in Nat BY <2>1
      <3> QED BY <3>4, <3>5
    <2>4. Len(promised) > 1 => job.ack
      BY <2>0 DEF AckInv
    <2> QED BY <2>2, <2>3, <2>4, Zenon DEF LeaseBounded
  <1> QED BY <1>1, WorkloadInvariant, PTL

\* No outcome is forgotten on either side, both reservations are in exactly one
\* place, and the microphone is not free while the source may live
\* (checkpoint_unknown, Consumption::drop, finalization::start_with, OwnedCapture).
THEOREM NothingForgotten == Spec => []UncertaintyKept
  <1>1. WorkloadInv => UncertaintyKept
    <2> SUFFICES ASSUME WorkloadInv PROVE UncertaintyKept
      OBVIOUS
    <2>0. QueueInv /\ IssuerInv /\ MicInv /\ RowInv
      BY DEF WorkloadInv
    <2>1. queue \in Queues
      BY <2>0 DEF QueueInv
    <2>2. DOMAIN <<>> = {} /\ \A j : DOMAIN <<j>> = {1} /\ <<j>>[1] = j
      OBVIOUS
    <2>3. \A j : DOMAIN <<"event", j>> = {1, 2} /\ <<"event", j>>[2] = j
      OBVIOUS
    <2>4. queue \in {<<>>, <<"event">>} => \A i \in DOMAIN queue : queue[i] = "event"
      BY <2>2, Zenon
    <2>5. queue \in {<<"unknown">>, <<"complete">>, <<"event", "unknown">>} =>
            \E i \in DOMAIN queue : queue[i] \in {"unknown", "complete"}
      BY <2>2, <2>3
    <2>6. (\A i \in DOMAIN queue : queue[i] = "event") <=> queue \in {<<>>, <<"event">>}
      BY <2>1, <2>4, <2>5, Zenon DEF Queues
    <2>7. /\ job.state \in Active => (issuer # None /\ ~issuer.retired) \/ final # None \/ cfailed
          /\ issuer # None /\ ~issuer.retired => issuer.slot /\ final = None
      BY <2>0, Zenon DEF IssuerInv
    <2>8. row.state = "accepted" /\ crashes = 0 =>
            \/ holder \in {"held", "sent", "driving"}
            \/ \E i \in DOMAIN queue : queue[i] \in {"unknown", "complete"}
            \/ nfailed
      BY <2>0, <2>5, Zenon DEF RowInv, Held
    <2>9. slot <=> holder \notin {"held", "sent", "driving"} /\ \A i \in DOMAIN queue : queue[i] = "event"
      BY <2>0, <2>6 DEF QueueInv, Held
    <2>10. source.process \in {"running", "killed", "unconfirmed"} => source.mic # "free"
      BY <2>0, Zenon DEF MicInv
    <2> QED BY <2>7, <2>8, <2>9, <2>10, Zenon DEF UncertaintyKept
  <1> QED BY <1>1, WorkloadInvariant, PTL

\* A completed job is one the node completed, with the same report, all of its
\* events, and no lease that was not issued (Issued::complete, completion::save).
THEOREM CompletionIsTrue == Spec => []CompletedIsTrue
  <1>1. WorkloadInv => CompletedIsTrue
    BY DEF WorkloadInv, DoneInv, Settled, CompletedIsTrue
  <1> QED BY <1>1, WorkloadInvariant, PTL

\* A source that lost its listening epoch, or was stopped, reports nothing more
\* (Permit::supervise, Consumption::drive).
THEOREM RevocationIsFinal == Spec => RevocationHolds
  <1> DEFINE Revoked == source.process = "running" /\ (stopped \/ ~source.current)
  <1>1. ASSUME WorkloadInv, Next, Revoked
        PROVE  filter'.events = filter.events /\ holder' # "done"
    <2>0. holder # "done" /\ filter \in [blocks : Nat, events : Nat]
      BY <1>1 DEF WorkloadInv, DoneInv, Types, NodeType
    <2>1. ~Polls
      BY <1>1 DEF Polls, Permitted
    <2>2. ~Quiet /\ ~Observe /\ ~Finish
      BY <2>1 DEF Quiet, Observe, Finish
    <2>3. CASE CoordinatorStep
      BY <2>0, <2>3, CoordinatorFrame DEF runner
    <2>4. CASE Request \/ Abandon \/ Confirm \/ Prepare \/ Consume \/ SendAck \/ Drop \/ Drive
      BY <2>0, <2>4, Zenon DEF Request, Abandon, Confirm, Prepare, Consume, SendAck, Drop, Drive, Discard, runner
    <2>5. CASE Advance \/ Supervise \/ Appended \/ Exit \/ NodeWorker \/ NodeCrash
      BY <2>0, <2>5, Zenon DEF Advance, Supervise, Appended, Exit, NodeWorker, AppendCheck, AppendCommit, MarkUnknown,
         SaveCompletion, NodeCrash, Discard, runner
    <2>6. CASE Environment
      BY <2>0, <2>6, Zenon DEF Environment, Stop, Disable, Enable, Tick, runner
    <2> QED BY <1>1, <2>2, <2>3, <2>4, <2>5, <2>6, Zenon DEF Next, NodeStep
  <1>2. ASSUME WorkloadInv, [Next]_vars
        PROVE  [Revoked => filter'.events = filter.events /\ holder' # "done"]_vars
    BY <1>1, <1>2
  <1> QED BY <1>2, WorkloadInvariant, PTL DEF Spec, RevocationHolds
=============================================================================
