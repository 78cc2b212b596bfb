--------------------------- MODULE WorkloadSession ---------------------------
(***************************************************************************)
(* One continuous workload, from its issuance by the coordinator to the    *)
(* retained receipt of the node: crates/eef/src/workload_jobs.rs with its  *)
(* submodules and job_finalizations.rs, and crates/eefn/src/               *)
(* workload_leases.rs, workload_receipts.rs, workload_event_journal.rs,    *)
(* workload_completion.rs, workload_finalization.rs, workload_runtime.rs,  *)
(* workload_events.rs, workload_reporting.rs, listening.rs and             *)
(* capture_ownership.rs.                                                   *)
(*                                                                         *)
(* The issuer answers numbered probes with short leases inside the one     *)
(* session it issued; the node counts a lease from the moment it sent the  *)
(* probe.  Each side retires its authority in memory first and leaves the  *)
(* record of what happened to one journal worker, whose place was reserved *)
(* before any authority existed.  A message may arrive late or never,      *)
(* either process may crash, and a save may fail.                          *)
(***************************************************************************)
EXTENDS Integers, Sequences

CONSTANTS
    MaxSession,     \* max_session_ms, in ticks
    MaxLease,       \* max_lease_ms
    Margin,         \* what a deadline gives up: 5 + ms / 100
    ProbeTimeout,   \* PROBE_TIMEOUT
    Blocks,         \* max_blocks of the source
    MaxEvents,      \* events.max_events
    MaxTime,        \* bound: the clock
    MaxSequence,    \* bound: lease sequences the node asks for
    MaxCrashes,     \* bound: crashes of either process
    None

ASSUME WorkloadAssumption ==
    /\ {MaxSession, MaxLease, ProbeTimeout, Blocks, MaxEvents, MaxSequence} \subseteq Nat \ {0}
    /\ {Margin, MaxTime, MaxCrashes} \subseteq Nat
    /\ MaxLease <= MaxSession

VARIABLES
    now,        \* the monotonic clocks, which run at one rate
    job,        \* the retained job: attempt state, saved ACK, saved completion
    issuer,     \* Issued with its IssuerWindow
    ack,        \* an ACK checkpoint: with the issuer waiting, or with the worker
    final,      \* the job of the finalization queue
    cfailed,    \* finalizations.failed
    row,        \* the execution receipt of the node with its events and report
    stopped,    \* the recorded stop intent, which also signals the watch
    holder,     \* the Consumption
    window,     \* Window of the supervisor; before that, the initial proof
    reporting,  \* State of the ReportingAuthority
    source,     \* the source process and the microphone reservation
    filter,     \* Filter: blocks seen and events made
    append,     \* the event on its way to the journal
    queue,      \* jobs of the node's journal worker
    slot,       \* the permit of final_slots is free
    nfailed,    \* final_reporting_failed
    open,       \* the listening Gate: allowed, of a bound runtime
    net,        \* messages on their way
    probe,      \* the pending challenge of Requests
    renewals,   \* proofs in the renewal channel
    crashes,
    promised    \* history: until when each answered lease lets the source run

coordinator == <<job, issuer, ack, final, cfailed>>
journal == <<row, stopped, queue, slot, nfailed>>
runner == <<holder, window, reporting, source, filter, append>>
wire == <<net, probe, renewals>>
vars == <<now, coordinator, journal, runner, open, wire, crashes, promised>>

Min2(a, b) == IF a <= b THEN a ELSE b
Active == {"issued", "accepted"}
Uncertain == [kind |-> "unknown", report |-> None, last |-> 0]
Off == [started |-> FALSE, retired |-> FALSE, sequence |-> 0, deadline |-> 0]

Issuers == [retired : BOOLEAN, acknowledged : BOOLEAN, slot : BOOLEAN, next : Nat \ {0},
            consumed : BOOLEAN, stopped : BOOLEAN, end : Int]
Evidence == [events : Nat, sequence : Nat]
Completions == [kind : {"complete"}, report : Evidence, last : Nat]
Leases == [sequence : Nat, deadline : Int, session : Int]
Challenges == [sequence : Nat, sent : Int]
Saves == [event : Nat, sequence : Nat, deadline : Int, at : Int,
          stage : {"queued", "checked", "saved", "refused"}, waiter : BOOLEAN]

Jobs == [state : Active \cup {"approved", "unknown", "completed"}, ack : BOOLEAN,
         completion : Completions \cup {None}]
Rows == [state : {"none", "accepted", "unknown", "completed"},
         events : Seq([sequence : Nat, at : Int]), report : Evidence \cup {None}]
Lifetimes == [started : BOOLEAN, retired : BOOLEAN, sequence : Nat, deadline : Int]
Sources == [process : {"none", "prepared", "running", "killed", "ended", "unconfirmed"},
            mic : {"free", "held", "quarantined"}, current : BOOLEAN]

ASSUME NoneAssumption ==
    None \notin Issuers \cup Evidence \cup Completions \cup {Uncertain} \cup Leases \cup Challenges \cup Saves

Init ==
    /\ now = 0 /\ crashes = 0
    /\ job = [state |-> "approved", ack |-> FALSE, completion |-> None]
    /\ issuer = None /\ ack = "none" /\ final = None /\ cfailed = FALSE
    /\ row = [state |-> "none", events |-> <<>>, report |-> None]
    /\ stopped = FALSE /\ queue = <<>> /\ slot = TRUE /\ nfailed = FALSE
    /\ holder = "none" /\ window = None /\ reporting = Off
    /\ source = [process |-> "none", mic |-> "free", current |-> FALSE]
    /\ filter = [blocks |-> 0, events |-> 0] /\ append = None
    /\ open = TRUE
    /\ net = {} /\ probe = None /\ renewals = <<>> /\ promised = <<>>

-----------------------------------------------------------------------------
(* The coordinator.                                                        *)

\* Issued::retire: authority ends at once, its record goes to the reserved place.
Retired(i) == [i EXCEPT !.retired = TRUE, !.stopped = TRUE, !.slot = FALSE]

\* Variant: the uncertain outcome is not queued.
RetireSilently ==
    /\ issuer' = IF issuer.retired THEN issuer ELSE Retired(issuer)
    /\ UNCHANGED <<final, cfailed>>

Retire ==
    /\ issuer' = IF issuer.retired THEN issuer ELSE Retired(issuer)
    /\ final' = IF issuer.retired \/ ~issuer.slot THEN final ELSE Uncertain
    /\ cfailed' = (cfailed \/ (~issuer.retired /\ ~issuer.slot))

\* issue: the reservation and the durable definition precede the offer.
Issue ==
    /\ job.state = "approved" /\ issuer = None /\ ~cfailed /\ final = None
    /\ issuer' = [retired |-> FALSE, acknowledged |-> FALSE, slot |-> TRUE, next |-> 1,
                  consumed |-> FALSE, stopped |-> FALSE, end |-> now + MaxSession]
    /\ job' = [job EXCEPT !.state = "issued"]
    /\ net' = net \cup {[type |-> "offer"]}
    /\ UNCHANGED <<now, ack, final, cfailed, journal, runner, open, probe, renewals, crashes, promised>>

local_live == ~issuer.retired /\ ~cfailed /\ now < issuer.end
validate_live == local_live /\ job.state \in Active

\* IssuerWindow::reply: the lease that is left of the session, in order and, past
\* the first, only after the node's consumption is on record.
Remaining == issuer.end - now
reply(q) ==
    /\ ~issuer.stopped /\ now < issuer.end
    /\ q.sequence = issuer.next /\ (q.sequence = 1 \/ issuer.consumed)
    /\ Min2(Remaining, MaxLease) > Margin

\* Issued::lease: failed storage and a passed deadline retire the issuer, a
\* probe out of order does not.
Lease ==
    \E q \in net :
        /\ q.type = "probe" /\ issuer # None /\ ack \in {"none", "abandoned"}
        /\ IF ~validate_live
           THEN /\ Retire /\ net' = net \ {q} /\ UNCHANGED promised
           ELSE /\ UNCHANGED <<final, cfailed>>
                /\ IF reply(q)
                   THEN /\ issuer' = [issuer EXCEPT !.next = @ + 1]
                        /\ promised' = Append(promised, now + Min2(Remaining, MaxLease))
                        /\ net' = (net \ {q}) \cup
                               {[type |-> "lease", sequence |-> q.sequence, sent |-> q.sent,
                                 lease |-> Min2(Remaining, MaxLease), session |-> Remaining]}
                   ELSE /\ net' = net \ {q} /\ UNCHANGED <<issuer, promised>>
        /\ UNCHANGED <<now, job, ack, journal, runner, open, probe, renewals, crashes>>

check_consumed == ~issuer.stopped /\ ~issuer.consumed /\ issuer.next = 2 /\ now < issuer.end

\* Issued::acknowledge up to the wait for the ACK worker.
Acknowledge ==
    \E m \in net :
        /\ m.type = "ack" /\ issuer # None /\ ack = "none"
        /\ net' = net \ {m}
        /\ CASE ~validate_live \/ (~issuer.acknowledged /\ ~check_consumed) -> Retire /\ UNCHANGED ack
             [] OTHER -> /\ ack' = IF issuer.acknowledged THEN ack ELSE "waiting"
                         /\ UNCHANGED <<issuer, final, cfailed>>
        /\ UNCHANGED <<now, job, journal, runner, open, probe, renewals, crashes, promised>>

\* The ACK worker: an abandoned or late checkpoint is not written, and only an
\* issued job takes one.
AckAllowed == job.state = "issued"

\* "waiting" has its caller; "abandoned" is the checkpoint of a caller that left
\* after the worker had looked, so its commit still happens, in its transaction.
AckWorker ==
    /\ ack \in {"waiting", "abandoned"}
    /\ \E saved \in BOOLEAN :
         LET written == /\ saved /\ ~cfailed /\ AckAllowed
                        /\ ack = "abandoned" \/ now < issuer.end
         IN /\ job' = IF written THEN [job EXCEPT !.state = "accepted", !.ack = TRUE] ELSE job
            /\ ack' = IF ack = "abandoned" THEN "none" ELSE IF written THEN "saved" ELSE "refused"
    /\ UNCHANGED <<now, issuer, final, cfailed, journal, runner, open, wire, crashes, promised>>

\* acknowledge after the wait: renewals only with the ACK saved and the issuer live.
Acknowledged ==
    /\ ack \in {"saved", "refused"} /\ ack' = "none"
    /\ IF ack = "saved" /\ validate_live /\ check_consumed
       THEN /\ issuer' = [issuer EXCEPT !.consumed = TRUE, !.acknowledged = TRUE]
            /\ UNCHANGED <<final, cfailed>>
       ELSE Retire
    /\ UNCHANGED <<now, job, journal, runner, open, wire, crashes, promised>>

\* IssuerWindow::close_after_report
close_after_report(r) ==
    /\ ~issuer.stopped /\ issuer.consumed /\ now < issuer.end
    /\ 0 < r.sequence /\ r.sequence < issuer.next

\* Issued::complete: a report that does not fit leaves a healthy issuer alone.
Complete ==
    \E m \in net :
        /\ m.type = "done" /\ issuer # None /\ ack = "none"
        /\ net' = net \ {m}
        /\ CASE issuer.retired -> UNCHANGED <<issuer, final, cfailed>>
             [] ~issuer.retired /\ ~validate_live -> Retire
             [] OTHER ->
                  IF issuer.acknowledged /\ job.ack /\ close_after_report(m.report)
                  THEN /\ issuer' = Retired(issuer)
                       /\ final' = [kind |-> "complete", report |-> m.report, last |-> issuer.next - 1]
                       /\ UNCHANGED cfailed
                  ELSE UNCHANGED <<issuer, final, cfailed>>
        /\ UNCHANGED <<now, job, ack, journal, runner, open, probe, renewals, crashes, promised>>

\* The token is dropped or its operation cancelled: expiry, a clock change, a
\* closed session, shutdown.  A queued ACK checkpoint may have been looked at.
DropIssuer ==
    /\ issuer # None /\ ~issuer.retired
    /\ Retire
    /\ ack' \in (IF ack = "waiting" THEN {"none", "abandoned"} ELSE {"none"})
    /\ UNCHANGED <<now, job, journal, runner, open, wire, crashes, promised>>

\* mark_unknown
mark_unknown == [job EXCEPT !.state = "unknown"]

\* The finalization worker: one attempt, then for a completion one fallback.
FinalWorker ==
    /\ final # None /\ final' = None /\ ack # "abandoned"
    /\ \E saved, fallback \in BOOLEAN :
         LET completes == final.kind = "complete" /\ saved /\ job.state = "accepted"
             unknown == /\ ~completes /\ job.state \in Active \cup {"unknown"}
                        /\ IF final.kind = "unknown" THEN saved ELSE fallback
         IN /\ job' = CASE completes -> [job EXCEPT !.state = "completed", !.completion = final]
                        [] unknown -> mark_unknown
                        [] OTHER -> job
            /\ cfailed' = (cfailed \/ (~completes /\ ~unknown))
    /\ UNCHANGED <<now, issuer, ack, journal, runner, open, wire, crashes, promised>>

\* The coordinator ends with its token, queues and sessions; opening the journal
\* again interrupts the job (jobs.rs: initialize, interrupt).
CoordinatorCrash ==
    /\ crashes < MaxCrashes /\ crashes' = crashes + 1
    /\ issuer # None
    /\ issuer' = None /\ ack' = "none" /\ final' = None /\ cfailed' = FALSE
    /\ job' = IF job.state \in Active THEN mark_unknown ELSE job
    /\ net' = {}
    /\ UNCHANGED <<now, journal, runner, open, probe, renewals, promised>>

-----------------------------------------------------------------------------
(* The node: leases.                                                       *)

\* A challenge for the first lease or for the one after the last that is known.
Sequence ==
    IF renewals # <<>> THEN renewals[Len(renewals)].sequence
    ELSE IF window = None THEN 0 ELSE window.sequence
Request ==
    /\ probe = None /\ Sequence < MaxSequence /\ Len(renewals) < 1
    /\ \/ holder = "none" /\ window = None /\ [type |-> "offer"] \in net
       \/ holder \in {"held", "sent", "driving"}
    /\ probe' = [sequence |-> Sequence + 1, sent |-> now]
    /\ net' = net \cup {[type |-> "probe", sequence |-> Sequence + 1, sent |-> now]}
    /\ UNCHANGED <<now, coordinator, journal, runner, open, renewals, crashes, promised>>

\* The challenge is given up: PROBE_TIMEOUT, or its caller is gone.
Abandon ==
    /\ probe # None /\ now - probe.sent >= ProbeTimeout
    /\ probe' = None
    /\ UNCHANGED <<now, coordinator, journal, runner, open, net, renewals, crashes, promised>>

\* Variant: the lease is counted from the arrival of the reply.
CountedOnArrival(m) == now

\* LeaseProof::confirm counts from the moment the probe was sent.
Counted(m) == m.sent

Proof(m) == [sequence |-> m.sequence, deadline |-> Counted(m) + m.lease - Margin,
             session |-> Counted(m) + m.session - Margin]
End(w) == Min2(w.deadline, w.session)

\* Requests::complete: a reply to another challenge is ignored.
Confirm ==
    \E m \in net :
        /\ m.type = "lease" /\ net' = net \ {m}
        /\ IF /\ probe # None
              /\ probe.sequence = m.sequence /\ probe.sent = m.sent
           THEN LET good == now - m.sent < ProbeTimeout /\ m.lease > Margin /\ now < End(Proof(m))
                IN /\ probe' = None
                   /\ window' = IF good /\ window = None THEN Proof(m) ELSE window
                   /\ renewals' = IF good /\ window # None THEN Append(renewals, Proof(m)) ELSE renewals
           ELSE UNCHANGED <<probe, window, renewals>>
        /\ UNCHANGED <<now, coordinator, journal, holder, reporting, source, filter, append, open, crashes, promised>>

-----------------------------------------------------------------------------
(* The node: consumption, the source and its events.                       *)

Listening == open

\* prepare_microphone: the reservation comes before any consumption.
Prepare ==
    /\ source.process = "none" /\ holder = "none" /\ source.mic = "free" /\ Listening
    /\ source' = [process |-> "prepared", mic |-> "held", current |-> TRUE]
    /\ UNCHANGED <<now, coordinator, journal, holder, window, reporting, filter, append, open, wire, crashes, promised>>

\* consume_workload: one row, with its final place, while the first lease lasts.
Consume ==
    /\ holder = "none" /\ source.process = "prepared"
    /\ window # None /\ window.sequence = 1 /\ now < End(window)
    /\ [type |-> "offer"] \in net
    /\ ~nfailed /\ slot /\ ~stopped /\ row.state = "none"
    /\ row' = [row EXCEPT !.state = "accepted"] /\ slot' = FALSE /\ holder' = "held"
    /\ net' = net \ {[type |-> "offer"]}
    /\ UNCHANGED <<now, coordinator, stopped, queue, nfailed, window, reporting, source, filter,
                   append, open, probe, renewals, crashes, promised>>

acknowledgement == now < End(window) /\ ~stopped /\ row.state = "accepted"

\* The caller writes the consumed ACK, once.
SendAck ==
    /\ holder = "held" /\ acknowledgement /\ ~reporting.started
    /\ net' = net \cup {[type |-> "ack"]} /\ holder' = "sent"
    /\ UNCHANGED <<now, coordinator, journal, window, reporting, source, filter, append, open,
                   probe, renewals, crashes, promised>>

\* Jobs of the journal worker: at most one event and one final save.
Submitted(j) == IF Len(queue) < 2 THEN Append(queue, j) ELSE queue

\* The owned source goes first: its termination is requested, reporting is retired,
\* and only then is the uncertain outcome left to the worker.
Released(s) ==
    CASE s.process = "prepared" -> [s EXCEPT !.process = "none", !.mic = "free"]
      [] s.process = "running" -> [s EXCEPT !.process = "killed"]
      [] OTHER -> s

\* Running::drop, Consumption::retire and Consumption::drop.
Discard ==
    /\ source' = Released(source)
    /\ reporting' = [reporting EXCEPT !.retired = TRUE]
    /\ holder' = "gone"
    /\ queue' = Submitted("unknown") /\ nfailed' = (nfailed \/ Len(queue) >= 2)
    /\ append' = IF append = None THEN None ELSE [append EXCEPT !.waiter = FALSE]

\* The consumption is dropped before or while it drives its source: its task is
\* cancelled, the ACK could not be written, the source or the filter failed.
Drop ==
    /\ holder \in {"held", "sent", "driving"}
    /\ Discard
    /\ UNCHANGED <<now, coordinator, row, stopped, slot, window, filter, open, wire, crashes, promised>>

\* Variant: only the current state of the gate counts.
PermittedAgain == open

\* The permit of supervise_listening_epoch: the epoch of the preparation, still open.
Permitted == open /\ source.current

\* PreparedMicrophone::run: the window and the reporting lifetime begin, the
\* reserved source is started and bound to its process tree.
Drive ==
    /\ holder = "sent" /\ acknowledgement /\ source.process = "prepared"
    /\ Permitted
    /\ reporting' = [started |-> TRUE, retired |-> FALSE, sequence |-> 1, deadline |-> End(window)]
    /\ source' = [source EXCEPT !.process = "running"] /\ holder' = "driving"
    /\ UNCHANGED <<now, coordinator, journal, window, filter, append, open, wire, crashes, promised>>

\* Window::advance: the next lease, never past the first session end.
Advance ==
    /\ holder = "driving" /\ renewals # <<>> /\ now < End(window) /\ ~stopped
    /\ LET p == Head(renewals)
           w == [p EXCEPT !.session = Min2(window.session, p.session)]
       IN /\ p.sequence = window.sequence + 1 /\ now < End(w)
          /\ window' = w
          /\ reporting' = [reporting EXCEPT !.sequence = w.sequence, !.deadline = End(w)]
    /\ renewals' = Tail(renewals)
    /\ UNCHANGED <<now, coordinator, journal, holder, source, filter, append, open, net, probe,
                   crashes, promised>>

\* A renewal that comes too late, or out of sequence, ends the session.
RefusesRenewal ==
    /\ renewals # <<>> /\ now < End(window)
    /\ LET p == Head(renewals)
       IN p.sequence # window.sequence + 1 \/ now >= Min2(p.deadline, Min2(window.session, p.session))

\* Variant: nothing watches the end of the lease.
NeverExpires == FALSE

\* What the supervisors see before they poll the source again: the end of the
\* lease, a recorded stop, a listening gate that closed or changed.
Expired == now >= End(window)

Supervise ==
    /\ holder = "driving"
    /\ Expired \/ stopped \/ ~Permitted \/ RefusesRenewal
    /\ Discard
    /\ UNCHANGED <<now, coordinator, row, stopped, slot, window, filter, open, wire, crashes, promised>>

Polls == holder = "driving" /\ source.process = "running" /\ ~Expired /\ ~stopped /\ Permitted

\* Checkpoint::check of a checkpoint taken under lease sequence c.sequence.
check(c) ==
    /\ reporting.started /\ ~reporting.retired /\ reporting.sequence >= c.sequence
    /\ now < Min2(reporting.deadline, c.deadline)

\* Filter::accept on a block that needs no event.
Quiet ==
    /\ Polls /\ append = None /\ 0 < filter.blocks /\ filter.blocks < Blocks
    /\ filter' = [filter EXCEPT !.blocks = @ + 1]
    /\ UNCHANGED <<now, coordinator, journal, holder, window, reporting, source, append, open, wire,
                   crashes, promised>>

\* Filter::accept with an event, a checkpoint, and the event given to the worker.
Observe ==
    /\ Polls /\ append = None /\ filter.blocks < Blocks /\ filter.events < MaxEvents
    /\ filter' = [blocks |-> filter.blocks + 1, events |-> filter.events + 1]
    /\ append' = [event |-> filter.events + 1, sequence |-> reporting.sequence,
                  deadline |-> reporting.deadline, at |-> now, stage |-> "queued", waiter |-> TRUE]
    /\ queue' = Submitted("event")
    /\ UNCHANGED <<now, coordinator, row, stopped, slot, nfailed, holder, window, reporting, source,
                   open, wire, crashes, promised>>

\* event_journal::append up to its commit, under the journal lock.
AppendCheck ==
    /\ queue # <<>> /\ Head(queue) = "event" /\ append.stage = "queued"
    /\ append' = [append EXCEPT !.at = now,
                     !.stage = IF check(append) /\ ~stopped /\ row.state = "accepted"
                               THEN "checked" ELSE "refused"]
    /\ queue' = IF append'.stage = "refused" THEN Tail(queue) ELSE queue
    /\ UNCHANGED <<now, coordinator, row, stopped, slot, nfailed, holder, window, reporting, source,
                   filter, open, wire, crashes, promised>>

\* The commit, which may fail.  A retired runner no longer gets an answer.
AppendCommit ==
    /\ queue # <<>> /\ Head(queue) = "event" /\ append.stage = "checked"
    /\ \E saved \in BOOLEAN :
         /\ row' = IF saved
                   THEN [row EXCEPT !.events = Append(@, [sequence |-> append.sequence, at |-> append.at])]
                   ELSE row
         /\ append' = [append EXCEPT !.stage = IF saved /\ check(append) THEN "saved" ELSE "refused"]
    /\ queue' = Tail(queue)
    /\ UNCHANGED <<now, coordinator, stopped, slot, nfailed, holder, window, reporting, source,
                   filter, open, wire, crashes, promised>>

\* The callback runs after the durable event; anything else ends the source.
Appended ==
    /\ append # None /\ append.stage \in {"saved", "refused"}
    /\ IF ~append.waiter
       THEN append' = None /\ UNCHANGED <<queue, nfailed, holder, reporting, source>>
       ELSE /\ Polls
            /\ IF append.stage = "saved" /\ check(append)
               THEN append' = None /\ UNCHANGED <<queue, nfailed, holder, reporting, source>>
               ELSE Discard
    /\ UNCHANGED <<now, coordinator, row, stopped, slot, window, filter, open, wire, crashes, promised>>

\* The stream ends with its owned exit observed, under a live lease; the evidence
\* goes to the worker, the reservation is free.
Finish ==
    /\ Polls /\ append = None /\ filter.blocks = Blocks /\ filter.events > 0
    /\ check([sequence |-> window.sequence, deadline |-> End(window)])
    /\ source' = [source EXCEPT !.process = "ended", !.mic = "free"]
    /\ reporting' = [reporting EXCEPT !.retired = TRUE]
    /\ holder' = "done" /\ queue' = Submitted("complete") /\ nfailed' = (nfailed \/ Len(queue) >= 2)
    /\ UNCHANGED <<now, coordinator, row, stopped, slot, window, filter, append, open, wire, crashes,
                   promised>>

\* The exit of a killed source is observed, or not within its bound: then the
\* reservation stays taken for the life of the process.
Exit ==
    /\ source.process = "killed"
    /\ source' \in {[source EXCEPT !.process = "ended", !.mic = "free"],
                    [source EXCEPT !.process = "unconfirmed", !.mic = "quarantined"]}
    /\ UNCHANGED <<now, coordinator, journal, holder, window, reporting, filter, append, open, wire,
                   crashes, promised>>

\* mark_workload_unknown by the worker.
MarkUnknown ==
    /\ queue # <<>> /\ Head(queue) = "unknown"
    /\ \E saved \in BOOLEAN :
         /\ row' = IF saved /\ row.state = "accepted" THEN [row EXCEPT !.state = "unknown"] ELSE row
         /\ nfailed' = (nfailed \/ ~saved)
    /\ queue' = Tail(queue) /\ slot' = TRUE
    /\ UNCHANGED <<now, coordinator, stopped, runner, open, wire, crashes, promised>>

\* completion::save: refused after a stop, an error when the events differ from
\* what the filter made.  A report leaves the node only after its commit.
Report == [events |-> filter.events, sequence |-> window.sequence]
Confirms == Len(row.events) = filter.events /\ row.events[Len(row.events)].sequence <= window.sequence

\* Variant: the report is sent whether or not it was saved.
ReportedAnyway(saved) == {[type |-> "done", report |-> Report]}

Reported(saved) == IF saved THEN {[type |-> "done", report |-> Report]} ELSE {}

SaveCompletion ==
    /\ queue # <<>> /\ Head(queue) = "complete"
    /\ \E saved \in BOOLEAN :
         LET refused == row.state # "accepted" \/ stopped
         IN /\ row' = CASE ~saved -> row
                        [] saved /\ refused -> [row EXCEPT !.state = IF @ = "accepted" THEN "unknown" ELSE @]
                        [] saved /\ ~refused /\ Confirms -> [row EXCEPT !.state = "completed", !.report = Report]
                        [] OTHER -> row
            /\ nfailed' = (nfailed \/ ~saved \/ (~refused /\ ~Confirms))
            /\ net' = net \cup Reported(saved /\ ~refused /\ Confirms)
    /\ queue' = Tail(queue) /\ slot' = TRUE
    /\ UNCHANGED <<now, coordinator, stopped, runner, open, probe, renewals, crashes, promised>>

-----------------------------------------------------------------------------
(* Stop, consent, crashes, the network and time.                           *)

\* request_stop_scope, under the journal lock: before consumption the stop takes
\* the grant's only row.
Stop ==
    /\ ~stopped /\ job.state # "approved" /\ stopped' = TRUE
    /\ append # None => append.stage # "checked"
    /\ row' = IF row.state = "none" THEN [row EXCEPT !.state = "unknown"] ELSE row
    /\ UNCHANGED <<now, coordinator, queue, slot, nfailed, runner, open, wire, crashes, promised>>

\* Every change below begins a new epoch: the preparation's permit is void for
\* good.  Changes are enumerated while there is a preparation to meet them.
NewEpoch ==
    /\ source.process \in {"prepared", "running"}
    /\ source' = [source EXCEPT !.current = FALSE]

\* Gate::deny, before the consent is saved, and retire_generation.
Disable ==
    /\ open /\ open' = FALSE /\ NewEpoch
    /\ UNCHANGED <<now, coordinator, journal, holder, window, reporting, filter, append, wire,
                   crashes, promised>>

\* Gate::allow, after the consent is saved, and bind_runtime of a new runtime.
Enable ==
    /\ ~open /\ open' = TRUE /\ NewEpoch
    /\ UNCHANGED <<now, coordinator, journal, holder, window, reporting, filter, append, wire,
                   crashes, promised>>

\* The node process ends; its owned job ends with it, its rows remain.
NodeCrash ==
    /\ crashes < MaxCrashes /\ crashes' = crashes + 1
    /\ holder # "none" \/ source.process # "none"
    /\ holder' = "gone" /\ window' = None /\ reporting' = [reporting EXCEPT !.retired = TRUE]
    /\ source' = [source EXCEPT !.process = "none", !.mic = "free"] /\ append' = None
    /\ queue' = <<>> /\ slot' = TRUE /\ nfailed' = FALSE
    /\ net' = {} /\ probe' = None /\ renewals' = <<>>
    /\ UNCHANGED <<now, coordinator, row, stopped, filter, open, promised>>

\* The clock counts from the issue.
Tick ==
    /\ job.state # "approved" /\ now < MaxTime /\ now' = now + 1
    /\ UNCHANGED <<coordinator, journal, runner, open, wire, crashes, promised>>

CoordinatorStep == Issue \/ Lease \/ Acknowledge \/ AckWorker \/ Acknowledged \/ Complete
                   \/ DropIssuer \/ FinalWorker \/ CoordinatorCrash
NodeWorker == AppendCheck \/ AppendCommit \/ MarkUnknown \/ SaveCompletion
NodeStep == Request \/ Abandon \/ Confirm \/ Prepare \/ Consume \/ SendAck \/ Drop \/ Drive \/ Advance
            \/ Supervise \/ Quiet \/ Observe \/ Appended \/ Finish \/ Exit \/ NodeWorker \/ NodeCrash
Environment == Stop \/ Disable \/ Enable \/ Tick
Next == CoordinatorStep \/ NodeStep \/ Environment

Spec == Init /\ [][Next]_vars

\* The clock runs, and the supervisors are tasks of a running executor.
FairSpec == Spec /\ WF_vars(Tick) /\ WF_vars(Supervise)

-----------------------------------------------------------------------------
\* Every variable keeps its type.
TypeOK ==
    /\ now \in Int /\ crashes \in Nat /\ promised \in Seq(Int)
    /\ job \in Jobs
    /\ issuer \in Issuers \cup {None}
    /\ ack \in {"none", "waiting", "abandoned", "saved", "refused"}
    /\ final \in Completions \cup {None, Uncertain} /\ cfailed \in BOOLEAN
    /\ row \in Rows
    /\ {stopped, slot, nfailed, open} \subseteq BOOLEAN
    /\ queue \in Seq({"event", "unknown", "complete"}) /\ Len(queue) <= 2
    /\ holder \in {"none", "held", "sent", "driving", "done", "gone"}
    /\ window \in Leases \cup {None}
    /\ reporting \in Lifetimes
    /\ source \in Sources
    /\ filter \in [blocks : Nat, events : Nat] /\ append \in Saves \cup {None}
    /\ probe \in Challenges \cup {None} /\ renewals \in Seq(Leases)

\* The node never believes a lease longer than the issuer's: the window, and every
\* event saved under a lease, end no later than the moment up to which the issuer
\* answered that lease, and no lease after the first is answered before the node's
\* consumption is on record (IssuerWindow::reply, LeaseProof::confirm,
\* Window::advance, event_journal::append).
LeaseBounded ==
    /\ window # None => /\ window.sequence <= Len(promised)
                        /\ End(window) <= promised[window.sequence]
    /\ \A i \in DOMAIN row.events :
         /\ row.events[i].sequence <= Len(promised)
         /\ row.events[i].at < promised[row.events[i].sequence]
    /\ Len(promised) > 1 => job.ack

\* No outcome is forgotten: an active job has its issuer, a queued record or the
\* failure latch, and an accepted row of a node that never crashed has its
\* consumption, a queued save or the latch; both reservations are in exactly one
\* place (checkpoint_unknown, Consumption::drop, finalization::start_with), and the
\* microphone is not free while the source process may live (OwnedCapture,
\* Quarantined).
UncertaintyKept ==
    /\ job.state \in Active =>
         \/ issuer # None /\ ~issuer.retired
         \/ final # None \/ cfailed
    /\ row.state = "accepted" /\ crashes = 0 =>
         \/ holder \in {"held", "sent", "driving"}
         \/ \E i \in DOMAIN queue : queue[i] \in {"unknown", "complete"}
         \/ nfailed
    /\ issuer # None /\ ~issuer.retired => issuer.slot /\ final = None
    /\ slot <=> /\ holder \notin {"held", "sent", "driving"}
                /\ \A i \in DOMAIN queue : queue[i] = "event"
    /\ source.process \in {"running", "killed", "unconfirmed"} => source.mic # "free"

\* A completed job is one the node completed: its row is retained with the same
\* report, its events are all there, its source has exited, and no lease the node
\* reports was not issued (Issued::complete, completion::save).
CompletedIsTrue ==
    job.state = "completed" =>
        /\ row.state = "completed" /\ row.report = job.completion.report
        /\ Len(row.events) = row.report.events
        /\ row.report.sequence <= job.completion.last
        /\ job.completion.last = Len(promised)
        /\ source.process \notin {"running", "killed"}

\* A source that lost its listening epoch, or was stopped, reports nothing more,
\* even if listening is allowed again (Permit::supervise, Consumption::drive).
RevocationHolds ==
    [][source.process = "running" /\ (stopped \/ ~source.current)
         => filter'.events = filter.events /\ holder' # "done"]_vars

\* Once nobody can renew it, the source ends: the lease runs out
\* (supervise_inner, Issued::retire).
SourceEnds == issuer = None \/ issuer.retired ~> source.process # "running"
=============================================================================
