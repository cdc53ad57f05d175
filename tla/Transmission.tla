---------------------------- MODULE Transmission ----------------------------
(***************************************************************************)
(* From validated to the end: the submission of the invoice to the         *)
(* plateforme agreee (PA), the lifecycle events and flow acknowledgements  *)
(* that the polls bring back, the payment of the invoice by its user, by a *)
(* payment provider or from an earlier Stripe event, and its cancellation  *)
(* by a credit note (apps/billing/services/invoice_service.py,             *)
(* apps/factpulse/tasks.py, apps/payments/services.py).                    *)
(*                                                                         *)
(* The PA is outside the repository.  What is modelled of it is what the   *)
(* code reads: each submission makes a flow that is acknowledged later,    *)
(* and an accepted invoice gets lifecycle events in the order of the       *)
(* standard, at most one of each code.                                     *)
(***************************************************************************)
EXTENDS InvoiceRow, Sequences

CONSTANTS
  Pollers,  \* the workers that run polls (the beat schedule and the follow-ups)
  MaxFlows, \* bound: no transmission starts once the PA has this many flows
  MaxEvents \* bound: lifecycle events the PA publishes

ASSUME TransmissionAssumption ==
  /\ Pollers \subseteq Workers
  /\ MaxFlows \in Nat
  /\ MaxEvents \in Nat

VARIABLES
  flows,    \* the PA's flows, oldest first: their acknowledgements
  events,   \* the PA's lifecycle events of this invoice, oldest first
  logged,   \* positions of the events that have a cdar_event audit log
  seen,     \* per poller: how many events its query returned
  known,    \* per poller: positions it found logged or has gone through
  credited, \* a credit note of the full amount exists
  reported  \* how often status 212 (paid) was sent to the PA, up to 2

paVars == <<flows, events, logged, seen, known, credited, reported>>

TransmissionLabels ==
  {"transmit", "send_transmit", "submit", "submitted", "submit_failed",
   "mark_paid", "online_payment", "send_paid212", "auto_cancel",
   "poll", "dedup", "event", "apply", "auto_paid", "send_auto212",
   "flow_check"}

PaInit ==
  /\ flows = <<>>
  /\ events = <<>>
  /\ logged = {}
  /\ seen = [w \in Workers |-> 0]
  /\ known = [w \in Workers |-> {}]
  /\ credited = FALSE
  /\ reported = 0

----------------------------------------------------------------------------
(* The PA.                                                                 *)

\* 200 deposited, 201 issued to the buyer, 210 refused by the buyer,
\* 213 rejected by the platform.
Codes == {"200", "201", "210", "213"}

\* CDAR_STATUS_MAP.
StatusOf ==
  [c \in Codes |-> CASE c = "200" -> "transmitted"
                     [] c = "201" -> "accepted"
                     [] c = "210" -> "refused"
                     [] c = "213" -> "rejected"]

\* The codes that may follow the events published so far.
NextCodes ==
  LET last == IF events = <<>> THEN "none" ELSE events[Len(events)] IN
  CASE last = "none" -> {"200", "213"}
    [] last = "200"  -> {"201", "210", "213"}
    [] last = "201"  -> {"210"}
    [] OTHER         -> {}

Acknowledge ==
  /\ \E i \in DOMAIN flows :
       /\ flows[i] = "pending"
       /\ \E a \in {"ok", "error"} :
            /\ a = "error" => "nack" \in Faults
            /\ flows' = [flows EXCEPT ![i] = a]
  /\ UNCHANGED <<rowVars, events, logged, seen, known, credited, reported>>

Publish ==
  /\ \E i \in DOMAIN flows : flows[i] = "ok"
  /\ Len(events) < MaxEvents
  /\ \E c \in NextCodes : events' = Append(events, c)
  /\ UNCHANGED <<rowVars, flows, logged, seen, known, credited, reported>>

----------------------------------------------------------------------------
(* Transmission.                                                           *)

\* Mutation: an invoice may be transmitted again while it is being transmitted.
OpenTransmitAgain(w) ==
  /\ row.status \in {"validated", "transmitting"}
  /\ Len(flows) < MaxFlows
  /\ Open(w, "transmit")
  /\ UNCHANGED paVars

OpenTransmit(w) ==
  /\ CanTransition(row.status, "transmitting")
  /\ Len(flows) < MaxFlows
  /\ Open(w, "transmit")
  /\ UNCHANGED paVars

\* The request saves the status alone.
RequestTransmission(w) ==
  /\ pc[w] = "transmit"
  /\ SaveFields(w, [row EXCEPT !.status = "transmitting"], {"status"})
  /\ SendNext(w, "send_transmit")
  /\ UNCHANGED <<queue, drawn, received, paVars>>

SendTransmit(w) == Send(w, "send_transmit", "transmit") /\ UNCHANGED paVars

\* Mutation: the task looks for the status that the request has found.
TakeTransmitValidated(w) ==
  /\ \/ row.status = "validated" /\ Take(w, "transmit", "submit")
     \/ row.status # "validated" /\ Drop("transmit")
  /\ UNCHANGED paVars

TakeTransmit(w) ==
  /\ \/ row.status = "transmitting" /\ Take(w, "transmit", "submit")
     \/ row.status # "transmitting" /\ Drop("transmit")
  /\ UNCHANGED paVars

\* The id that the answer gives the next flow: result.get("flowId", "") may be empty.
FlowIds == {Len(flows) + 1} \union IF "no_flow_id" \in Faults THEN {0} ELSE {}

\* POST /flows.  The answer may be lost after the PA took the flow.
SubmitFlow(w) ==
  /\ pc[w] = "submit"
  /\ \/ /\ copy[w].pdf # "none"
        /\ flows' = Append(flows, "pending")
        /\ \E f \in FlowIds : copy' = [copy EXCEPT ![w].flow = f]
        /\ pc' = [pc EXCEPT ![w] = "submitted"]
     \/ /\ copy[w].pdf # "none" /\ "timed_out" \in Faults
        /\ flows' = Append(flows, "pending")
        /\ pc' = [pc EXCEPT ![w] = "submit_failed"]
        /\ UNCHANGED copy
     \/ /\ copy[w].pdf = "none" \/ "rejected" \in Faults
        /\ pc' = [pc EXCEPT ![w] = "submit_failed"]
        /\ UNCHANGED <<flows, copy>>
  /\ UNCHANGED <<row, queue, drawn, received, clean, events, logged, seen,
                 known, credited, reported>>

\* Mutation: the submission is taken for the confirmation.
SaveFlowAsTransmitted(w) ==
  /\ pc[w] = "submitted"
  /\ SaveFields(w, [row EXCEPT !.flow = copy[w].flow, !.status = "transmitted"],
                {"status"})
  /\ Finish(w)
  /\ UNCHANGED <<queue, drawn, received, paVars>>

\* 202: the flow id, empty or not, is saved with columns no other handler writes.
SaveFlow(w) ==
  /\ pc[w] = "submitted"
  /\ SaveFields(w, [row EXCEPT !.flow = copy[w].flow], {})
  /\ Finish(w)
  /\ UNCHANGED <<queue, drawn, received, paVars>>

\* Mutation: the error is only logged.
TransmissionFailsSilently(w) ==
  /\ pc[w] = "submit_failed"
  /\ Finish(w)
  /\ UNCHANGED <<row, queue, drawn, received, clean, paVars>>

\* A FactPulse error: back to validated.  Any other exception leaves the
\* invoice transmitting (Crash).
RevertTransmission(w) ==
  /\ pc[w] = "submit_failed"
  /\ SaveFields(w, [row EXCEPT !.status = "validated"], {"status"})
  /\ Finish(w)
  /\ UNCHANGED <<queue, drawn, received, paVars>>

----------------------------------------------------------------------------
(* Payment and cancellation.                                               *)

OpenMarkPaid(w) ==
  /\ CanTransition(row.status, "paid")
  /\ Open(w, "mark_paid")
  /\ UNCHANGED paVars

\* A provider's webhook or catch-up: no user waits for it.
OpenOnlinePayment(w) ==
  /\ "online_payment" \in Handlers
  /\ CanTransition(row.status, "paid")
  /\ \A t \in Tasks : queue[t] < MaxQueued
  /\ Read(w, "online_payment")
  /\ UNCHANGED <<row, queue, drawn, received, clean, paVars>>

\* Mutation: the payment is not recorded.
PaidWithoutPayment(r) == [r EXCEPT !.status = "paid"]

\* mark_paid keeps a payment already recorded and saves the whole object.
PaidCopy(r) == [r EXCEPT !.status = "paid", !.payment = TRUE]

MarkPaid(w) ==
  /\ pc[w] \in {"mark_paid", "online_payment"}
  /\ Save(w, PaidCopy(copy[w]))
  /\ received' = TRUE
  /\ SendNext(w, "send_paid212")
  /\ UNCHANGED <<queue, drawn, paVars>>

SendPaid212(w) == Send(w, "send_paid212", "paid212") /\ UNCHANGED paVars

\* submit_cdar_paid writes nothing to the row; it reports unless the buyer or
\* the supplier cannot be identified, or the PA fails.
ReportPaid ==
  /\ queue["paid212"] > 0
  /\ queue' = [queue EXCEPT !["paid212"] = @ - 1]
  /\ \/ row.status = "paid" /\ reported < 2 /\ reported' = reported + 1
     \/ UNCHANGED reported
  /\ UNCHANGED <<row, pc, copy, drawn, received, clean, flows, events, logged,
                 seen, known, credited>>

\* cancel_invoice: a draft credit note, another row.
CancelInvoice ==
  /\ "auto_cancel" \in Handlers
  /\ row.status \in {"validated", "transmitted", "accepted", "paid"}
  /\ ~credited
  /\ credited' = TRUE
  /\ UNCHANGED <<rowVars, flows, events, logged, seen, known, reported>>

\* check_auto_cancel runs in the generation task of the credit note.
OpenAutoCancel(w) ==
  /\ credited
  /\ row.status \in {"validated", "paid"}
  /\ Read(w, "auto_cancel")
  /\ UNCHANGED <<row, queue, drawn, received, clean, paVars>>

AutoCancel(w) ==
  /\ pc[w] = "auto_cancel"
  /\ SaveFields(w, [row EXCEPT !.status = "cancelled"], {"status"})
  /\ Finish(w)
  /\ UNCHANGED <<queue, drawn, received, paVars>>

----------------------------------------------------------------------------
(* Polling: poll_cdar_events on its schedule and check_invoice_lifecycle    *)
(* after a submission, which run the same steps.                           *)

Rest == <<flows, events, logged, credited, reported>>

\* The events this poll has still to go through.
Due(w) == 1..seen[w] \ known[w]

Stuck(r) == r.status = "transmitting" /\ r.flow # 0

EndPoll(w) ==
  /\ Finish(w)
  /\ seen' = [seen EXCEPT ![w] = 0]
  /\ known' = [known EXCEPT ![w] = {}]

\* The PA is asked for the lifecycle of the organisation's invoices (any
\* pending one starts the query).  A poll that would find nothing to do is
\* left out.
Poll(w) ==
  /\ "poll" \in Handlers /\ w \in Pollers
  /\ IF events = <<>> THEN Stuck(row) ELSE DOMAIN events \ logged # {}
  /\ pc[w] = "idle"
  /\ pc' = [pc EXCEPT ![w] = "poll"]
  /\ seen' = [seen EXCEPT ![w] = Len(events)]
  /\ UNCHANGED <<row, copy, queue, drawn, received, clean, known, Rest>>

\* The local invoice is looked up by number, deleted ones excluded.
ReadForEvents(w) ==
  /\ pc[w] = "poll" /\ seen[w] > 0
  /\ \/ /\ row.number # 0 /\ ~row.deleted
        /\ pc' = [pc EXCEPT ![w] = "dedup"]
        /\ copy' = [copy EXCEPT ![w] = row]
        /\ UNCHANGED <<seen, known>>
     \/ /\ row.number = 0 \/ row.deleted
        /\ EndPoll(w)
  /\ UNCHANGED <<row, queue, drawn, received, clean, Rest>>

\* Then the audit logs of the events already handled.
ReadLogs(w) ==
  /\ pc[w] = "dedup"
  /\ known' = [known EXCEPT ![w] = logged]
  /\ pc' = [pc EXCEPT ![w] = "event"]
  /\ UNCHANGED <<row, copy, queue, drawn, received, clean, seen, Rest>>

\* The event is logged first ...
LogEvent(w) ==
  /\ pc[w] = "event"
  /\ \E i \in Due(w) :
       /\ \A j \in Due(w) : i <= j
       /\ logged' = logged \union {i}
  /\ pc' = [pc EXCEPT ![w] = "apply"]
  /\ UNCHANGED <<row, copy, queue, drawn, received, clean, flows, events, seen,
                 known, credited, reported>>

\* _maybe_auto_mark_paid, decided on the poll's object.
NextAfter(r) ==
  IF r.payment /\ CanTransition(r.status, "paid") THEN "auto_paid" ELSE "event"

\* ... and then applied, if the poll's object may go to its status; the
\* status alone is saved.
ApplyEvent(w) ==
  /\ pc[w] = "apply"
  /\ \E i \in Due(w) :
       LET s == StatusOf[events[i]]
           r == [copy[w] EXCEPT !.status = s]
       IN
       /\ \A j \in Due(w) : i <= j
       /\ known' = [known EXCEPT ![w] = @ \union {i}]
       /\ \/ /\ CanTransition(copy[w].status, s)
             /\ SaveFields(w, [row EXCEPT !.status = s], {"status"})
             /\ copy' = [copy EXCEPT ![w] = r]
             /\ pc' = [pc EXCEPT ![w] = NextAfter(r)]
          \/ /\ ~CanTransition(copy[w].status, s)
             /\ pc' = [pc EXCEPT ![w] = "event"]
             /\ UNCHANGED <<row, copy, clean>>
  /\ UNCHANGED <<queue, drawn, received, seen, Rest>>

\* Mutation: mark_paid works on an object of its own.
AutoMarkPaidApart(w) ==
  /\ pc[w] = "auto_paid"
  /\ Save(w, PaidCopy(copy[w]))
  /\ received' = TRUE
  /\ pc' = [pc EXCEPT ![w] = "send_auto212"]
  /\ UNCHANGED <<copy, queue, drawn, paVars>>

AutoMarkPaid(w) ==
  /\ pc[w] = "auto_paid"
  /\ Save(w, PaidCopy(copy[w]))
  /\ copy' = [copy EXCEPT ![w] = PaidCopy(@)]
  /\ received' = TRUE
  /\ pc' = [pc EXCEPT ![w] = "send_auto212"]
  /\ UNCHANGED <<queue, drawn, paVars>>

\* mark_paid's message; the poll goes on with the next event.
SendAuto212(w) ==
  /\ pc[w] = "send_auto212"
  /\ queue' = [queue EXCEPT !["paid212"] = @ + 1]
  /\ pc' = [pc EXCEPT ![w] = "event"]
  /\ UNCHANGED <<row, copy, drawn, received, clean, paVars>>

PollEnds(w) ==
  /\ pc[w] = "event" /\ Due(w) = {}
  /\ EndPoll(w)
  /\ UNCHANGED <<row, queue, drawn, received, clean, Rest>>

\* Without a lifecycle event the poll looks at the flow of an invoice that is
\* still transmitting.
ReadForFallback(w) ==
  /\ pc[w] = "poll" /\ seen[w] = 0
  /\ \/ /\ Stuck(row)
        /\ pc' = [pc EXCEPT ![w] = "flow_check"]
        /\ copy' = [copy EXCEPT ![w] = row]
        /\ UNCHANGED <<seen, known>>
     \/ ~Stuck(row) /\ EndPoll(w)
  /\ UNCHANGED <<row, queue, drawn, received, clean, Rest>>

\* The status the acknowledgement of a flow calls for.
AckStatus(a) == IF a = "ok" THEN "transmitted" ELSE "validated"

\* get_flow_status and _apply_flow_fallback, which tests no transition.
FallbackApply(w) ==
  LET a == flows[copy[w].flow]
      r == [copy[w] EXCEPT !.status = AckStatus(a)]
  IN
  /\ pc[w] = "flow_check"
  /\ \/ /\ a # "pending"
        /\ SaveFields(w, [row EXCEPT !.status = r.status], {"status"})
        /\ copy' = [copy EXCEPT ![w] = r]
        /\ pc' = [pc EXCEPT ![w] = IF a = "ok" THEN NextAfter(r) ELSE "event"]
        /\ UNCHANGED <<seen, known>>
     \/ /\ a = "pending"
        /\ EndPoll(w)
        /\ UNCHANGED <<row, clean>>
  /\ UNCHANGED <<queue, drawn, received, Rest>>

----------------------------------------------------------------------------

TransmissionRequest(w) ==
  \/ OpenTransmit(w) \/ RequestTransmission(w) \/ SendTransmit(w)
  \/ OpenMarkPaid(w) \/ OpenOnlinePayment(w) \/ MarkPaid(w) \/ SendPaid212(w)

TransmissionTask(w) ==
  \/ TakeTransmit(w) \/ SubmitFlow(w) \/ SaveFlow(w) \/ RevertTransmission(w)
  \/ OpenAutoCancel(w) \/ AutoCancel(w)

PollStep(w) ==
  \/ ReadForEvents(w) \/ ReadLogs(w) \/ LogEvent(w) \/ ApplyEvent(w)
  \/ AutoMarkPaid(w) \/ SendAuto212(w) \/ PollEnds(w)
  \/ ReadForFallback(w) \/ FallbackApply(w)

\* A crashed worker keeps nothing of its poll.
CrashPa(w) ==
  /\ Crash(w)
  /\ seen' = [seen EXCEPT ![w] = 0]
  /\ known' = [known EXCEPT ![w] = {}]
  /\ UNCHANGED Rest

TransmissionStep ==
  \/ \E w \in Workers :
       TransmissionRequest(w) \/ TransmissionTask(w) \/ Poll(w) \/ PollStep(w)
  \/ ReportPaid \/ CancelInvoice \/ Acknowledge \/ Publish

TransmissionNext == TransmissionStep \/ \E w \in Workers : CrashPa(w)

\* The component alone starts with an invoice that generation left behind,
\* with or without a payment recorded before it was issued.
TransmissionInit ==
  /\ \E p \in BOOLEAN :
       /\ row = [NewRow(1) EXCEPT !.status = "validated", !.pdf = "facturx",
                                  !.payment = p]
       /\ received = p
  /\ drawn = 1
  /\ pc = [w \in Workers |-> "idle"]
  /\ copy = [w \in Workers |-> Forgotten]
  /\ queue = [t \in Tasks |-> 0]
  /\ clean = TRUE
  /\ PaInit

TransmissionSpec ==
  TransmissionInit /\ [][TransmissionNext]_<<rowVars, paVars>>

----------------------------------------------------------------------------
(* Properties.                                                             *)

PaTypeOK ==
  /\ flows \in Seq({"pending", "ok", "error"})
  /\ events \in Seq(Codes)
  /\ logged \subseteq DOMAIN events
  /\ seen \in [Workers -> 0..Len(events)]
  /\ known \in [Workers -> SUBSET DOMAIN events]
  /\ credited \in BOOLEAN
  /\ reported \in 0..2

TransmissionTypeOK ==
  /\ row \in Row
  /\ pc \in [Workers -> {"idle"} \union TransmissionLabels]
  /\ copy \in [Workers -> Row]
  /\ queue \in [Tasks -> Nat]
  /\ drawn \in Nat
  /\ received \in BOOLEAN
  /\ clean \in BOOLEAN
  /\ PaTypeOK

\* Once an invoice is issued a recorded payment is never lost, however the
\* handlers interleave: every whole-object save of this part writes it.
PaymentKeptOnceIssued == received => row.payment

\* What the row says of the PA has happened there: a transmitted invoice was
\* submitted, and one with a verdict has that event published.
BackedByThePA ==
  /\ row.status = "transmitted" => \E i \in DOMAIN flows : flows[i] = "ok"
  /\ \A c \in Codes : row.status = StatusOf[c] /\ c # "200" =>
                        \E i \in DOMAIN events : events[i] = c

\* The verdict of the last event is not lost: when no poll is running and
\* every event was logged, the row shows it, or the payment or cancellation
\* that came after.
VerdictShown ==
  (/\ \A w \in Workers : pc[w] \notin {"poll", "dedup", "event", "apply"}
   /\ events # <<>> /\ logged = DOMAIN events)
  => row.status \in {StatusOf[events[Len(events)]], "paid", "cancelled"}

\* A paid invoice leaves that status by its cancellation only.
PaidStays ==
  [][row.status = "paid" => row'.status \in {"paid", "cancelled"}]_<<rowVars, paVars>>

\* The PA accepts an invoice at most once.
SubmittedOnce ==
  \A i, j \in DOMAIN flows : flows[i] = "ok" /\ flows[j] = "ok" => i = j

\* A payment is reported to the PA at most once.
ReportedOnce == reported + queue["paid212"] <= 1

\* A transmission comes to an end.
TransmittingEnds == row.status = "transmitting" ~> row.status # "transmitting"
=============================================================================
