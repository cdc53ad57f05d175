----------------------------- MODULE InvoiceRow -----------------------------
(***************************************************************************)
(* One row of the invoice table and the processes that work on it.         *)
(*                                                                         *)
(* The application runs several gunicorn workers and several Celery        *)
(* workers.  A handler reads the row into a Python object, decides on that *)
(* object, sometimes waits for a remote service, and saves.  Nothing locks *)
(* the row between the read and the save (there is no ATOMIC_REQUESTS and  *)
(* no select_for_update on invoices), so every read and every save is a    *)
(* step of its own here.                                                   *)
(*                                                                         *)
(* Invoice.save() writes EVERY column from the object, save(update_fields) *)
(* only the named ones: Save and SaveFields below.                         *)
(***************************************************************************)
EXTENDS Naturals, StateMachine

CONSTANTS
  Workers,        \* gunicorn and Celery workers: each runs one handler at a time
  Handlers,       \* the handlers that are in use (names below)
  Faults,         \* the faults that may happen (names below)
  Serialised,     \* TRUE if user requests on the invoice never overlap
  EreportingFlow, \* the invoice's flow is not domestic B2B (flow_detector)
  MaxQueued       \* bound: no request starts while a task has this many messages

\* "ui" lets the portal's routes in, which act on soft-deleted rows too.
AllHandlers ==
  {"edit", "delete", "validate", "preview", "record_payment",
   "transmit", "mark_paid", "online_payment", "auto_cancel", "poll",
   "ereporting", "ui"}

\* crash:      a worker dies, or the broker refuses a message
\* post_save:  the generation task fails after it saved "validated"
\* rejected:   FactPulse answers with an error, or not at all
\* timed_out:  FactPulse accepts a request and the answer is lost
\* no_flow_id: the PA takes a flow and answers without its id
\* nack:       the PA acknowledges a flow with an error
AllFaults == {"crash", "post_save", "rejected", "timed_out", "no_flow_id", "nack"}

Tasks == {"preview", "generate", "transmit", "paid212", "ereporting"}

ASSUME RowAssumption ==
  /\ Handlers \subseteq AllHandlers
  /\ Faults \subseteq AllFaults
  /\ Serialised \in BOOLEAN
  /\ EreportingFlow \in BOOLEAN
  /\ MaxQueued \in Nat \ {0}

VARIABLES
  row,    \* the row as committed
  pc,     \* where each worker is in its handler
  copy,   \* the object each worker holds: the row as it read it
  queue,  \* messages waiting in the broker, per task
  drawn,  \* numbers this invoice has consumed, its own or an imported one
  received, \* history: a payment has been recorded on this invoice
  clean   \* history: no save has been made from a stale copy

rowVars == <<row, pc, copy, queue, drawn, received, clean>>

----------------------------------------------------------------------------
(* The row.  number 0 is the empty string, flow 0 an empty                 *)
(* pdp_transmission_id; payment says whether payment_date is set.          *)

Row ==
  [status : Status, number : Nat, version : Nat, payment : BOOLEAN,
   pdf : {"none", "source", "facturx"}, flow : Nat,
   ereporting : {"none", "pending", "submitted", "error"},
   deleted : BOOLEAN]

\* create_invoice: a draft, numbered from the start when the number is
\* assigned outside (an invoice imported from Stripe).
NewRow(n) ==
  [status |-> "draft", number |-> n, version |-> 1, payment |-> FALSE,
   pdf |-> "none", flow |-> 0, ereporting |-> "none", deleted |-> FALSE]

\* What an idle worker's copy is set to, so that forgotten objects do not
\* tell states apart.
Forgotten == NewRow(0)

IsEditable(r) == r.status = "draft"

\* Mutation: the number is not looked at.
IsAnyDraft(r) == r.status = "draft"

IsDeletable(r) == r.status = "draft" /\ r.number = 0

\* The routes of the API exclude soft-deleted rows, those of the portal do not.
Reachable(r) == ~r.deleted \/ "ui" \in Handlers

----------------------------------------------------------------------------
(* Workers.                                                                *)

\* Labels of a user request that has read the row and not yet saved it.
RequestLabels == {"edit", "delete", "validate", "transmit", "mark_paid"}

SendLabels == {"send_generate", "send_transmit", "send_paid212"}

\* The request or task starts: the row is fetched into the worker's object.
Read(w, label) ==
  /\ pc[w] = "idle"
  /\ pc' = [pc EXCEPT ![w] = label]
  /\ copy' = [copy EXCEPT ![w] = row]

\* A user request that its guards let in.  A refused request changes nothing.
Open(w, label) ==
  /\ label \in Handlers
  /\ Serialised => \A v \in Workers : pc[v] \notin RequestLabels
  /\ Reachable(row)
  /\ \A t \in Tasks : queue[t] < MaxQueued
  /\ Read(w, label)
  /\ UNCHANGED <<row, queue, drawn, received, clean>>

\* The next message of task t is delivered (Celery acknowledges it first, so
\* a message is delivered once and is lost with its worker).
Take(w, t, label) ==
  /\ queue[t] > 0
  /\ queue' = [queue EXCEPT ![t] = @ - 1]
  /\ Read(w, label)
  /\ UNCHANGED <<row, drawn, received, clean>>

\* A delivered message whose handler returns at its first test.
Drop(t) ==
  /\ queue[t] > 0
  /\ queue' = [queue EXCEPT ![t] = @ - 1]
  /\ UNCHANGED <<row, pc, copy, drawn, received, clean>>

Finish(w) ==
  /\ pc' = [pc EXCEPT ![w] = "idle"]
  /\ copy' = [copy EXCEPT ![w] = Forgotten]

\* save(update_fields): the handler writes, or has decided on, the columns
\* cols of its object.
SaveFields(w, r, cols) ==
  /\ row' = r
  /\ clean' = (clean /\ \A c \in cols : copy[w][c] = row[c])

\* save(): every column.
Save(w, r) ==
  /\ row' = r
  /\ clean' = (clean /\ copy[w] = row)

\* The row is committed; what is left of the request is to send its task.
SendNext(w, label) ==
  /\ pc' = [pc EXCEPT ![w] = label]
  /\ copy' = [copy EXCEPT ![w] = Forgotten]

\* task.delay(): the message goes to the broker, after the row was committed.
Send(w, label, t) ==
  /\ pc[w] = label
  /\ queue' = [queue EXCEPT ![t] = @ + 1]
  /\ Finish(w)
  /\ UNCHANGED <<row, drawn, received, clean>>

\* The worker is killed, or an exception ends the handler: what it has
\* committed stays, what it had still to do is lost.
Crash(w) ==
  /\ "crash" \in Faults
  /\ pc[w] # "idle"
  /\ Finish(w)
  /\ UNCHANGED <<row, queue, drawn, received, clean>>

RowInit ==
  /\ \E n \in {0, 1} : row = NewRow(n) /\ drawn = n
  /\ pc = [w \in Workers |-> "idle"]
  /\ copy = [w \in Workers |-> Forgotten]
  /\ queue = [t \in Tasks |-> 0]
  /\ received = FALSE
  /\ clean = TRUE
=============================================================================
