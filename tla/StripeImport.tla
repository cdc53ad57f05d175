---------------------------- MODULE StripeImport ----------------------------
(***************************************************************************)
(* Import of the documents of a Stripe account as drafts                   *)
(* (apps/payments/services.py, apps/payments/catchup.py,                   *)
(* apps/ui/views/stripe_sync.py): an invoice and a credit note on it.      *)
(* Three importers work side by side: the webhooks, the page where the     *)
(* owner imports by hand, and a nightly job that catches up with what the  *)
(* webhooks missed.  The external identifier of a document is unique in    *)
(* the table of invoices, deleted rows included: it has one row at most.   *)
(***************************************************************************)
EXTENDS Naturals, Sequences

CONSTANTS
  Workers,     \* gunicorn and Celery workers
  Night,       \* the Celery worker that runs the nightly job, among other tasks
  Editors,     \* bound: the workers that save whole invoices
  CatchupDays, \* for how many nights the job sees a document
  NoNotice,    \* what a worker without notification holds
  Reached,     \* bound: the statuses an issued invoice takes
  MaxFailures  \* bound: how many handlers fail or die, or settings are lost

Documents == {"invoice", "credit_note"}

All == Workers \union {Night}

Notices == {"finalized", "paid", "credit_note_created"}

\* An invoice can be paid once validated, transmitted or accepted, not while it
\* is transmitting, nor once rejected, refused or cancelled.
Issued == {"payable", "unpayable", "paid"}

ASSUME ImportAssumption ==
  /\ Night \notin Workers /\ Editors \subseteq Workers \union {Night}
  /\ NoNotice \notin Notices
  /\ Reached \subseteq Issued
  /\ CatchupDays \in Nat /\ MaxFailures \in Nat

VARIABLES
  stripe,   \* the status of each document at Stripe
  age,      \* nights since it was created there
  supplier, \* whether a default supplier is configured
  rows,     \* its row in the table of invoices
  task,     \* per worker: the document it works on, and what it has read
  queue,    \* the documents the nightly job has yet to import
  failures, \* how many handlers have failed or died, or settings were lost
  trouble,  \* history: what happened that the code does not cater for
  sent, log, pc, notice \* see EventLog

Log == INSTANCE EventLog WITH Workers <- All, Ids <- Notices

importVars == <<stripe, age, supplier, rows, task, queue, failures, trouble>>
vars == <<importVars, sent, log, pc, notice>>

NoRow == [status |-> "none", number |-> "none", payment |-> FALSE, linked |-> FALSE]

Live(row) == row.status \in {"draft", "processing"} \union Issued

NoTask == [doc |-> "invoice", final |-> FALSE, copy |-> NoRow]

Init ==
  /\ stripe = [invoice |-> "draft", credit_note |-> "absent"]
  /\ age = [d \in Documents |-> 0]
  /\ supplier = TRUE
  /\ rows = [d \in Documents |-> NoRow]
  /\ task = [w \in All |-> NoTask]
  /\ queue = <<>>
  /\ failures = 0
  /\ trouble = {}
  /\ Log!LogInit

----------------------------------------------------------------------------
(* Stripe.                                                                 *)

Tell(n) == sent' = sent \union {n}

Final(d) == stripe[d] \in {"open", "paid"}

Finalise ==
  /\ stripe["invoice"] = "draft"
  /\ stripe' = [stripe EXCEPT !["invoice"] = "open"]
  /\ Tell("finalized")
  /\ UNCHANGED <<age, supplier, rows, task, queue, failures, trouble, log, pc, notice>>

Pay ==
  /\ stripe["invoice"] = "open"
  /\ stripe' = [stripe EXCEPT !["invoice"] = "paid"]
  /\ Tell("paid")
  /\ UNCHANGED <<age, supplier, rows, task, queue, failures, trouble, log, pc, notice>>

Credit ==
  /\ Final("invoice") /\ stripe["credit_note"] = "absent"
  /\ stripe' = [stripe EXCEPT !["credit_note"] = "open"]
  /\ Tell("credit_note_created")
  /\ UNCHANGED <<age, supplier, rows, task, queue, failures, trouble, log, pc, notice>>

----------------------------------------------------------------------------
(* The import of one document.                                             *)

\* Worker w goes on to label l; it is done with the task at the last one.
Goto(w, l) ==
  /\ pc' = [pc EXCEPT ![w] = l]
  /\ UNCHANGED <<sent, log, notice>>

\* What comes after an import: the log of the webhook, the page, or the next
\* document of the night.
Done(w) ==
  /\ task' = [task EXCEPT ![w] = NoTask]
  /\ Goto(w, IF notice[w] # NoNotice THEN "processed" ELSE "idle")

\* Worker w has read document d at Stripe, when it was final or not.
Fetched(w, d, final) ==
  task' = [task EXCEPT ![w] = [NoTask EXCEPT !.doc = d, !.final = final]]

\* A webhook carries the document it is about.
ReceiveDocument(w, n, d) ==
  /\ Log!LogEvent(w, n, n)
  /\ Fetched(w, d, TRUE)
  /\ UNCHANGED <<stripe, age, supplier, rows, queue, failures, trouble>>

Receive(w) ==
  \/ ReceiveDocument(w, "finalized", "invoice")
  \/ ReceiveDocument(w, "credit_note_created", "credit_note")
  \/ ReceiveDocument(w, "paid", "invoice")

\* The page offers the invoices of the account, drafts included.
ImportByHand(w) ==
  /\ pc[w] = "idle" /\ supplier
  /\ Fetched(w, "invoice", Final("invoice"))
  /\ Goto(w, "import")
  /\ UNCHANGED <<stripe, age, supplier, rows, queue, failures, trouble>>

\* import_stripe_invoice and import_stripe_credit_note: a document that has a row is
\* skipped, and so is a credit note whose invoice has none.
InvoiceImportable == ~Live(rows["invoice"])

CreditNoteImportable == ~Live(rows["credit_note"]) /\ Live(rows["invoice"])

\* invoice.finalized needs a default supplier besides.
Importable(w) ==
  /\ notice[w] = "finalized" => supplier
  /\ IF task[w].doc = "invoice" THEN InvoiceImportable ELSE CreditNoteImportable

ToImport(w) ==
  \/ pc[w] = "import"
  \/ pc[w] = "process" /\ notice[w] # "paid"

\* The row of the document is looked for.
LookUp(w) ==
  /\ ToImport(w)
  /\ IF Importable(w) THEN Goto(w, "insert") /\ UNCHANGED task ELSE Done(w)
  /\ UNCHANGED <<stripe, age, supplier, rows, queue, failures, trouble>>

\* Mutation: the external identifier is unique among the rows not deleted.
FreeUnlessLive(d) == ~Live(rows[d])

\* unique_invoice_external_id_per_org
Free(d) == rows[d] = NoRow

\* create_invoice: the row takes Stripe's number, if it has one by then.  It is
\* refused when there is a row by now, or a deleted one.
Insert(w) ==
  LET d == task[w].doc IN
  /\ pc[w] = "insert" /\ Free(d)
  /\ rows' = [rows EXCEPT ![d] =
       [NoRow EXCEPT !.status = "draft", !.number = IF task[w].final THEN "stripe" ELSE "none"]]
  /\ IF d = "credit_note" THEN Goto(w, "link") /\ UNCHANGED task ELSE Done(w)
  /\ UNCHANGED <<stripe, age, supplier, queue, failures, trouble>>

\* preceding_invoice is saved afterwards.
Link(w) ==
  /\ pc[w] = "link"
  /\ rows' = [rows EXCEPT !["credit_note"].linked = TRUE]
  /\ Done(w)
  /\ UNCHANGED <<stripe, age, supplier, queue, failures, trouble>>

\* The processing of the event, or the run of the night, ends there.
Abandon(w) ==
  /\ task' = [task EXCEPT ![w] = NoTask]
  /\ queue' = IF w = Night THEN <<>> ELSE queue
  /\ Log!Interrupted(w)

\* The row is refused: IntegrityError.
InsertRefused(w) ==
  /\ pc[w] = "insert" /\ ~Free(task[w].doc)
  /\ Abandon(w)
  /\ UNCHANGED <<stripe, age, supplier, rows, failures, trouble>>

----------------------------------------------------------------------------
(* The other events, and the user.                                         *)

\* The payment of the invoice, and its status if it can be paid.
Record(status) ==
  rows' = [rows EXCEPT !["invoice"].payment = TRUE, !["invoice"].status = status]

\* Mutation: the payment of a draft is not recorded.
PaidIfIssued(w) ==
  /\ pc[w] = "process" /\ notice[w] = "paid"
  /\ \/ rows["invoice"].status = "payable" /\ Record("paid") /\ UNCHANGED trouble
     \/ rows["invoice"].status \in {"draft", "processing", "paid"} /\ UNCHANGED <<rows, trouble>>
     \/ rows["invoice"].status = "unpayable" /\ UNCHANGED rows /\ trouble' = trouble \union {"conflict"}
     \/ ~Live(rows["invoice"]) /\ UNCHANGED rows /\ trouble' = trouble \union {"paid_unknown"}
  /\ Done(w)
  /\ UNCHANGED <<stripe, age, supplier, queue, failures>>

\* _handle_invoice_paid: before the invoice is validated the payment is recorded
\* on it, afterwards it is marked as paid.  A ConflictError is swallowed, and
\* without a row there is nothing to do: either way the event counts as processed.
Paid(w) ==
  /\ pc[w] = "process" /\ notice[w] = "paid"
  /\ \/ rows["invoice"].status = "payable" /\ Record("paid") /\ UNCHANGED trouble
     \/ rows["invoice"].status \in {"draft", "processing"}
        /\ Record(rows["invoice"].status) /\ UNCHANGED trouble
     \/ rows["invoice"].status = "paid" /\ UNCHANGED <<rows, trouble>>
     \/ rows["invoice"].status = "unpayable" /\ UNCHANGED rows /\ trouble' = trouble \union {"conflict"}
     \/ ~Live(rows["invoice"]) /\ UNCHANGED rows /\ trouble' = trouble \union {"paid_unknown"}
  /\ Done(w)
  /\ UNCHANGED <<stripe, age, supplier, queue, failures>>

Answer(w) ==
  /\ Log!Processed(w, notice[w])
  /\ UNCHANGED importVars

\* payment_settings: saving the form without a supplier erases it.
SaveSettings ==
  /\ supplier' = ~supplier
  /\ IF supplier
     THEN /\ failures < MaxFailures /\ failures' = failures + 1
          /\ trouble' = trouble \union {"unconfigured"}
     ELSE UNCHANGED <<failures, trouble>>
  /\ UNCHANGED <<stripe, age, rows, task, queue, sent, log, pc, notice>>

Delete(d) ==
  /\ rows[d].status = "draft" /\ rows[d].number = "none"
  /\ rows' = [rows EXCEPT ![d].status = "deleted"]
  /\ UNCHANGED <<stripe, age, supplier, task, queue, failures, trouble,
                 sent, log, pc, notice>>

\* A request or a task reads the row of the invoice, and will save every column
\* of it: the edit of a draft, its resynchronisation (Stripe is asked for its data
\* in between) or its validation, the generation, and what moves an issued
\* invoice on.  The credit note stays a draft here.
OpenRow(w) ==
  /\ pc[w] = "idle" /\ (w = Night => queue = <<>>)
  /\ Live(rows["invoice"])
  /\ task' = [task EXCEPT ![w] = [NoTask EXCEPT !.copy = rows["invoice"]]]
  /\ Goto(w, "save")
  /\ UNCHANGED <<stripe, age, supplier, rows, queue, failures, trouble>>

\* The statuses such a handler may save on a row it has read in status s.  A
\* generation that fails gives the draft back.
Follows(s) ==
  CASE s = "draft" -> {"draft", "processing"}
    [] s = "processing" -> {"draft"} \union (Reached \intersect {"payable"})
    [] OTHER -> Reached

\* A row as saved: validated without number it draws one from a sequence of the
\* supplier, and mark_paid fills in the payment.
Saved(row, s) ==
  [row EXCEPT !.status = s,
              !.number = IF @ = "none" /\ s = "processing" THEN "own" ELSE @,
              !.payment = @ \/ s = "paid"]

\* Every column is saved as it was read, whatever has become of the row.
SaveRow(w) ==
  /\ pc[w] = "save"
  /\ \E s \in Follows(task[w].copy.status) :
       rows' = [rows EXCEPT !["invoice"] = Saved(task[w].copy, s)]
  /\ trouble' = IF rows["invoice"] # task[w].copy THEN trouble \union {"overwritten"}
                ELSE trouble
  /\ Done(w)
  /\ UNCHANGED <<stripe, age, supplier, queue, failures>>

----------------------------------------------------------------------------
(* The nightly job.                                                        *)

\* Mutation: one night more than the period has.
RecentOneMore(d) == age[d] <= CatchupDays

Recent(d) == age[d] < CatchupDays

\* Mutation: what the webhooks have announced is taken as known.
UnknownToTheLog(d) ==
  rows[d] = NoRow /\ log[IF d = "invoice" THEN "finalized" ELSE "credit_note_created"] = "none"

\* _unknown: no row bears the identifier, be it deleted.
Unknown(d) == rows[d] = NoRow

ToCatchUp(d) == IF Final(d) /\ Recent(d) /\ Unknown(d) THEN <<d>> ELSE <<>>

\* The documents of the last days that are final and unknown, the invoices first.
Missing == ToCatchUp("invoice") \o ToCatchUp("credit_note")

\* _handlers: an account without a default supplier is skipped.
Handlers == supplier

\* Bound: once no document is recent, further nights see nothing.
CatchUp ==
  /\ pc[Night] = "idle" /\ queue = <<>>
  /\ \E d \in Documents : stripe[d] # "absent" /\ Recent(d)
  /\ queue' = IF Handlers THEN Missing ELSE <<>>
  /\ age' = [d \in Documents |-> IF stripe[d] # "absent" /\ Recent(d) THEN age[d] + 1 ELSE age[d]]
  /\ UNCHANGED <<stripe, supplier, rows, task, failures, trouble, sent, log, pc, notice>>

NextDocument ==
  /\ pc[Night] = "idle" /\ queue # <<>>
  /\ Fetched(Night, Head(queue), TRUE)
  /\ queue' = Tail(queue)
  /\ Goto(Night, "import")
  /\ UNCHANGED <<stripe, age, supplier, rows, failures, trouble>>

----------------------------------------------------------------------------
(* Failures.                                                               *)

Harm(w) ==
  trouble' = IF pc[w] = "link" THEN trouble \union {"unlinked"}
             ELSE IF notice[w] = "paid" THEN trouble \union {"paid_unknown"} ELSE trouble

\* An exception, or the death of the worker.
Interrupted(w) ==
  /\ failures < MaxFailures
  /\ pc[w] # "idle"
  /\ failures' = failures + 1
  /\ Harm(w)
  /\ Abandon(w)
  /\ UNCHANGED <<stripe, age, supplier, rows>>

Handle(w) ==
  \/ LookUp(w) \/ Insert(w) \/ InsertRefused(w) \/ Link(w)
  \/ Paid(w) \/ Answer(w) \/ SaveRow(w)

Next ==
  \/ Finalise \/ Pay \/ Credit
  \/ \E w \in Workers : Receive(w) \/ ImportByHand(w)
  \/ \E w \in Editors : OpenRow(w)
  \/ \E w \in All : Handle(w) \/ Interrupted(w)
  \/ SaveSettings
  \/ \E d \in Documents : Delete(d)
  \/ CatchUp \/ NextDocument

\* The handlers go on to their end, and so does the nightly job, which waits in
\* Celery's queue as long as its worker is busy with other tasks.  Nothing says
\* that the webhooks arrive.
Fairness ==
  /\ \A w \in Workers : WF_vars(Handle(w))
  /\ WF_vars(Handle(Night) \/ NextDocument)
  /\ SF_vars(CatchUp)

Spec == Init /\ [][Next]_vars /\ Fairness

----------------------------------------------------------------------------
(* Properties.                                                             *)

TypeOK ==
  /\ stripe \in [Documents -> {"absent", "draft", "open", "paid"}]
  /\ age \in [Documents -> 0..CatchupDays]
  /\ supplier \in BOOLEAN
  /\ rows \in [Documents -> [status : {"none", "draft", "processing", "deleted"} \union Issued,
                             number : {"none", "stripe", "own"},
                             payment : BOOLEAN, linked : BOOLEAN]]
  /\ \A w \in All : task[w].doc \in Documents /\ task[w].final \in BOOLEAN
  /\ queue \in Seq(Documents)
  /\ failures \in 0..MaxFailures
  /\ trouble \subseteq {"paid_unknown", "conflict", "unconfigured", "overwritten", "unlinked"}
  /\ Log!LogTypeOK({"import", "insert", "link", "save"})

\* A document that is final on its first day is imported, and a credit note
\* linked to its invoice, as long as a supplier stays configured and fewer
\* handlers fail than the job has nights, whether its webhook is lost, fails or
\* meets the other importers.  A credit note waits for its invoice, which
\* must not be deleted.
EventuallyImported ==
  \A d \in Documents :
    (Final(d) /\ age[d] = 0 /\ (d = "credit_note" => Live(rows["invoice"])))
    ~> \/ rows[d] # NoRow /\ (d = "credit_note" => rows[d].linked)
       \/ rows["invoice"].status = "deleted"
       \/ trouble \intersect {"unconfigured", "unlinked"} # {}

\* No importer brings back a draft that was deleted ("including soft-deleted
\* drafts - are left alone", catchup.py), unless a save of the whole row, read
\* before the deletion, comes after it.
DeletedLeftAlone ==
  [][\A d \in Documents : rows[d].status = "deleted" /\ "overwritten" \notin trouble'
                          => rows'[d] = rows[d]]_vars

\* Once Stripe's payment is processed the row of the invoice shows it, in whatever
\* status the invoice was, unless the event found no row, found it in a status
\* that cannot be paid, or a save of the whole row overlapped with it.
PaymentKnown ==
  log["paid"] = "processed" /\ trouble \intersect {"paid_unknown", "conflict", "overwritten"} = {}
  => rows["invoice"].payment
=============================================================================
