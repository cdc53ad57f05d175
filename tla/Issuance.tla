------------------------------ MODULE Issuance ------------------------------
(***************************************************************************)
(* From draft to validated: the requests that edit, delete and validate a  *)
(* draft (apps/billing/services/invoice_service.py), the Stripe event that *)
(* records a payment on an invoice not yet issued                          *)
(* (apps/payments/services.py), and the Celery tasks that render a draft   *)
(* and generate the Factur-X document (apps/factpulse/tasks.py).           *)
(***************************************************************************)
EXTENDS InvoiceRow

CONSTANTS
  MaxVersion,  \* bound: edits are refused beyond this version
  MaxNumber    \* bound: no validation starts once this many numbers are drawn

ASSUME IssuanceAssumption == MaxVersion \in Nat /\ MaxNumber \in Nat

IssuanceLabels ==
  {"edit", "delete", "validate", "send_generate", "record_payment",
   "preview", "generate", "generated", "signal"}

----------------------------------------------------------------------------
(* Requests on a draft.                                                    *)

\* Mutation: the invoice is rebuilt without its number.
EditedFromScratch(r) == [r EXCEPT !.version = @ + 1, !.pdf = "none", !.number = 0]

\* What an edit leaves: the data is rebuilt, the version counts it, and the
\* stored PDF no longer matches.
Edited(r) == [r EXCEPT !.version = @ + 1, !.pdf = "none"]

\* Mutation: any invoice may be edited.
OpenEditAnyStatus(w) == row.version < MaxVersion /\ Open(w, "edit")

\* _validate_editable compares the client's version with the one just read.
OpenEdit(w) ==
  /\ IsEditable(row)
  /\ row.version < MaxVersion
  /\ Open(w, "edit")

UpdateInvoice(w) ==
  /\ pc[w] = "edit"
  /\ Save(w, Edited(copy[w]))
  /\ Finish(w)
  /\ UNCHANGED <<queue, drawn, received>>

OpenDelete(w) ==
  /\ IsDeletable(row)
  /\ Open(w, "delete")

\* soft_delete saves deleted_at alone.
SoftDelete(w) ==
  /\ pc[w] = "delete"
  /\ SaveFields(w, [row EXCEPT !.deleted = TRUE], {"status", "number"})
  /\ Finish(w)
  /\ UNCHANGED <<queue, drawn, received>>

\* The IBAN and VAT checks of validate_invoice refuse without a trace.
OpenValidate(w) ==
  /\ CanTransition(row.status, "processing")
  /\ drawn < MaxNumber
  /\ Open(w, "validate")

\* Mutations: the draft is validated without a number; with a new one each time.
NoNewNumber(r) == r.number
AlwaysNewNumber(r) == drawn + 1

\* The number validate_invoice saves: the one the object holds, or the next.
NumberFor(r) == IF r.number = 0 THEN drawn + 1 ELSE r.number

\* The transaction of validate_invoice: draw a number unless the object has
\* one, mark e-reporting pending, save the whole object as processing.
ValidateInvoice(w) ==
  /\ pc[w] = "validate"
  /\ drawn' = IF copy[w].number = 0 THEN drawn + 1 ELSE drawn
  /\ Save(w, [copy[w] EXCEPT
                !.status = "processing",
                !.number = NumberFor(copy[w]),
                !.ereporting = IF EreportingFlow THEN "pending" ELSE @])
  /\ SendNext(w, "send_generate")
  /\ UNCHANGED <<queue, received>>

SendGenerate(w) == Send(w, "send_generate", "generate")

----------------------------------------------------------------------------
(* invoice.paid from Stripe, before the invoice is issued.                 *)

OpenRecordPayment(w) ==
  /\ "record_payment" \in Handlers
  /\ row.status \in {"draft", "processing"}
  /\ ~row.deleted
  /\ Read(w, "record_payment")
  /\ UNCHANGED <<row, queue, drawn, received, clean>>

\* Saves the payment fields alone.
RecordPayment(w) ==
  /\ pc[w] = "record_payment"
  /\ SaveFields(w, [row EXCEPT !.payment = TRUE], {"status", "payment"})
  /\ received' = TRUE
  /\ Finish(w)
  /\ UNCHANGED <<queue, drawn>>

----------------------------------------------------------------------------
(* The preview of a draft.                                                 *)

\* GET .../pdf/ on a draft that has no document asks for one; a client that
\* polls asks again.
RequestPreview ==
  /\ "preview" \in Handlers
  /\ row.status = "draft" /\ row.pdf = "none" /\ ~row.deleted
  /\ queue["preview"] < MaxQueued
  /\ queue' = [queue EXCEPT !["preview"] = @ + 1]
  /\ UNCHANGED <<row, pc, copy, drawn, received, clean>>

\* generate_source_pdf looks at no status.
TakePreview(w) == Take(w, "preview", "preview")

\* pdf_file.save(save=True) saves the whole object.
GenerateSourcePdf(w) ==
  /\ pc[w] = "preview"
  /\ Save(w, [copy[w] EXCEPT !.pdf = "source"])
  /\ Finish(w)
  /\ UNCHANGED <<queue, drawn, received>>

----------------------------------------------------------------------------
(* generate_and_validate_invoice.                                          *)

TakeGenerate(w) ==
  \/ row.status = "processing" /\ Take(w, "generate", "generate")
  \/ row.status # "processing" /\ Drop("generate")

\* FactPulse returned the document: the whole object is saved as validated.
GenerateSucceeds(w) ==
  LET r == [copy[w] EXCEPT !.status = "validated", !.pdf = "facturx"] IN
  /\ pc[w] = "generate"
  /\ Save(w, r)
  /\ copy' = [copy EXCEPT ![w] = r]
  /\ pc' = [pc EXCEPT ![w] = "generated"]
  /\ UNCHANGED <<queue, drawn, received>>

\* Mutations: the error is only logged; the invoice is taken for rejected.
GenerateFailsSilently(w) ==
  /\ "rejected" \in Faults
  /\ pc[w] = "generate"
  /\ Finish(w)
  /\ UNCHANGED <<row, queue, drawn, received, clean>>

GenerateFailsAsRejected(w) ==
  /\ "rejected" \in Faults
  /\ pc[w] = "generate"
  /\ Save(w, [copy[w] EXCEPT !.status = "rejected"])
  /\ Finish(w)
  /\ UNCHANGED <<queue, drawn, received>>

\* _handle_factpulse_error: the whole object is saved as a draft.
GenerateFails(w) ==
  /\ "rejected" \in Faults
  /\ pc[w] = "generate"
  /\ Save(w, [copy[w] EXCEPT !.status = "draft"])
  /\ Finish(w)
  /\ UNCHANGED <<queue, drawn, received>>

\* Mutation: the e-reporting task is sent twice.
AfterGenerationTwice(w) ==
  /\ pc[w] = "generated"
  /\ queue' = [queue EXCEPT !["ereporting"] = @ + 2]
  /\ Finish(w)
  /\ UNCHANGED <<row, drawn, received, clean>>

\* The e-reporting message of an invoice that is not domestic B2B.
WithEreporting ==
  IF EreportingFlow THEN [queue EXCEPT !["ereporting"] = @ + 1] ELSE queue

\* The rest of the task: audit log, auto-cancel of the original of a credit
\* note, webhook, e-reporting message, signal.
AfterGeneration(w) ==
  /\ pc[w] = "generated"
  /\ queue' = WithEreporting
  /\ Finish(w)
  /\ UNCHANGED <<row, drawn, received, clean>>

\* The task that is going to fail in the signal has sent its message before.
SendEreporting(w) ==
  /\ "post_save" \in Faults /\ EreportingFlow
  /\ pc[w] = "generated"
  /\ queue' = WithEreporting
  /\ pc' = [pc EXCEPT ![w] = "signal"]
  /\ UNCHANGED <<row, copy, drawn, received, clean>>

\* Any exception in that rest, before or after the message, is handled like a
\* failed generation.
AfterGenerationFails(w) ==
  /\ "post_save" \in Faults
  /\ pc[w] \in {"generated", "signal"}
  /\ Save(w, [copy[w] EXCEPT !.status = "draft"])
  /\ Finish(w)
  /\ UNCHANGED <<queue, drawn, received>>

----------------------------------------------------------------------------

Generate(w) ==
  GenerateSucceeds(w) \/ GenerateFails(w)

IssuanceRequest(w) ==
  \/ OpenEdit(w) \/ UpdateInvoice(w)
  \/ OpenDelete(w) \/ SoftDelete(w)
  \/ OpenValidate(w) \/ ValidateInvoice(w) \/ SendGenerate(w)
  \/ OpenRecordPayment(w) \/ RecordPayment(w)

IssuanceTask(w) ==
  \/ TakePreview(w) \/ GenerateSourcePdf(w)
  \/ TakeGenerate(w) \/ Generate(w)
  \/ AfterGeneration(w) \/ SendEreporting(w) \/ AfterGenerationFails(w)

IssuanceNext ==
  \/ \E w \in Workers : IssuanceRequest(w) \/ IssuanceTask(w) \/ Crash(w)
  \/ RequestPreview

IssuanceSpec == RowInit /\ [][IssuanceNext]_rowVars

----------------------------------------------------------------------------
(* Properties.                                                             *)

TypeOK ==
  /\ row \in Row
  /\ pc \in [Workers -> {"idle"} \union IssuanceLabels]
  /\ copy \in [Workers -> Row]
  /\ queue \in [Tasks -> Nat]
  /\ drawn \in Nat
  /\ received \in BOOLEAN
  /\ clean \in BOOLEAN

\* The documents an issued invoice may have.  A late preview is the only thing
\* that ever puts its source PDF there (views.py pdf: "validated+: returns
\* Factur-X PDF").
Documents == {"facturx"} \union (IF "preview" \in Handlers THEN {"source"} ELSE {})

Complete(r) ==
  /\ r.status # "draft" => r.number # 0
  /\ r.status \in Issued => r.pdf \in Documents

\* However the handlers interleave, an invoice beyond draft has a number and an
\* issued one a document: every whole-object save writes a consistent invoice,
\* stale or not.
IssuedComplete == Complete(row)

\* No handler ever saves an object that another one has changed in the
\* database: the statuses serve as locks, "processing" keeping the requests
\* out while the generation task works.
NoLostUpdate == clean

\* A number is drawn once per invoice and stays on it: the sequence has no
\* hole, through failed generations, retries and crashes.
NumbersWithoutHole == drawn = row.number

\* The status moves along the table of state_machine.py only.
LegalTransitions ==
  [][row'.status # row.status => CanTransition(row.status, row'.status)]_rowVars

\* "Cannot delete an invoice that has a number." (soft_delete), and what is
\* deleted stays as it was.
DeletedForGood ==
  /\ row.deleted => row.status = "draft" /\ row.number = 0
  /\ row.deleted => \A w \in Workers : pc[w] \notin {"validate", "generate"}

\* A recorded payment stays on the invoice (the comment of
\* _handle_invoice_paid: mark_paid() will pick the values up).
PaymentKept == received => row.payment

\* A validation ends, with a validated invoice or a draft to correct.
ProcessingEnds == row.status = "processing" ~> row.status # "processing"
=============================================================================
