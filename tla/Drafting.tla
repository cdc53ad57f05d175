------------------------------ MODULE Drafting ------------------------------
(***************************************************************************)
(* What an invoice and its credit notes say, from draft to issued          *)
(* (apps/billing/services/invoice_service.py): a payload is filled in, the *)
(* draft is edited or rebuilt from Stripe, validation adds the number, the *)
(* payment and the flow, a failed generation gives the draft back, and a   *)
(* credit note starts as a copy.  The handlers take turns here: how they   *)
(* interleave is the matter of Issuance.                                   *)
(***************************************************************************)
EXTENDS StripeMapper, FlowDetection

CONSTANTS
  Documents,   \* the invoice and its credit notes
  Nothing,     \* no document
  Suppliers,   \* what the profile of the supplier says: default exemption and notes
  LineLists,   \* what payloads have for lines, products resolved
  Notes,       \* the notes that payloads and suppliers bring
  NoteSets,    \* what payloads have for notes
  StatedTotals, \* what a client of the API states for totals
  Breakdowns,  \* and for the VAT breakdown
  Recipients,  \* the customers: a type, "" if no record is linked, and who they are
  StripeInvoices,    \* Stripe's invoices, without discounts or taxes included
  StripeCreditNotes, \* and its credit notes
  MaxEdits     \* bound: how many edits there are

BarNotes == {Bar(BarValue[f]) : f \in Flows}

Reference == [type : {InvoiceType, CreditNoteType}, preceding : BOOLEAN \union {Absent}]

StatedReference == [type : {InvoiceType, CreditNoteType, Absent}, preceding : BOOLEAN \union {Absent}]

\* An amount due may be left out.
TotalsRecord ==
  [net : Int, vat : Int, gross : Int, prepayment : Nat, due : Int \union {Absent}]

BreakdownLine ==
  [rate : Rate, category : Categories, base : Int, vat : Int, reason : Reasons \union {Absent}]

\* BR-CO-16, where there is an amount due.
Balances(totals) == totals.due # Absent => totals.due = totals.gross - totals.prepayment

\* The service takes what a client states as it is.
ASSUME DraftingAssumption ==
  /\ Nothing \notin Documents
  /\ Absent \notin StatedReference
  /\ \A notes \in SUBSET (Notes \union BarNotes) : notes # Absent
  /\ \A n \in Notes : n.code # "BAR"  \* the service takes one that is there as it is
  /\ Suppliers \subseteq [exemption : Reasons \union {Absent}, notes : SUBSET Notes]
  /\ LineLists \subseteq Seq(StatedLine)
  /\ NoteSets \subseteq {Absent} \union SUBSET Notes
  /\ StatedTotals \subseteq TotalsRecord /\ \A t \in StatedTotals : Balances(t)
  /\ Breakdowns \subseteq SUBSET BreakdownLine
  /\ Recipients \subseteq [type : CustomerTypes \union {""}, who : Identities]
  /\ StripeInvoices \subseteq StripeInvoice
  /\ \A i \in StripeInvoices :
       /\ i.subtotal = SumFunction([k \in DOMAIN i.items |-> i.items[k].amount])
       /\ i.total = i.subtotal + i.tax
  /\ StripeCreditNotes \subseteq StripeCreditNote
  /\ \A n \in StripeCreditNotes :
       n.total - n.tax = SumFunction([k \in DOMAIN n.items |-> CreditedNet(n.items[k])])
  /\ MaxEdits \in Nat

VARIABLES
  doc,        \* the documents
  supplier,   \* the profile of the supplier
  edits,      \* how many edits there have been
  turned,     \* history: a customer has changed since a flow was detected
  restamped,  \* history: the supplier's exemption has changed
  late        \* history: credit notes whose task failed after it had saved them

vars == <<doc, supplier, edits, turned, restamped, late>>

----------------------------------------------------------------------------

\* enrich_customer_data: a customer whose type nobody chose gets the likely one.
Saved(c) == IF c.type = "" THEN [c EXCEPT !.type = SuggestCustomerType(c.who)] ELSE c

Records == {Saved(c) : c \in Recipients}

Customers == Recipients \union Records

Data ==
  [lines : Seq(FilledLine),
   totals : TotalsRecord,
   vatLines : SUBSET BreakdownLine,
   references : Reference,
   notes : {Absent} \union SUBSET (Notes \union BarNotes)]

\* external: it comes from Stripe.  given: history, which computed parts were given
\* with the lines by a form or by Stripe, or "stated" by a client of the API.
\* named: history, it named its invoice when it was made, and no edit has said
\* otherwise.
Document ==
  [status : {"draft", "processing", "validated", "transmitted", "cancelled"},
   numbered : BOOLEAN, preceding : Documents \union {Nothing}, customer : Customers,
   flow : Flows \union {""}, payment : Nat, external : BOOLEAN, named : BOOLEAN,
   given : SUBSET {"totals", "vatLines", "stated"}, data : Data]

NoDocument == [status |-> "none"]

Exists(d) == doc[d].status # "none"

Stated(lines, totals, vatLines, notes) ==
  [lines |-> lines, totals |-> totals, vatLines |-> vatLines, notes |-> notes,
   references |-> Absent]

References(type, preceding) == [type |-> type, preceding |-> preceding]

\* The totals and the breakdown that a form sends were computed in the browser.
FormTotals(lines) == TotalsOf(EnrichLines(lines, Absent))

\* stripe_invoice_to_payload: Stripe's totals, and a breakdown that is missing.
StripeData(invoice) ==
  [Stated(MapItems(invoice.items), InvoiceTotals(invoice), Absent, Absent) EXCEPT
     !.references = References(InvoiceType, Absent)]

\* stripe_credit_note_to_payload: the invoice is named if it has a number.
CreditNoteData(note, original) ==
  [Stated(MapCreditedItems(note.items, original.data.lines), CreditNoteTotals(note), Absent, Absent)
     EXCEPT !.references = References(CreditNoteType, IF original.numbered THEN TRUE ELSE Absent)]

\* A client of the API states what it likes of what is computed, or leaves it out;
\* the form sends all of it.
PayloadData ==
  {Stated(lines, FormTotals(lines), VatLines(EnrichLines(lines, Absent)), notes) :
     lines \in LineLists, notes \in NoteSets}
  \union
  {Stated(lines, totals, vatLines, notes) :
     lines \in LineLists, totals \in StatedTotals \union {Absent},
     vatLines \in Breakdowns \union {Absent}, notes \in NoteSets}

Given(data) ==
  {f \in {"totals", "vatLines"} : data[f] # Absent}
  \union {f \in {"stated"} : data.totals \in StatedTotals}

Init ==
  /\ doc = [d \in Documents |-> NoDocument]
  /\ supplier \in Suppliers
  /\ edits = 0 /\ turned = FALSE /\ restamped = FALSE /\ late = {}

Put(d, r) == doc' = [doc EXCEPT ![d] = r]

Counted == edits < MaxEdits /\ edits' = edits + 1

\* create_invoice
Draft(data, c, numbered, external) ==
  [status |-> "draft", numbered |-> numbered, preceding |-> Nothing, customer |-> c,
   flow |-> "", payment |-> 0, external |-> external, named |-> FALSE,
   given |-> Given(data), data |-> Enrich(data, supplier)]

First == \A o \in Documents : ~Exists(o)

Create(d, data, c) ==
  /\ First
  /\ Put(d, Draft(data, c, FALSE, FALSE))
  /\ UNCHANGED <<supplier, edits, turned, restamped, late>>

\* import_stripe_invoice: Stripe has numbered it, unless it is a draft there.
ImportInvoice(d, invoice, c) ==
  /\ First
  /\ \E numbered \in BOOLEAN : Put(d, Draft(StripeData(invoice), c, numbered, TRUE))
  /\ UNCHANGED <<supplier, edits, turned, restamped, late>>

\* import_stripe_credit_note, on the invoice as it is by now.
ImportCreditNote(d, n, note) ==
  /\ Exists(d) /\ doc[d].external /\ doc[d].preceding = Nothing
  /\ ~Exists(n)
  /\ Put(n, [Draft(CreditNoteData(note, doc[d]), doc[d].customer, TRUE, TRUE)
               EXCEPT !.preceding = d, !.named = doc[d].numbered])
  /\ UNCHANGED <<supplier, edits, turned, restamped, late>>

----------------------------------------------------------------------------
(* Edits of a draft.                                                       *)

\* Mutation: the breakdown is kept.
WithLinesOnly(data, lines) == [data EXCEPT !.lines = lines, !.totals = Absent]

\* New lines: the totals and the breakdown are computed again, even those that
\* come with the lines.
WithLines(data, lines) ==
  [data EXCEPT !.lines = lines, !.totals = Absent, !.vatLines = Absent]

\* Mutation: the references of the payload replace the old ones.
WithNewReferences(r, type, preceding) == [type |-> type, preceding |-> preceding]

\* New references that have no BT-25 and BT-26 keep those of a credit note, and
\* nothing else.
WithReferences(r, type, preceding) ==
  [type |-> type,
   preceding |-> IF preceding = Absent /\ r.preceding # Nothing
                 THEN r.data.references.preceding ELSE preceding]

\* Mutation: an edit has the flow detected again.
EditedAnew(r, data) == [r EXCEPT !.data = data, !.flow = ""]

Edited(r, data) == [r EXCEPT !.data = data]

\* update_invoice with lines: from the API or from the form.
UpdateLines(d, lines) ==
  /\ doc[d].status = "draft" /\ Counted
  /\ Put(d, [Edited(doc[d], Enrich(WithLines(doc[d].data, lines), supplier))
               EXCEPT !.given = {}])
  /\ UNCHANGED <<supplier, turned, restamped, late>>

\* With totals or a breakdown but no lines: they replace those there are.
UpdateTotals(d, totals) ==
  /\ doc[d].status = "draft" /\ Counted
  /\ Put(d, [Edited(doc[d], Enrich([doc[d].data EXCEPT !.totals = totals], supplier))
               EXCEPT !.given = (@ \ {"totals"}) \union {"stated"}])
  /\ UNCHANGED <<supplier, turned, restamped, late>>

UpdateVatLines(d, vatLines) ==
  /\ doc[d].status = "draft" /\ Counted
  /\ Put(d, [Edited(doc[d], Enrich([doc[d].data EXCEPT !.vatLines = vatLines], supplier))
               EXCEPT !.given = @ \union {"vatLines"}])
  /\ UNCHANGED <<supplier, turned, restamped, late>>

\* With references, which may leave out the type, and may name an invoice or
\* none: the rest of the data is filled in again.
UpdateReferences(d, type, preceding) ==
  /\ doc[d].status = "draft" /\ Counted
  /\ LET references == WithReferences(doc[d], type, preceding) IN
     Put(d, [Edited(doc[d], Enrich([doc[d].data EXCEPT !.references = references], supplier))
               EXCEPT !.named = @ /\ preceding # FALSE])
  /\ UNCHANGED <<supplier, turned, restamped, late>>

\* With notes.
UpdateNotes(d, notes) ==
  /\ doc[d].status = "draft" /\ Counted /\ notes # Absent
  /\ Put(d, Edited(doc[d], Enrich([doc[d].data EXCEPT !.notes = notes], supplier)))
  /\ UNCHANGED <<supplier, turned, restamped, late>>

\* History: was a flow detected for a customer who is another one now?
Turn == turned' = (turned \/ \E d \in Documents : Exists(d) /\ doc[d].flow # "")

\* With another customer.
UpdateCustomer(d, c) ==
  /\ doc[d].status = "draft" /\ Counted /\ c # doc[d].customer
  /\ Put(d, [Edited(doc[d], doc[d].data) EXCEPT !.customer = c])
  /\ Turn
  /\ UNCHANGED <<supplier, restamped, late>>

\* replace_draft_data: the draft is rebuilt from Stripe's invoice.
Resync(d, invoice) ==
  /\ doc[d].status = "draft" /\ doc[d].external /\ doc[d].preceding = Nothing /\ Counted
  /\ Put(d, [Edited(doc[d], Enrich(StripeData(invoice), supplier)) EXCEPT !.given = {"totals"}])
  /\ UNCHANGED <<supplier, turned, restamped, late>>

----------------------------------------------------------------------------
(* Edits of the records.                                                   *)

\* The invoices link the record, the data of those without one stays.
EditCustomer(c) ==
  /\ Counted
  /\ doc' = [d \in Documents |->
              IF Exists(d) /\ doc[d].customer.type # "" THEN [doc[d] EXCEPT !.customer = c] ELSE doc[d]]
  /\ Turn
  /\ UNCHANGED <<supplier, restamped, late>>

\* The exemption is a default for lines to come: what it has stamped stays.
EditSupplier(s) ==
  /\ Counted
  /\ supplier' = s
  /\ restamped' = (restamped \/ s.exemption # supplier.exemption)
  /\ UNCHANGED <<doc, turned, late>>

\* invoice.paid from Stripe, before the invoice is issued.
RecordPayment(d) ==
  /\ doc[d].status \in {"draft", "processing"} /\ doc[d].payment = 0
  /\ doc[d].external /\ doc[d].preceding = Nothing
  /\ \E i \in StripeInvoices : Put(d, [doc[d] EXCEPT !.payment = i.total])
  /\ UNCHANGED <<supplier, edits, turned, restamped, late>>

----------------------------------------------------------------------------
(* Issuance.                                                               *)

Validate(d) ==
  LET r == doc[d]
      flow == IF r.flow # "" THEN r.flow ELSE DetectFlow(r.customer.type, r.customer.who)
  IN
  /\ r.status = "draft"
  /\ Put(d, [r EXCEPT !.status = "processing", !.numbered = TRUE, !.flow = flow,
                      !.data = WithBar(WithPrepayment(@, r.payment), BarValue[flow])])
  /\ UNCHANGED <<supplier, edits, turned, restamped, late>>

\* check_auto_cancel: totals equal to the cent.
CancelsInFull(n, o) == doc[n].data.totals.gross = doc[o].data.totals.gross

\* Whether the validation of n cancels the invoice it credits.  (One that is paid
\* is cancelled as well: what is paid was transmitted, in Transmission.)
Cancels(n) ==
  /\ doc[n].preceding # Nothing
  /\ doc[doc[n].preceding].status = "validated"
  /\ CancelsInFull(n, doc[n].preceding)

WithCancelled(n) ==
  IF Cancels(n) THEN [doc EXCEPT ![doc[n].preceding].status = "cancelled"] ELSE doc

\* generate_and_validate_invoice, and the auto-cancel that follows.
Generate(d) ==
  /\ doc[d].status = "processing"
  /\ doc' = [WithCancelled(d) EXCEPT ![d].status = "validated"]
  /\ UNCHANGED <<supplier, edits, turned, restamped, late>>

GenerateFails(d) ==
  /\ doc[d].status = "processing"
  /\ Put(d, [doc[d] EXCEPT !.status = "draft"])
  /\ UNCHANGED <<supplier, edits, turned, restamped, late>>

\* An exception after the auto-cancel is taken for a failed generation.
GenerateFailsLate(d) ==
  /\ doc[d].status = "processing"
  /\ doc' = [WithCancelled(d) EXCEPT ![d].status = "draft"]
  /\ late' = late \union {d}
  /\ UNCHANGED <<supplier, edits, turned, restamped>>

Transmit(d) ==
  /\ doc[d].status = "validated"
  /\ Put(d, [doc[d] EXCEPT !.status = "transmitted"])
  /\ UNCHANGED <<supplier, edits, turned, restamped, late>>

\* cancel_invoice: a copy of the data, with the number of the invoice.
CancelInvoice(d, n) ==
  /\ doc[d].status \in {"validated", "transmitted"}
  /\ ~Exists(n)
  /\ Put(n, [status |-> "draft", numbered |-> FALSE, preceding |-> d, customer |-> doc[d].customer,
             flow |-> "", payment |-> 0, external |-> FALSE, named |-> TRUE,
             given |-> doc[d].given,
             data |-> [doc[d].data EXCEPT !.references = References(CreditNoteType, TRUE)]])
  /\ UNCHANGED <<supplier, edits, turned, restamped, late>>

Next ==
  \/ \E d \in Documents :
       \/ \E data \in PayloadData, c \in Customers : Create(d, data, c)
       \/ \E i \in StripeInvoices : Resync(d, i) \/ \E c \in Customers : ImportInvoice(d, i, c)
       \/ \E n \in Documents, note \in StripeCreditNotes : ImportCreditNote(d, n, note)
       \/ \E lines \in LineLists : UpdateLines(d, lines)
       \/ \E t \in StatedTotals : UpdateTotals(d, t)
       \/ \E v \in Breakdowns : UpdateVatLines(d, v)
       \/ \E r \in StatedReference : UpdateReferences(d, r.type, r.preceding)
       \/ \E notes \in NoteSets : UpdateNotes(d, notes)
       \/ \E c \in Customers : UpdateCustomer(d, c)
       \/ RecordPayment(d) \/ Validate(d) \/ Transmit(d)
       \/ Generate(d) \/ GenerateFails(d) \/ GenerateFailsLate(d)
       \/ \E n \in Documents : CancelInvoice(d, n)
  \/ \E c \in Records : EditCustomer(c)
  \/ \E s \in Suppliers \ {supplier} : EditSupplier(s)

Spec == Init /\ [][Next]_vars

----------------------------------------------------------------------------
(* Properties.                                                             *)

DraftingTypeOK ==
  /\ doc \in [Documents -> Document \union {NoDocument}]
  /\ supplier \in Suppliers
  /\ edits \in 0..MaxEdits
  /\ turned \in BOOLEAN
  /\ restamped \in BOOLEAN
  /\ late \subseteq Documents

\* Through edits, failed generations and copies, the totals and the breakdown are
\* those of the lines, unless a client of the API has stated its own, and the
\* amount due is what the payment leaves of the total, if there is one (BR-CO-16,
\* validate_invoice).  Totals that a form or Stripe gave agree with the
\* lines too, where Stripe has no discount and no tax included.  A supplier whose
\* default exemption changes leaves the breakdown behind.
TotalsFollowLines ==
  \A d \in Documents : Exists(d) =>
    LET data == doc[d].data
        totals == data.totals
    IN /\ Balances(totals)
       /\ "stated" \notin doc[d].given =>
            /\ totals.due # Absent
            /\ IF "totals" \in doc[d].given
               THEN /\ totals.net = Net(data.lines, DOMAIN data.lines)
                    /\ totals.gross = totals.net + totals.vat
               ELSE totals = [TotalsOf(data.lines) EXCEPT !.prepayment = totals.prepayment,
                                                        !.due = totals.due]
       /\ \/ "vatLines" \in doc[d].given \/ restamped
          \/ data.vatLines = VatLines(data.lines)

\* "The BAR note tells the PA which flow applies" (flow_detector.py): it tells the
\* one the row has, which is the customer's, as long as the customer does not
\* change once a flow was detected; after that, still on what is not a credit note.
FlowTold ==
  \A d \in Documents : Exists(d) /\ doc[d].status # "draft" =>
    LET r == doc[d] IN
    /\ ~turned => r.flow = DetectFlow(r.customer.type, r.customer.who)
    /\ ~turned \/ r.preceding = Nothing => Bar(BarValue[r.flow]) \in r.data.notes

\* A credit note goes on naming its invoice (BR-FR-CO-05) through edits that replace
\* its references without saying which invoice they are about, unless it
\* came from Stripe before the invoice had a number; and what
\* is cancelled has a credit note of the same total that was issued, or whose task
\* failed after it cancelled.
CreditedInFull ==
  /\ \A n \in Documents :
       Exists(n) /\ doc[n].named => doc[n].data.references.preceding = TRUE
  /\ \A o \in Documents : doc[o].status = "cancelled" =>
       \E n \in Documents :
         /\ Exists(n) /\ doc[n].preceding = o
         /\ \/ n \in late
            \/ /\ doc[n].status \notin {"draft", "processing"}
               /\ doc[n].data.totals.gross = doc[o].data.totals.gross
=============================================================================
