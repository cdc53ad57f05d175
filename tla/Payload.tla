------------------------------ MODULE Payload -------------------------------
(***************************************************************************)
(* The data of an invoice (en16931_data): what the service fills in where  *)
(* the payload of the API, of a form or of Stripe's mapper is silent       *)
(* (apps/billing/services/payload_builder.py, resolution_service.py), and  *)
(* the totals and the VAT breakdown it computes.  Amounts are in cents,    *)
(* prices in tenths of a cent; dates, texts and units are left out.        *)
(***************************************************************************)
EXTENDS Integers, Sequences, FiniteSetsExt

CONSTANTS
  Absent,  \* a field the payload does not have
  Reasons  \* the codes for why a line is exempted

Categories == {"S", "E", "Z"}

\* A rate is a text: its value in hundredths of a percent, and how many decimals
\* it is written with ('20', '20.0' and '20.00' are three rates).
Rate == [value : Nat, decimals : Nat]

ASSUME PayloadAssumption == Absent \notin Int \union Categories \union Reasons \union Rate

\* Decimal.quantize, ROUND_HALF_UP: half a unit is rounded away from zero.
Rounded(n, d) ==
  IF n >= 0 THEN (2 * n + d) \div (2 * d) ELSE -((d - 2 * n) \div (2 * d))

Or(x, default) == IF x # Absent THEN x ELSE default

----------------------------------------------------------------------------
(* Lines.                                                                  *)

\* A line as a payload states it, and as it is once it is filled in.
StatedLine ==
  [net : Int \union {Absent}, rate : Rate \union {Absent}, category : Categories \union {Absent},
   quantity : Nat \union {Absent}, price : Int \union {Absent}, reason : Reasons \union {Absent}]

FilledLine ==
  [net : Int, rate : Rate, category : Categories,
   quantity : Nat \union {Absent}, price : Int \union {Absent}, reason : Reasons \union {Absent}]

\* resolve_product_lines: what the line says overrides the product.
FromProduct(line, product) ==
  [f \in DOMAIN line |-> IF f \in DOMAIN product THEN Or(line[f], product[f]) ELSE line[f]]

\* _apply_default_vat_exemption: the supplier's reason, on a line at 0% that has
\* none.
Exempted(line, exemption) ==
  IF exemption # Absent /\ line.rate.value = 0 /\ line.reason = Absent
  THEN [line EXCEPT !.category = "E", !.reason = exemption]
  ELSE line

\* '20'
StandardRate == [value |-> 2000, decimals |-> 0]

\* _enrich_lines
Filled(line) ==
  LET rate == Or(line.rate, StandardRate) IN
  [line EXCEPT !.rate = rate,
               !.category = Or(@, IF rate.value > 0 THEN "S" ELSE "E"),
               !.net = Or(@, Rounded(Or(line.quantity, 1) * Or(line.price, 0), 10))]

EnrichLine(line, exemption) == Exempted(Filled(line), exemption)

EnrichLines(lines, exemption) == [i \in DOMAIN lines |-> EnrichLine(lines[i], exemption)]

----------------------------------------------------------------------------
(* Totals.                                                                 *)

Net(lines, I) == SumFunction([i \in I |-> lines[i].net])

\* The lines of one category and one rate, as it is written, make one line of the
\* breakdown, with the first exemption reason among them: VAT is rounded once for
\* '20' and once more for '20.00'.
VatLine(lines, rate, category) ==
  LET I == {i \in DOMAIN lines : lines[i].rate = rate /\ lines[i].category = category}
      reasoned == {i \in I : lines[i].reason # Absent}
      base == Net(lines, I)
  IN [rate |-> rate, category |-> category, base |-> base,
      vat |-> Rounded(base * rate.value, 10000),
      reason |-> IF reasoned = {} THEN Absent ELSE lines[Min(reasoned)].reason]

VatLines(lines) == {VatLine(lines, lines[i].rate, lines[i].category) : i \in DOMAIN lines}

Totals(net, vat) ==
  [net |-> net, vat |-> vat, gross |-> net + vat, prepayment |-> 0, due |-> net + vat]

TotalsOf(lines) ==
  Totals(Net(lines, DOMAIN lines),
         SumFunction([v \in VatLines(lines) |-> v.vat]))

\* _enrich_totals: each of the two, where it is missing.  Totals that are stated
\* are kept as they are, without an amount due if they have none.
EnrichTotals(data) ==
  [data EXCEPT !.totals = Or(@, TotalsOf(data.lines)),
               !.vatLines = Or(@, VatLines(data.lines))]

----------------------------------------------------------------------------
(* References and notes.                                                   *)

InvoiceType == "380"
CreditNoteType == "381"

DefaultReferences == [type |-> InvoiceType, preceding |-> Absent]

\* Mutation: references that are there are taken to be complete.
WholeReferences(r) == IF r = Absent THEN DefaultReferences ELSE r

FilledReferences(r) ==
  IF r = Absent THEN DefaultReferences ELSE [r EXCEPT !.type = Or(@, InvoiceType)]

\* _enrich_references
EnrichReferences(data) == [data EXCEPT !.references = FilledReferences(@)]

\* The notes the law requires, if the supplier has them and the payload has none.
EnrichNotes(data, notes) ==
  [data EXCEPT !.notes = IF @ = Absent /\ notes # {} THEN notes ELSE @]

\* enrich_en16931_data
Enrich(data, supplier) ==
  EnrichNotes(
    EnrichReferences(
      EnrichTotals([data EXCEPT !.lines = EnrichLines(@, supplier.exemption)])),
    supplier.notes)

\* inject_bar_note: a note that is there already stays.
Bar(value) == [code |-> "BAR", content |-> value]

WithBar(data, value) ==
  LET notes == Or(data.notes, {}) IN
  IF \E n \in notes : n.code = "BAR" THEN data
  ELSE [data EXCEPT !.notes = notes \union {Bar(value)}]

\* validate_invoice: a payment that was recorded before is deducted.
WithPrepayment(data, payment) ==
  IF payment = 0 THEN data
  ELSE [data EXCEPT !.totals.prepayment = payment,
                    !.totals.due = data.totals.gross - payment]
=============================================================================
