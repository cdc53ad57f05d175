---------------------------- MODULE StripeMapper ----------------------------
(***************************************************************************)
(* What an invoice or a credit note of Stripe becomes                      *)
(* (apps/payments/providers/stripe/mapper.py): the lines and the totals of *)
(* the payload that the service then fills in.  The amounts are Stripe's,  *)
(* in cents; the unit prices follow from them and are left out.            *)
(***************************************************************************)
EXTENDS Payload

Rates == Seq(Rate \union {Absent})

StripeItem == [amount : Int, quantity : Nat, product : Nat \union {Absent}, rates : Rates]

StripeInvoice == [items : Seq(StripeItem), subtotal : Int, tax : Int, total : Nat \ {0}]

CreditedItem ==
  [amount : Int, discount : Int, quantity : Nat, rates : Rates,
   taxes : Seq([amount : Nat, taxable : Nat, inclusive : BOOLEAN])]

StripeCreditNote == [items : Seq(CreditedItem), total : Int, tax : Int]

\* Decimal.quantize without a rounding mode: half a unit goes to the even one.
HalfEven(n, d) ==
  LET q == n \div d
      r == 2 * (n % d) IN
  IF r > d \/ (r = d /\ q % 2 = 1) THEN q + 1 ELSE q

\* As a "20.00" string.
TwoDecimals(value) == [value |-> value, decimals |-> 2]

Category(rate) == IF rate.value > 0 THEN "S" ELSE "Z"

MappedLine(net, rate, quantity) ==
  [net |-> net, rate |-> rate, category |-> Category(rate),
   quantity |-> quantity, price |-> Absent, reason |-> Absent]

StripeTotals(net, vat, gross) ==
  [net |-> net, vat |-> vat, gross |-> gross, prepayment |-> 0, due |-> gross]

----------------------------------------------------------------------------
(* Invoices.  An item has an amount, the rate of the product it is known   *)
(* by, and the rates of its taxes as Stripe writes them, Absent for one    *)
(* that only has an identifier.                                            *)

ItemRate(item) ==
  IF item.product # Absent THEN TwoDecimals(item.product)
  ELSE IF item.rates = <<>> THEN TwoDecimals(0) ELSE Or(Head(item.rates), TwoDecimals(2000))

\* _map_line_items
MapItems(items) ==
  [i \in DOMAIN items |-> MappedLine(items[i].amount, ItemRate(items[i]), items[i].quantity)]

\* stripe_invoice_to_payload
InvoiceTotals(invoice) == StripeTotals(invoice.subtotal, invoice.tax, invoice.total)

----------------------------------------------------------------------------
(* Credit notes.  An item has an amount, a discount, rates as above, and   *)
(* taxes that are included in the amount or come on top.                   *)

SumTaxes(taxes, I) == SumFunction([t \in I |-> taxes[t].amount])

Inclusive(taxes) == {t \in DOMAIN taxes : taxes[t].inclusive}

\* _credit_note_line_rate: the first rate that is given, or what the taxes come to.
CreditedRate(item) ==
  LET known == {i \in DOMAIN item.rates : item.rates[i] # Absent}
      tax == SumTaxes(item.taxes, DOMAIN item.taxes)
      taxable == SumFunction([t \in DOMAIN item.taxes |-> item.taxes[t].taxable])
  IN CASE known # {}                                      -> item.rates[Min(known)].value
       [] known = {} /\ (tax = 0 \/ taxable = 0)           -> 0
       [] known = {} /\ tax # 0 /\ taxable # 0             -> HalfEven(tax * 10000, taxable)

\* The category and the exemption are those of the first line of the invoice at
\* the same rate.
LikeOriginal(line, originals) ==
  LET same == {i \in DOMAIN originals : originals[i].rate.value = line.rate.value} IN
  IF same = {} THEN line
  ELSE LET original == originals[Min(same)] IN
       [line EXCEPT !.category = Or(original.category, @), !.reason = Or(original.reason, @)]

CreditedNet(item) ==
  item.amount - item.discount - SumTaxes(item.taxes, Inclusive(item.taxes))

\* _map_credit_note_lines
MapCreditedItems(items, originals) ==
  [i \in DOMAIN items |->
     LikeOriginal(MappedLine(CreditedNet(items[i]), TwoDecimals(CreditedRate(items[i])), items[i].quantity),
                  originals)]

\* stripe_credit_note_to_payload
CreditNoteTotals(note) == StripeTotals(note.total - note.tax, note.tax, note.total)
=============================================================================
