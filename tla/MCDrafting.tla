----------------------------- MODULE MCDrafting -----------------------------
(* Drafting on small instances. *)
EXTENDS Drafting, TLC

Line(net, rate, category, quantity, price, reason) ==
  [net |-> net, rate |-> rate, category |-> category, quantity |-> quantity,
   price |-> price, reason |-> reason]

Written(value, decimals) == [value |-> value, decimals |-> decimals]

\* Two lines at 20%, written in two ways and rounded apart, and two without VAT, of
\* which one says why.
MCLineLists ==
  {<<Line(Absent, Absent, Absent, 3, 335, Absent),
     Line(2, Written(2000, 2), "S", Absent, Absent, Absent),
     Line(Absent, Written(0, 0), "Z", 1, 1000, Absent), Line(50, Written(0, 2), "E", 1, 500, "own")>>}

\* Totals without an amount due, as in the examples of the guide.
MCStatedTotals == {[net |-> 1500, vat |-> 300, gross |-> 1800, prepayment |-> 0, due |-> Absent]}

MCBreakdowns ==
  {{[rate |-> Written(2000, 1), category |-> "S", base |-> 1500, vat |-> 300, reason |-> Absent]}}

MCSuppliers ==
  {[exemption |-> Absent, notes |-> {}],
   [exemption |-> "293B", notes |-> {[code |-> "PMT", content |-> "text"]}]}

Item(amount, product, rates) ==
  [amount |-> amount, quantity |-> 1, product |-> product, rates |-> rates]

\* The rate of a product, and the rate that is assumed for a tax without one.
MCStripeInvoices ==
  {[items |-> <<Item(100, 2000, <<>>), Item(50, Absent, <<Absent>>)>>,
    subtotal |-> 150, tax |-> 30, total |-> 180]}

Credited(amount, discount, rates, tax, taxable, inclusive) ==
  [amount |-> amount, discount |-> discount, rates |-> rates, quantity |-> 1,
   taxes |-> <<[amount |-> tax, taxable |-> taxable, inclusive |-> inclusive]>>]

\* The whole of it: a line with its tax included, and one with a discount.
MCStripeCreditNotes ==
  {[items |-> <<Credited(120, 0, <<>>, 20, 100, TRUE), Credited(70, 20, <<Absent, Written(2000, 1)>>, 10, 50, FALSE)>>,
    total |-> 180, tax |-> 30]}

Symmetry == Permutations(Documents)

MCNotes == {[code |-> "PMT", content |-> "text"]}

MCNoteSets == {MCNotes}

MCRecipients ==
  {[type |-> "", who |-> [siren |-> FALSE, vat |-> "", country |-> "FR"]],
   [type |-> "intra_ue", who |-> [siren |-> FALSE, vat |-> "EU", country |-> "FR"]]}
=============================================================================
