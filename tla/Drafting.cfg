SPECIFICATION Spec
CONSTANTS
  Absent = Absent
  Reasons = {"own", "293B"}
  Nothing = Nothing
  Documents = {d1, d2}
  Suppliers <- MCSuppliers
  LineLists <- MCLineLists
  Notes <- MCNotes
  NoteSets <- MCNoteSets
  StatedTotals <- MCStatedTotals
  Breakdowns <- MCBreakdowns
  Recipients <- MCRecipients
  StripeInvoices <- MCStripeInvoices
  StripeCreditNotes <- MCStripeCreditNotes
  MaxEdits = 2
SYMMETRY Symmetry
\* Everything is issued, or there are no edits left.
CHECK_DEADLOCK FALSE
INVARIANT DraftingTypeOK
INVARIANT TotalsFollowLines
INVARIANT FlowTold
INVARIANT CreditedInFull
