\* One webhook worker and the nightly job, whose worker also saves whole invoices:
\* two nights, one failure.
SPECIFICATION Spec
CONSTANTS
  Workers = {"w1"}
  Night = "night"
  Editors = {"night"}
  CatchupDays = 2
  NoNotice = NoNotice
  Reached = {"payable", "unpayable"}
  MaxFailures = 1
CHECK_DEADLOCK FALSE
INVARIANT TypeOK
INVARIANT PaymentKnown
PROPERTY DeletedLeftAlone
PROPERTY EventuallyImported
