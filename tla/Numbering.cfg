\* Three validations at once draw from two counters, one of which meets an
\* imported number.
CONSTANTS
  p1 = p1
  p2 = p2
  Workers = {w1, w2, w3}
  Invoices = {i1, i2, i3}
  Prefixes = {p1, p2}
  Imported <- FirstNumber
  Serialised = TRUE
  MaxRank = 2
SPECIFICATION Spec
SYMMETRY Symmetry
CHECK_DEADLOCK FALSE
INVARIANT RefusedOnlyImports
INVARIANT NoHole
