\* Racing requests: a voided payment may leave money on a receivable.
SPECIFICATION MCSpec
CONSTANTS
  Nil = Nil
  t1 = t1
  t2 = t2
  t3 = t3
  p1 = p1
  p2 = p2
  r1 = r1
  r2 = r2
  b1 = b1
  c1 = c1
  Tx = {t1, t2, t3}
  Payments = {p1, p2}
  Receivables = {r1, r2, b1}
  Bills = {b1}
  Credits = {c1}
  Amounts = {1, 2}
SYMMETRY RequestSymmetry
\* Every row may have been used up and nothing is left to request.
CHECK_DEADLOCK FALSE
INVARIANT PaidIsAllocated
