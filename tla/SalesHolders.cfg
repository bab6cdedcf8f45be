\* Two requests reserving, converting, activating and ending the contracts of
\* one unit.
SPECIFICATION MCSpec
CONSTANTS
  Nil = Nil
  t1 = t1
  t2 = t2
  u1 = u1
  r1 = r1
  r2 = r2
  c1 = c1
  c2 = c2
  Tx = {t1, t2}
  Units = {u1}
  Reservations = {r1, r2}
  Contracts = {c1, c2}
  LineNos = {1}
  Principals = {1}
  ApprovalIds = {1}
  Loads <- Holders
SYMMETRY Symmetry
\* Once every reservation and contract has ended there is nothing to do.
CHECK_DEADLOCK FALSE
INVARIANTS
  SoldHasContract
  HeldOnce
  ConvertedOnce
