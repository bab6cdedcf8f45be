\* The course of a contract: two requests ending one or activating two for one unit,
\* three billing and changing the schedule, and one at a time of every kind.
SPECIFICATION MCSpec
CONSTANTS
  Nil = Nil
  t1 = t1
  t2 = t2
  t3 = t3
  u1 = u1
  r1 = r1
  c1 = c1
  c2 = c2
  Tx = {t1, t2, t3}
  Units = {u1}
  Reservations = {r1}
  Contracts = {c1, c2}
  LineNos = {1, 2}
  Principals = {1, 2}
  ApprovalIds = {1, 2, 3}
  Loads <- Courses
SYMMETRY Symmetry
\* Once every reservation and contract has ended there is nothing to do.
CHECK_DEADLOCK FALSE
INVARIANTS
  ActiveIsBilled
  EveryChangeIsAudited
  SeriallySound
PROPERTIES
  EndedByApproval
  HoldsUnitOnce
