\* Votes on, cancellations of and additions to one request, one at a time and
\* three at a time.
SPECIFICATION MCSpec
CONSTANTS
  Nil = Nil
  t1 = t1
  t2 = t2
  t3 = t3
  u1 = u1
  u2 = u2
  u3 = u3
  q1 = q1
  pol = pol
  Tx = {t1, t2, t3}
  Users = {u1, u2, u3}
  Requests = {q1}
  Policies = {pol}
  MinApprovers = {2}
SYMMETRY UserSymmetry
\* Once every request is decided only policies can still change.
CHECK_DEADLOCK FALSE
INVARIANTS
  RejectionDecides
  SeriallyEnoughApprovalsDecide
PROPERTIES
  AuditTrail
  DecisionIsFinal
  ApprovedByEnough
