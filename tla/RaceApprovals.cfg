\* Votes at the same time: each counts only its own.
SPECIFICATION MCSpec
CONSTANTS
  Nil = Nil
  t1 = t1
  t2 = t2
  t3 = t3
  u1 = u1
  u2 = u2
  u3 = u3
  q1 = q1
  pol = pol
  Tx = {t1, t2, t3}
  Users = {u1, u2, u3}
  Requests = {q1}
  Policies = {pol}
  MinApprovers = {2}
SYMMETRY UserSymmetry
\* Once every request is decided only policies can still change.
CHECK_DEADLOCK FALSE
INVARIANT EnoughApprovalsDecide
