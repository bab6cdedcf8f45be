\* Two interleaved requests activating, renewing and terminating three leases of
\* one unit, or editing and billing a lease of one or two periods; and one request
\* at a time.
CONSTANTS
  Tx = {t1, t2}
  Nil = Nil
  Units = {u1}
  LeaseIds = {l1, l2, l3}
  MaxPeriods = 2
  ApprovalIds = {1, 2}
SYMMETRY Symmetry
SPECIFICATION MCSpec
INVARIANTS OccupiedWhileLet TenantWhileLet RenewedOnce BilledForItsTerm SeriallyOnePendingTermination
PROPERTIES TerminatedByApproval HoldsUnitOnce
\* Every lease may have ended and every approval be used.
CHECK_DEADLOCK FALSE
