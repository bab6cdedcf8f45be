\* Two completions race over two transfers of one contract among three
\* parties, and a transfer is completed while ownerships are entered by hand.
CONSTANTS
  Tx = {t1, t2}
  Nil = Nil
  Parties = {p1, p2, p3}
  Contracts = {c1}
  Transfers = {f1, f2}
  MaxRows = 3
  Shares = {50, 100}
SYMMETRY Symmetry
SPECIFICATION MCSpec
INVARIANTS OneOpenBuyer
PROPERTIES TransferredByApproval TransfersPassSharesOn
\* Every transfer may have been made and decided, and every row used.
CHECK_DEADLOCK FALSE
