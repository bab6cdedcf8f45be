------------------------------ MODULE MCFinance ------------------------------
(***************************************************************************)
(* Finance for TLC.  A behaviour has a workload, chosen at its start: how  *)
(* many requests are handled at a time, which ones, on how many rows and   *)
(* with what amounts.  With one request at a time the checks of a handler  *)
(* still hold when it writes.                                              *)
(***************************************************************************)
EXTENDS FinanceInvariants, TLC

VARIABLE load

AllOps   == {"allocate", "void_payment", "apply_credit", "issue_bill", "void_bill"}
Payables == {"allocate", "void_payment"}

Loads ==
  { [clients |-> 1, ops |-> AllOps, payments |-> 1, rows |-> 1, amounts |-> {1, 2}],
    [clients |-> 1, ops |-> AllOps, payments |-> 2, rows |-> 1, amounts |-> {1}],
    [clients |-> 1, ops |-> Payables, payments |-> 2, rows |-> 2, amounts |-> {1, 2}],
    [clients |-> 2, ops |-> AllOps, payments |-> 1, rows |-> 1, amounts |-> {1}],
    [clients |-> 2, ops |-> AllOps \ Payables, payments |-> 0, rows |-> 1, amounts |-> {1, 2}],
    [clients |-> 2, ops |-> Payables \cup {"issue_bill"}, payments |-> 1, rows |-> 1, amounts |-> {1, 2}],
    [clients |-> 2, ops |-> Payables, payments |-> 2, rows |-> 1, amounts |-> {1, 2}],
    [clients |-> 3, ops |-> Payables, payments |-> 2, rows |-> 2, amounts |-> {1}] }

\* What is requested and entered stays within the workload.
Within ==
  LET Entered(rows) == {id \in DOMAIN rows : rows[id].status # "none"}
  IN /\ Cardinality({t \in Tx : pc[t] # "idle"}) <= load.clients
     /\ \A t \in Tx : req[t] # Nil =>
          /\ req[t].op \in load.ops
          /\ req[t].op = "allocate" =>
               /\ \A r \in Receivables : req[t].lines[r] \in load.amounts \cup {0}
               /\ Rows(req[t].lines) \subseteq Entered(db.receivables)
          /\ req[t].op = "apply_credit" => req[t].amount \in load.amounts
     /\ Cardinality(Entered(db.payments)) <= load.payments
     /\ \A p \in Entered(db.payments) : db.payments[p].received \in load.amounts
     /\ Cardinality(Entered(db.receivables) \ Bills) <= load.rows
     /\ \A r \in Entered(db.receivables) : db.receivables[r].original \in load.amounts

\* Credit balances and bills nobody asks about are of one amount.
MCInit ==
  /\ Init
  /\ load \in Loads
  /\ \A c \in Credits : db.credit_balances[c].total \in
       IF "apply_credit" \in load.ops THEN load.amounts ELSE {1}
  /\ \A b \in Bills : db.lease_bills[b].billed \in
       IF "issue_bill" \in load.ops THEN load.amounts ELSE {1}

MCNext == Next /\ load' = load /\ Within'

MCSpec == MCInit /\ [][MCNext]_<<vars, load>>

\* Requests, payments and credit balances are interchangeable.  Receivables
\* are too, apart from the bills'.
RequestSymmetry ==
  Permutations(Tx) \cup Permutations(Payments) \cup Permutations(Credits)
    \cup Permutations(Receivables \ Bills)

-----------------------------------------------------------------------------
OneAtATime == load.clients = 1

\* While one request is handled at a time, whatever statement a failure cuts
\* short: nothing is spent beyond its amount, voiding a payment leaves nothing
\* of it on any receivable, and a bill and its receivable stand or fall
\* together.
SeriallyConsistent ==
  OneAtATime => NoOverApplication /\ PaidIsAllocated /\ BillAndReceivableAgree

\* While one request is handled at a time, each keeps the promise: the
\* committed tables change by whole operations whose checks hold.
SeriallyKeepsThePromise ==
  [][UNCHANGED db \/ (OneAtATime => Promised!Next)]_<<vars, load>>
=============================================================================
