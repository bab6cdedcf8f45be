-------------------------- MODULE FinanceProperties --------------------------
(***************************************************************************)
(* What is true of the finance tables.  An invariant speaks of db, the     *)
(* committed tables every request reads.  The first group holds however    *)
(* requests interleave; the second only while one request runs at a time,  *)
(* because no handler locks what it reads before relying on it.            *)
(***************************************************************************)
EXTENDS Finance

Tables ==
  [receivables : [Receivables -> ReceivableRow],
   payments : [Payments -> PaymentRow],
   allocations : [Payments \X Receivables -> Nat],
   credit_balances : [Credits -> CreditRow],
   lease_bills : [Bills -> BillRow]]

Locks ==
  [receivables : [Receivables -> Tx \cup {Nil}],
   payments : [Payments -> Tx \cup {Nil}],
   allocations : [Payments \X Receivables -> Tx \cup {Nil}],
   credit_balances : [Credits -> Tx \cup {Nil}],
   lease_bills : [Bills -> Tx \cup {Nil}]]

\* What a transaction remembers fits the statement it is at.
RequestOK(t) ==
  /\ pc[t] = "idle" => req[t] = Nil
  /\ pc[t] = "commit" => req[t] \in Request
  /\ pc[t] \in AllocateStatement => req[t] \in AllocateRequest
  /\ pc[t] \in VoidPaymentStatement => req[t] \in VoidPaymentRequest
  /\ pc[t] \in CreditStatement => req[t] \in CreditRequest
  /\ pc[t] \in IssueBillStatement => req[t] \in IssueBillRequest
  /\ pc[t] \in VoidBillStatement => req[t] \in VoidBillRequest
  /\ pc[t] \in {"create_allocation", "update_paid"} => line[t] \in Receivables

\* The tables, the locks and the requests are of their types.
TypeOK ==
  /\ db \in Tables
  /\ dirty \in Tables
  /\ owner \in Locks
  /\ pc \in [Tx -> Statement]
  /\ req \in [Tx -> Request \cup {Nil}]
  /\ todo \in [Tx -> SUBSET Receivables]
  /\ line \in [Tx -> Receivables \cup {Nil}]
  /\ \A t \in Tx : RequestOK(t)

-----------------------------------------------------------------------------
(***************************************************************************)
(* Under every interleaving.                                               *)
(***************************************************************************)
AllocationsOf(p) == [r \in Receivables |-> db.allocations[<<p, r>>]]
AllocationsTo(r) == [p \in Payments |-> db.allocations[<<p, r>>]]
Live == {p \in Payments : db.payments[p].status # "voided"}

\* No cent of a payment is lost or invented: what AllocatePayment took from
\* unapplied_amount is what the payment's allocations add up to.
PaymentConservation ==
  \A p \in Payments :
    db.payments[p].unapplied =
      db.payments[p].received - Total(AllocationsOf(p), Receivables)

\* A receivable's paid_amount covers the allocations of all payments not
\* voided: racing requests never lose an update or reverse one twice.  It may
\* exceed them, by allocations a racing VoidPayment did not list.
ReceivablePaidBounds ==
  \A r \in Receivables :
    /\ Total(AllocationsTo(r), Live) <= db.receivables[r].paid
    /\ db.receivables[r].paid <= Total(AllocationsTo(r), Payments)

\* The status columns, which each UPDATE computes from the amounts it finds,
\* agree with the amounts; and no money is on a voided receivable.
StatusMatchesAmounts ==
  /\ \A c \in Credits : LET row == db.credit_balances[c]
                        IN row.status = "exhausted" <=> Remaining(row) <= 0
  /\ \A r \in Receivables :
       LET row == db.receivables[r]
           moved == row.paid > 0 \/ row.credited > 0
       IN /\ row.status \in {"none", "open", "voided"} => ~moved
          /\ row.status = "partially_paid" => moved /\ Outstanding(row) > 0
          /\ row.status = "paid" => Outstanding(row) <= 0
          /\ row.status = "open" => Outstanding(row) > 0

\* The row t's next statement has to lock.
Awaited(t) ==
  CASE pc[t] = "create_allocation" ->
         {<<"allocations", <<req[t].payment, line[t]>>>>}
    [] pc[t] = "update_paid"       -> {<<"receivables", line[t]>>}
    [] pc[t] = "reverse"           -> {<<"receivables", r>> : r \in todo[t]}
    [] pc[t] = "update_credited"   -> {<<"receivables", req[t].receivable>>}
    [] pc[t] = "void_receivable"   -> {<<"receivables", req[t].bill>>}
    [] pc[t] \in {"update_unapplied", "void_payment"} ->
         {<<"payments", req[t].payment>>}
    [] pc[t] = "use_credit"        -> {<<"credit_balances", req[t].credit>>}
    [] pc[t] \in {"create_bill_receivable", "void_bill"} ->
         {<<"lease_bills", req[t].bill>>}
    [] OTHER -> {}

Blocks(u, t) == u # t /\ \E row \in Awaited(t) : owner[row[1]][row[2]] = u

\* The request goes through several receivables.
SeveralRows(t) ==
  Cardinality(todo[t] \cup ({line[t]} \ {Nil})
                \cup {r \in Receivables : owner.receivables[r] = t}) > 1

\* Requests wait for each other in a circle only where at least two of them
\* go through several receivables, in the order their lines or allocations
\* have: the handlers' lock orders are otherwise compatible.
DeadlockNeedsTwoLists ==
  \A S \in SUBSET Tx :
    (S # {} /\ \A t \in S : \E u \in S : Blocks(u, t))
      => \E t, u \in S : t # u /\ SeveralRows(t) /\ SeveralRows(u)

\* The committed tables change by whole operations that keep the books
\* balanced, though their checks may be stale.
Kept == INSTANCE Ledger WITH
  Strict <- FALSE,
  receivables <- db.receivables, payments <- db.payments,
  allocations <- db.allocations, credit_balances <- db.credit_balances,
  lease_bills <- db.lease_bills

KeepsTheBooks == Kept!Spec

-----------------------------------------------------------------------------
(***************************************************************************)
(* While one request runs at a time.                                       *)
(***************************************************************************)

\* AllocatePayment never gives out more than was received.
PaymentNotOverApplied == \A p \in Payments : db.payments[p].unapplied >= 0

\* ApplyCreditBalance never uses more than the credit balance had.
CreditNotOverdrawn ==
  \A c \in Credits : Remaining(db.credit_balances[c]) >= 0

\* No receivable is paid and credited more than it asks for.
ReceivableNotOverpaid ==
  \A r \in Receivables : Outstanding(db.receivables[r]) >= 0

\* The three together: nothing is spent twice.
NoOverApplication ==
  PaymentNotOverApplied /\ CreditNotOverdrawn /\ ReceivableNotOverpaid

\* VoidPayment leaves nothing of the payment on any receivable.
PaidIsAllocated ==
  \A r \in Receivables :
    db.receivables[r].paid = Total(AllocationsTo(r), Live)

\* A bill and its receivable stand or fall together.
BillAndReceivableAgree ==
  \A b \in Bills :
    LET bill == db.lease_bills[b].status
        receivable == db.receivables[b].status
    IN /\ bill = "draft" => receivable = "none"
       /\ bill = "voided" => receivable \in {"none", "voided"}
       /\ bill = "issued" => receivable \notin {"none", "voided"}

\* The committed tables change by whole operations whose checks hold at the
\* moment they take effect, whatever statement a failure interrupts.
Promised == INSTANCE Ledger WITH
  Strict <- TRUE,
  receivables <- db.receivables, payments <- db.payments,
  allocations <- db.allocations, credit_balances <- db.credit_balances,
  lease_bills <- db.lease_bills

KeepsThePromise == Promised!Spec
==============================================================================
