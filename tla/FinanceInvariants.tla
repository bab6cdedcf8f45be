-------------------------- MODULE FinanceInvariants --------------------------
(***************************************************************************)
(* The inductive invariants behind FinanceProperties: what holds between   *)
(* the statements of a handler, so that the property holds at its commit.  *)
(***************************************************************************)
EXTENDS FinanceProperties

-----------------------------------------------------------------------------
(***************************************************************************)
(* Any number of requests: what one has inserted into payment_allocations  *)
(* and not committed is what it is about to take from the payment.         *)
(***************************************************************************)

\* The request has inserted its allocation to r.
Inserted(t, r) ==
  /\ r \in Rows(req[t].lines) \ todo[t]
  /\ pc[t] = "create_allocation" => r # line[t]

AllocationsPending(t) ==
  LET p == req[t].payment
      lines == req[t].lines
  IN req[t] \in AllocateRequest =>
       /\ db.payments[p].status # "none"
       /\ pc[t] \in AllocateStatement \cup {"commit"}
       /\ todo[t] \subseteq Rows(lines)
       /\ pc[t] \in {"create_allocation", "update_paid"} =>
            line[t] \in Rows(lines) \ todo[t]
       /\ pc[t] \in {"update_unapplied", "commit"} => todo[t] = {}
       /\ \A r \in Receivables :
            Inserted(t, r) =>
              /\ owner.allocations[<<p, r>>] = t
              /\ db.allocations[<<p, r>>] = 0
              /\ dirty.allocations[<<p, r>>] = lines[r]

\* Only such a request has locked an allocation.
AllocationLocks ==
  \A p \in Payments, r \in Receivables, t \in Tx :
    owner.allocations[<<p, r>>] = t =>
      req[t] \in AllocateRequest /\ req[t].payment = p /\ Inserted(t, r)

\* A payment is locked by the request that is about to commit its new
\* version, and an allocation commits only together with that.
PaymentLocks ==
  /\ \A p \in Payments, t \in Tx :
       owner.payments[p] = t =>
         /\ pc[t] = "commit"
         /\ db.payments[p].status # "none"
         /\ \/ /\ req[t] \in AllocateRequest
               /\ req[t].payment = p
               /\ dirty.payments[p] =
                    [db.payments[p] EXCEPT
                       !.unapplied = @ - Total(req[t].lines, Receivables)]
            \/ /\ req[t] \in VoidPaymentRequest
               /\ dirty.payments[p] =
                    [db.payments[p] EXCEPT !.status = "voided"]
  /\ \A t \in Tx :
       /\ pc[t] = "commit" /\ req[t] \in AllocateRequest
            => owner.payments[req[t].payment] = t
       /\ req[t] \in VoidPaymentRequest
            => db.payments[req[t].payment].status # "none"

\* The inductive invariant of PaymentConservation.
AllocationsMatchLocks ==
  /\ DirtyIsCommitted
  /\ \A p \in Payments : db.payments[p].status = "none"
                           => db.payments[p] = NoPayment
  /\ \A t \in Tx : AllocationsPending(t)
  /\ AllocationLocks
  /\ PaymentLocks
  /\ PaymentConservation
-----------------------------------------------------------------------------
(***************************************************************************)
(* Any number of requests: what one has written and not committed is what  *)
(* one operation of Ledger makes of the committed rows.  For each kind of  *)
(* request: the rows it has locked so far, their newest versions, and what *)
(* it has read that nobody can take back.                                  *)
(***************************************************************************)
Locked(t, tab) == {id \in DOMAIN owner[tab] : owner[tab][id] = t}
IfAt(t, stmts, rows) == IF pc[t] \in stmts THEN rows ELSE {}

WasPosted(p) == db.payments[p].status \in {"posted", "voided"}

\* The request has added its line for r to the receivable.
Paid(t, r) ==
  /\ r \in Rows(req[t].lines) \ todo[t]
  /\ pc[t] \in {"create_allocation", "update_paid"} => r # line[t]

AllocateOperation(t) ==
  req[t] \in AllocateRequest =>
    /\ Locked(t, "receivables") = {r \in Receivables : Paid(t, r)}
    /\ Locked(t, "credit_balances") = {}
    /\ Locked(t, "lease_bills") = {}
    /\ WasPosted(req[t].payment)
    /\ Rows(req[t].lines) # {}
    /\ \A r \in Rows(req[t].lines) \ todo[t] : db.receivables[r].status # "none"
    /\ \A r \in Locked(t, "receivables") :
         dirty.receivables[r] =
           UpdateReceivablePaidAmount(db.receivables[r], req[t].lines[r])

VoidPaymentOperation(t) ==
  req[t] \in VoidPaymentRequest =>
    /\ Locked(t, "receivables") \subseteq
         IfAt(t, {"reverse", "void_payment", "commit"},
              Allocated(req[t].payment) \ todo[t])
    /\ todo[t] \subseteq IfAt(t, {"reverse"}, Allocated(req[t].payment))
    /\ Locked(t, "payments") = IfAt(t, {"commit"}, {req[t].payment})
    /\ Locked(t, "credit_balances") = {}
    /\ Locked(t, "lease_bills") = {}
    /\ pc[t] \in VoidPaymentStatement \cup {"commit"}
    /\ WasPosted(req[t].payment)
    /\ \A p \in Locked(t, "payments") : db.payments[p].status = "posted"
    /\ \A r \in Locked(t, "receivables") :
         dirty.receivables[r] =
           UpdateReceivablePaidAmount(db.receivables[r],
                                      -db.allocations[<<req[t].payment, r>>])

CreditOperation(t) ==
  LET c == req[t].credit
      r == req[t].receivable
  IN req[t] \in CreditRequest =>
       /\ Locked(t, "receivables") = IfAt(t, {"commit"}, {r})
       /\ Locked(t, "credit_balances") =
            IfAt(t, {"update_credited", "commit"}, {c})
       /\ Locked(t, "lease_bills") = {}
       /\ pc[t] \in CreditStatement \cup {"commit"}
       /\ pc[t] # "get_credit_receivable" => db.receivables[r].status # "none"
       /\ c \in Locked(t, "credit_balances") =>
            /\ db.credit_balances[c].status = "available"
            /\ dirty.credit_balances[c] =
                 ApplyCreditBalance(db.credit_balances[c], req[t].amount)
       /\ r \in Locked(t, "receivables") =>
            dirty.receivables[r] =
              UpdateReceivableCreditedAmount(db.receivables[r], req[t].amount)

IssueBillOperation(t) ==
  LET b == req[t].bill
  IN req[t] \in IssueBillRequest =>
       /\ Locked(t, "receivables") = IfAt(t, {"commit"}, {b})
       /\ Locked(t, "credit_balances") = {}
       /\ Locked(t, "lease_bills") = IfAt(t, {"commit"}, {b})
       /\ pc[t] \in IssueBillStatement \cup {"commit"}
       /\ b \in Locked(t, "lease_bills") =>
            /\ db.lease_bills[b].status = "draft"
            /\ db.receivables[b].status = "none"
            /\ dirty.lease_bills[b] = [db.lease_bills[b] EXCEPT !.status = "issued"]
            /\ dirty.receivables[b] = NewReceivable(db.lease_bills[b].billed)

VoidBillOperation(t) ==
  LET b == req[t].bill
  IN req[t] \in VoidBillRequest =>
       /\ Locked(t, "receivables") \subseteq IfAt(t, {"void_bill", "commit"}, {b})
       /\ Locked(t, "credit_balances") = {}
       /\ Locked(t, "lease_bills") = IfAt(t, {"commit"}, {b})
       /\ pc[t] \in VoidBillStatement \cup {"commit"}
       /\ b \in Locked(t, "lease_bills") =>
            /\ db.lease_bills[b].status \in {"draft", "issued"}
            /\ dirty.lease_bills[b] = [db.lease_bills[b] EXCEPT !.status = "voided"]
       /\ b \in Locked(t, "receivables") =>
            /\ db.receivables[b].status = "open"
            /\ dirty.receivables[b] = [db.receivables[b] EXCEPT !.status = "voided"]

Operation(t) ==
  /\ AllocateOperation(t)
  /\ VoidPaymentOperation(t)
  /\ CreditOperation(t)
  /\ IssueBillOperation(t)
  /\ VoidBillOperation(t)
  /\ req[t] \notin Request => \A tab \in DOMAIN owner : Locked(t, tab) = {}

\* With AllocationsMatchLocks, the inductive invariant of KeepsTheBooks.
LocksAreOperations == \A t \in Tx : Operation(t)

-----------------------------------------------------------------------------
\* Every operation of Ledger keeps ReceivablePaidBounds, as a receivable that
\* does not exist yet has nothing on it.
PaidIsBounded ==
  /\ ReceivablePaidBounds
  /\ \A r \in Receivables : db.receivables[r].status = "none"
                              => db.receivables[r] = NoReceivable

-----------------------------------------------------------------------------
(***************************************************************************)
(* One request at a time: what a handler has checked still holds, as       *)
(* nobody commits between its first statement and its commit but handlers  *)
(* of one write, which leave alone what it has read.                       *)
(***************************************************************************)
OneRunning == \A t, u \in Tx : pc[t] # "idle" /\ pc[u] # "idle" => t = u

Payable(r, amount) ==
  AcceptsMoney(db.receivables[r]) /\ amount <= Outstanding(db.receivables[r])

AllocateChecked(t) ==
  LET p == req[t].payment
      lines == req[t].lines
  IN req[t] \in AllocateRequest =>
       /\ db.payments[p].status = "posted"
       /\ Total(lines, Receivables) <= db.payments[p].unapplied
       /\ \A r \in Rows(lines) \ todo[t] : Payable(r, lines[r])

\* It has reversed all that is allocated, or has it in its todo.
VoidPaymentChecked(t) ==
  req[t] \in VoidPaymentRequest /\ pc[t] # "list_allocations" =>
    Locked(t, "receivables") = Allocated(req[t].payment) \ todo[t]

CreditChecked(t) ==
  req[t] \in CreditRequest =>
    /\ req[t].amount <= Remaining(db.credit_balances[req[t].credit])
    /\ pc[t] # "get_credit_receivable" =>
         Payable(req[t].receivable, req[t].amount)

\* The bill is a draft, or its receivable goes with it.
VoidBillChecked(t) ==
  req[t] \in VoidBillRequest /\ pc[t] \in {"void_bill", "commit"} =>
    \/ db.lease_bills[req[t].bill].status = "draft"
    \/ Locked(t, "receivables") = {req[t].bill}

Checked(t) ==
  /\ AllocateChecked(t)
  /\ VoidPaymentChecked(t)
  /\ CreditChecked(t)
  /\ VoidBillChecked(t)

\* With LocksAreOperations, the inductive invariant of KeepsThePromise.
ChecksHold == \A t \in Tx : Checked(t)

\* With StatusMatchesAmounts, the invariant of the operations of Ledger whose
\* checks hold.
Consistent == NoOverApplication /\ PaidIsAllocated /\ BillAndReceivableAgree
==============================================================================
