-------------------------------- MODULE Ledger --------------------------------
(***************************************************************************)
(* What the finance handlers promise: the committed tables change by whole *)
(* operations, each of which moves an amount between two of them.  With    *)
(* Strict, an operation happens only while what its handler checked holds; *)
(* without it, the checks may have gone stale, but what is moved out of    *)
(* one table still arrives in the other.                                   *)
(***************************************************************************)
EXTENDS FinanceTables

CONSTANT Strict   \* a Boolean: whether the checks hold when they take effect

VARIABLES receivables, payments, allocations, credit_balances, lease_bills

ledger == <<receivables, payments, allocations, credit_balances, lease_bills>>

Init ==
  /\ receivables = [r \in Receivables |-> NoReceivable]
  /\ payments = [p \in Payments |-> NoPayment]
  /\ allocations = [pr \in Payments \X Receivables |-> 0]
  /\ credit_balances \in
       [Credits -> {[status |-> "available", total |-> a, used |-> 0] :
                      a \in Amounts}]
  /\ lease_bills \in [Bills -> {NewBill(a) : a \in Amounts}]

CreateReceivable(r, amount) ==
  /\ receivables[r].status = "none"
  /\ receivables' = [receivables EXCEPT ![r] = NewReceivable(amount)]
  /\ UNCHANGED <<payments, allocations, credit_balances, lease_bills>>

CreatePayment(p, amount) ==
  /\ payments[p].status = "none"
  /\ payments' = [payments EXCEPT ![p] = NewPayment(amount)]
  /\ UNCHANGED <<receivables, allocations, credit_balances, lease_bills>>

PostPayment(p) ==
  /\ payments[p].status = "draft"
  /\ payments' = [payments EXCEPT ![p].status = "posted"]
  /\ UNCHANGED <<receivables, allocations, credit_balances, lease_bills>>

\* The payment gives up exactly what the receivables are paid, once for each.
Allocate(p, lines) ==
  /\ Rows(lines) # {}
  /\ payments[p].status \in {"posted", "voided"}
  /\ \A r \in Rows(lines) : /\ allocations[<<p, r>>] = 0
                            /\ receivables[r].status # "none"
  /\ Strict => /\ payments[p].status = "posted"
               /\ Total(lines, Receivables) <= payments[p].unapplied
               /\ \A r \in Rows(lines) :
                    /\ AcceptsMoney(receivables[r])
                    /\ lines[r] <= Outstanding(receivables[r])
  /\ payments' = [payments EXCEPT ![p].unapplied =
                                     @ - Total(lines, Receivables)]
  /\ allocations' = [pr \in DOMAIN allocations |->
                       IF pr[1] = p THEN allocations[pr] + lines[pr[2]]
                                    ELSE allocations[pr]]
  /\ receivables' =
       [r \in Receivables |->
          IF r \in Rows(lines)
            THEN UpdateReceivablePaidAmount(receivables[r], lines[r])
            ELSE receivables[r]]
  /\ UNCHANGED <<credit_balances, lease_bills>>

\* Each reversed receivable gives back what this payment paid it, and no
\* payment is reversed twice.
VoidPayment(p, reversed) ==
  LET allocated == {r \in Receivables : allocations[<<p, r>>] > 0}
  IN /\ payments[p].status = "posted"
     /\ reversed \subseteq allocated
     /\ Strict => reversed = allocated
     /\ payments' = [payments EXCEPT ![p].status = "voided"]
     /\ receivables' =
          [r \in Receivables |->
             IF r \in reversed
               THEN UpdateReceivablePaidAmount(receivables[r],
                                               -allocations[<<p, r>>])
               ELSE receivables[r]]
     /\ UNCHANGED <<allocations, credit_balances, lease_bills>>

ApplyCredit(c, r, amount) ==
  /\ credit_balances[c].status = "available"
  /\ receivables[r].status # "none"
  /\ Strict => /\ amount <= Remaining(credit_balances[c])
               /\ AcceptsMoney(receivables[r])
               /\ amount <= Outstanding(receivables[r])
  /\ credit_balances' =
       [credit_balances EXCEPT ![c] = ApplyCreditBalance(@, amount)]
  /\ receivables' =
       [receivables EXCEPT ![r] = UpdateReceivableCreditedAmount(@, amount)]
  /\ UNCHANGED <<payments, allocations, lease_bills>>

IssueBill(b) ==
  /\ lease_bills[b].status = "draft"
  /\ receivables[b].status = "none"
  /\ lease_bills' = [lease_bills EXCEPT ![b].status = "issued"]
  /\ receivables' =
       [receivables EXCEPT ![b] = NewReceivable(lease_bills[b].billed)]
  /\ UNCHANGED <<payments, allocations, credit_balances>>

VoidBill(b) ==
  /\ lease_bills[b].status \in {"draft", "issued"}
  /\ lease_bills' = [lease_bills EXCEPT ![b].status = "voided"]
  /\ \/ /\ receivables[b].status = "open"
        /\ receivables' = [receivables EXCEPT ![b].status = "voided"]
     \/ /\ Strict => lease_bills[b].status = "draft"
        /\ receivables' = receivables
  /\ UNCHANGED <<payments, allocations, credit_balances>>

Next ==
  \/ \E r \in Receivables \ Bills, a \in Amounts : CreateReceivable(r, a)
  \/ \E p \in Payments, a \in Amounts : CreatePayment(p, a)
  \/ \E p \in Payments : PostPayment(p)
  \/ \E p \in Payments, lines \in Lines : Allocate(p, lines)
  \/ \E p \in Payments, reversed \in SUBSET Receivables :
       VoidPayment(p, reversed)
  \/ \E c \in Credits, r \in Receivables, a \in Amounts : ApplyCredit(c, r, a)
  \/ \E b \in Bills : IssueBill(b)
  \/ \E b \in Bills : VoidBill(b)

Spec == Init /\ [][Next]_ledger
==============================================================================
