------------------------------- MODULE Finance -------------------------------
(***************************************************************************)
(* The handlers that move money between the finance tables, each a         *)
(* transaction that runs its statements one by one while the transactions  *)
(* of other requests run theirs.  pc[t] names the statement t runs next;   *)
(* where the code returns an error, t can only Rollback.  A handler whose  *)
(* transaction writes with a single statement is one action, and so is a   *)
(* read together with the checks the code makes on it before its next      *)
(* statement.                                                              *)
(*                                                                         *)
(* A definition whose name ends in a slip of the programmer (..._Unchecked *)
(* and the like) is no part of the specification: it is what its namesake  *)
(* would be with that slip, for showing that a property notices it.        *)
(***************************************************************************)
EXTENDS ReadCommitted, FinanceTables

VARIABLES
  pc,     \* the next statement of each transaction, "idle" if there is none
  req,    \* the request being handled, Nil if there is none
  todo,   \* the receivables its loop has still to visit
  line    \* the receivable its loop is at, Nil between two iterations

vars == <<db, dirty, owner, pc, req, todo, line>>

AllocateRequest  == [op : {"allocate"}, payment : Payments, lines : Lines]
VoidPaymentRequest == [op : {"void_payment"}, payment : Payments]
CreditRequest    == [op : {"apply_credit"}, credit : Credits,
                     receivable : Receivables, amount : Amounts]
IssueBillRequest == [op : {"issue_bill"}, bill : Bills]
VoidBillRequest  == [op : {"void_bill"}, bill : Bills]

Request == AllocateRequest \cup VoidPaymentRequest \cup CreditRequest
             \cup IssueBillRequest \cup VoidBillRequest

ASSUME NilIsNothing == Nil \notin Receivables /\ Nil \notin Request

\* The statements each handler runs between its first read and its commit.
AllocateStatement ==
  {"get_receivable", "create_allocation", "update_paid", "update_unapplied"}
VoidPaymentStatement == {"list_allocations", "reverse", "void_payment"}
CreditStatement == {"get_credit_receivable", "use_credit", "update_credited"}
IssueBillStatement == {"create_bill_receivable"}
VoidBillStatement == {"get_bill_receivable", "void_receivable", "void_bill"}

Statement ==
  {"idle", "commit"} \cup AllocateStatement \cup VoidPaymentStatement
    \cup CreditStatement \cup IssueBillStatement \cup VoidBillStatement

Init ==
  /\ \E totals \in [Credits -> Amounts], billed \in [Bills -> Amounts] :
       db = [receivables |-> [r \in Receivables |-> NoReceivable],
             payments |-> [p \in Payments |-> NoPayment],
             allocations |-> [pr \in Payments \X Receivables |-> 0],
             credit_balances |->
               [c \in Credits |-> [status |-> "available",
                                   total |-> totals[c], used |-> 0]],
             lease_bills |-> [b \in Bills |-> NewBill(billed[b])]]
  /\ dirty = db
  /\ owner = [receivables |-> [r \in Receivables |-> Nil],
              payments |-> [p \in Payments |-> Nil],
              allocations |-> [pr \in Payments \X Receivables |-> Nil],
              credit_balances |-> [c \in Credits |-> Nil],
              lease_bills |-> [b \in Bills |-> Nil]]
  /\ pc = [t \in Tx |-> "idle"]
  /\ req = [t \in Tx |-> Nil]
  /\ todo = [t \in Tx |-> {}]
  /\ line = [t \in Tx |-> Nil]

At(t, stmt)  == pc[t] = stmt
Goto(t, stmt) == pc' = [pc EXCEPT ![t] = stmt]

\* The first statement of a request only reads.
Begin(t, request, rows, stmt) ==
  /\ At(t, "idle")
  /\ req' = [req EXCEPT ![t] = request]
  /\ todo' = [todo EXCEPT ![t] = rows]
  /\ Goto(t, stmt)
  /\ UNCHANGED <<storage, line>>

UnchangedRequest == UNCHANGED <<req, todo, line>>

-----------------------------------------------------------------------------
(***************************************************************************)
(* Handlers of one write.  CreateReceivable stands for every insertion of  *)
(* a receivable but a lease bill's: by hand, or for the schedule lines of  *)
(* an activated sales contract.                                            *)
(***************************************************************************)
CreateReceivable(r, amount) ==
  /\ db.receivables[r].status = "none"
  /\ WriteAndCommit("receivables", r, NewReceivable(amount))
  /\ UNCHANGED <<pc, req, todo, line>>

CreatePayment(p, amount) ==
  /\ db.payments[p].status = "none"
  /\ WriteAndCommit("payments", p, NewPayment(amount))
  /\ UNCHANGED <<pc, req, todo, line>>

PostPayment(p) ==
  /\ db.payments[p].status = "draft"
  /\ WriteAndCommit("payments", p,
                    [db.payments[p] EXCEPT !.status = "posted"])
  /\ UNCHANGED <<pc, req, todo, line>>

-----------------------------------------------------------------------------
(***************************************************************************)
(* AllocatePayment: check the payment, then for each line check the        *)
(* receivable, insert the allocation and add to the receivable's           *)
(* paid_amount, and last subtract the total from the payment's             *)
(* unapplied_amount.  The lines may come in any order; naming a receivable *)
(* twice violates the unique key and rolls back.                           *)
(***************************************************************************)
AllocatePayment_Unchecked(t, p, lines) ==   \* total not compared
  /\ Rows(lines) # {}
  /\ db.payments[p].status = "posted"
  /\ Begin(t, [op |-> "allocate", payment |-> p, lines |-> lines],
           Rows(lines), "get_receivable")

AllocatePayment(t, p, lines) ==
  /\ Rows(lines) # {}
  /\ db.payments[p].status = "posted"
  /\ Total(lines, Receivables) <= db.payments[p].unapplied
  /\ Begin(t, [op |-> "allocate", payment |-> p, lines |-> lines],
           Rows(lines), "get_receivable")

AllocateGetReceivable_ForUpdate(t, r) ==   \* locks the payment early
  /\ At(t, "get_receivable")
  /\ r \in todo[t]
  /\ AcceptsMoney(db.receivables[r])
  /\ req[t].lines[r] <= Outstanding(db.receivables[r])
  /\ Write(t, "payments", req[t].payment, dirty.payments[req[t].payment])
  /\ Goto(t, "create_allocation")
  /\ todo' = [todo EXCEPT ![t] = @ \ {r}]
  /\ line' = [line EXCEPT ![t] = r]
  /\ UNCHANGED req

AllocateGetReceivable(t, r) ==
  /\ At(t, "get_receivable")
  /\ r \in todo[t]
  /\ AcceptsMoney(db.receivables[r])
  /\ req[t].lines[r] <= Outstanding(db.receivables[r])
  /\ Goto(t, "create_allocation")
  /\ todo' = [todo EXCEPT ![t] = @ \ {r}]
  /\ line' = [line EXCEPT ![t] = r]
  /\ UNCHANGED <<storage, req>>

CreatePaymentAllocation_Upsert(t) ==   \* no unique key
  /\ At(t, "create_allocation")
  /\ Write(t, "allocations", <<req[t].payment, line[t]>>, req[t].lines[line[t]])
  /\ Goto(t, "update_paid")
  /\ UnchangedRequest

\* Waits for a concurrent insert of the same key, and fails once it commits.
CreatePaymentAllocation(t) ==
  LET key == <<req[t].payment, line[t]>>
  IN /\ At(t, "create_allocation")
     /\ dirty.allocations[key] = 0
     /\ Write(t, "allocations", key, req[t].lines[line[t]])
     /\ Goto(t, "update_paid")
     /\ UnchangedRequest

AllocateUpdatePaid_Last(t) ==   \* forgets the payment
  LET r == line[t]
  IN /\ At(t, "update_paid")
     /\ Write(t, "receivables", r,
              UpdateReceivablePaidAmount(dirty.receivables[r],
                                         req[t].lines[r]))
     /\ Goto(t, IF todo[t] = {} THEN "commit" ELSE "get_receivable")
     /\ line' = [line EXCEPT ![t] = Nil]
     /\ UNCHANGED <<req, todo>>

AllocateUpdatePaid(t) ==
  LET r == line[t]
  IN /\ At(t, "update_paid")
     /\ Write(t, "receivables", r,
              UpdateReceivablePaidAmount(dirty.receivables[r],
                                         req[t].lines[r]))
     /\ Goto(t, IF todo[t] = {} THEN "update_unapplied" ELSE "get_receivable")
     /\ line' = [line EXCEPT ![t] = Nil]
     /\ UNCHANGED <<req, todo>>

UpdatePaymentUnapplied(t) ==
  LET p == req[t].payment
  IN /\ At(t, "update_unapplied")
     /\ Write(t, "payments", p,
              [dirty.payments[p] EXCEPT
                 !.unapplied = @ - Total(req[t].lines, Receivables)])
     /\ Goto(t, "commit")
     /\ UnchangedRequest

-----------------------------------------------------------------------------
(***************************************************************************)
(* VoidPayment: check the payment, list its allocations, subtract each     *)
(* from its receivable and void the payment if it is still posted.         *)
(***************************************************************************)
VoidPayment(t, p) ==
  /\ db.payments[p].status = "posted"
  /\ Begin(t, [op |-> "void_payment", payment |-> p], {}, "list_allocations")

Allocated(p) == {r \in Receivables : db.allocations[<<p, r>>] > 0}

VoidListAllocations(t) ==
  LET rows == Allocated(req[t].payment)
  IN /\ At(t, "list_allocations")
     /\ todo' = [todo EXCEPT ![t] = rows]
     /\ Goto(t, IF rows = {} THEN "void_payment" ELSE "reverse")
     /\ UNCHANGED <<storage, req, line>>

VoidReverse(t, r) ==
  /\ At(t, "reverse")
  /\ r \in todo[t]
  /\ Write(t, "receivables", r,
           UpdateReceivablePaidAmount(dirty.receivables[r],
                                      -db.allocations[<<req[t].payment, r>>]))
  /\ todo' = [todo EXCEPT ![t] = @ \ {r}]
  /\ Goto(t, IF todo[t] = {r} THEN "void_payment" ELSE "reverse")
  /\ UNCHANGED <<req, line>>

VoidPaymentRow_Unguarded(t) ==   \* without WHERE status = 'posted'
  LET p == req[t].payment
  IN /\ At(t, "void_payment")
     /\ Write(t, "payments", p, [dirty.payments[p] EXCEPT !.status = "voided"])
     /\ Goto(t, "commit")
     /\ UnchangedRequest

VoidPaymentRow(t) ==
  LET p == req[t].payment
  IN /\ At(t, "void_payment")
     /\ dirty.payments[p].status = "posted"
     /\ Write(t, "payments", p, [dirty.payments[p] EXCEPT !.status = "voided"])
     /\ Goto(t, "commit")
     /\ UnchangedRequest

-----------------------------------------------------------------------------
(***************************************************************************)
(* ApplyCreditBalance: check the credit balance, check the receivable,     *)
(* use the credit if it is still available, credit the receivable.         *)
(***************************************************************************)
ApplyCredit(t, c, r, amount) ==
  /\ db.credit_balances[c].status = "available"
  /\ amount <= Remaining(db.credit_balances[c])
  /\ Begin(t, [op |-> "apply_credit", credit |-> c, receivable |-> r,
               amount |-> amount], {}, "get_credit_receivable")

CreditGetReceivable(t) ==
  LET row == db.receivables[req[t].receivable]
  IN /\ At(t, "get_credit_receivable")
     /\ AcceptsMoney(row)
     /\ req[t].amount <= Outstanding(row)
     /\ Goto(t, "use_credit")
     /\ UNCHANGED <<storage, req, todo, line>>

CreditUse(t) ==
  LET c == req[t].credit
  IN /\ At(t, "use_credit")
     /\ dirty.credit_balances[c].status = "available"
     /\ Write(t, "credit_balances", c,
              ApplyCreditBalance(dirty.credit_balances[c], req[t].amount))
     /\ Goto(t, "update_credited")
     /\ UnchangedRequest

CreditUpdateCredited(t) ==
  LET r == req[t].receivable
  IN /\ At(t, "update_credited")
     /\ Write(t, "receivables", r,
              UpdateReceivableCreditedAmount(dirty.receivables[r],
                                             req[t].amount))
     /\ Goto(t, "commit")
     /\ UnchangedRequest

-----------------------------------------------------------------------------
(***************************************************************************)
(* IssueLeaseBill: check the bill, insert its receivable, link it if none  *)
(* is linked yet and set the bill to issued if it is still draft.  The     *)
(* inserted row is nobody else's to see or wait for, so the three          *)
(* statements are one step, at the UPDATE of the bill.  The audit entry    *)
(* that follows, here and in VoidLeaseBill, is read by no handler.         *)
(***************************************************************************)
IssueLeaseBill(t, b) ==
  /\ db.lease_bills[b].status = "draft"
  /\ Begin(t, [op |-> "issue_bill", bill |-> b], {}, "create_bill_receivable")

IssueCreateReceivable(t) ==
  LET b == req[t].bill
  IN /\ At(t, "create_bill_receivable")
     /\ Free(t, "lease_bills", b)
     /\ dirty.lease_bills[b].status = "draft"
     /\ dirty.receivables[b].status = "none"
     /\ dirty' = [dirty EXCEPT
                    !.receivables[b] = NewReceivable(db.lease_bills[b].billed),
                    !.lease_bills[b].status = "issued"]
     /\ owner' = [owner EXCEPT !.receivables[b] = t, !.lease_bills[b] = t]
     /\ db' = db
     /\ Goto(t, "commit")
     /\ UnchangedRequest

(***************************************************************************)
(* VoidLeaseBill: a draft bill is voided; an issued one only after its     *)
(* receivable, found open, has been voided.  The UPDATE of the bill takes  *)
(* it from draft or issued, whichever was read.                            *)
(***************************************************************************)
VoidLeaseBill(t, b) ==
  /\ db.lease_bills[b].status \in {"draft", "issued"}
  /\ Begin(t, [op |-> "void_bill", bill |-> b], {},
           IF db.lease_bills[b].status = "draft" THEN "void_bill"
                                                 ELSE "get_bill_receivable")

VoidBillGetReceivable(t) ==
  /\ At(t, "get_bill_receivable")
  /\ db.receivables[req[t].bill].status = "open"
  /\ Goto(t, "void_receivable")
  /\ UNCHANGED <<storage, req, todo, line>>

VoidReceivable_Unguarded(t) ==   \* without WHERE status = 'open'
  LET r == req[t].bill
  IN /\ At(t, "void_receivable")
     /\ Write(t, "receivables", r,
              [dirty.receivables[r] EXCEPT !.status = "voided"])
     /\ Goto(t, "void_bill")
     /\ UnchangedRequest

VoidReceivable(t) ==
  LET r == req[t].bill
  IN /\ At(t, "void_receivable")
     /\ dirty.receivables[r].status = "open"
     /\ Write(t, "receivables", r,
              [dirty.receivables[r] EXCEPT !.status = "voided"])
     /\ Goto(t, "void_bill")
     /\ UnchangedRequest

VoidBillRow(t) ==
  LET b == req[t].bill
  IN /\ At(t, "void_bill")
     /\ dirty.lease_bills[b].status \in {"draft", "issued"}
     /\ Write(t, "lease_bills", b,
              [dirty.lease_bills[b] EXCEPT !.status = "voided"])
     /\ Goto(t, "commit")
     /\ UnchangedRequest

-----------------------------------------------------------------------------
EndRequest(t) ==
  /\ Goto(t, "idle")
  /\ req' = [req EXCEPT ![t] = Nil]
  /\ todo' = [todo EXCEPT ![t] = {}]
  /\ line' = [line EXCEPT ![t] = Nil]

Commit(t) == At(t, "commit") /\ CommitTx(t) /\ EndRequest(t)

Rollback(t) == ~At(t, "idle") /\ RollbackTx(t) /\ EndRequest(t)

SingleWrite ==
  \/ \E r \in Receivables \ Bills, a \in Amounts : CreateReceivable(r, a)
  \/ \E p \in Payments, a \in Amounts : CreatePayment(p, a)
  \/ \E p \in Payments : PostPayment(p)

Start(t) ==
  \/ \E p \in Payments, lines \in Lines : AllocatePayment(t, p, lines)
  \/ \E p \in Payments : VoidPayment(t, p)
  \/ \E c \in Credits, r \in Receivables, a \in Amounts : ApplyCredit(t, c, r, a)
  \/ \E b \in Bills : IssueLeaseBill(t, b)
  \/ \E b \in Bills : VoidLeaseBill(t, b)

Step(t) ==
  \/ \E r \in Receivables : AllocateGetReceivable(t, r)
  \/ CreatePaymentAllocation(t)
  \/ AllocateUpdatePaid(t)
  \/ UpdatePaymentUnapplied(t)
  \/ VoidListAllocations(t)
  \/ \E r \in Receivables : VoidReverse(t, r)
  \/ VoidPaymentRow(t)
  \/ CreditGetReceivable(t)
  \/ CreditUse(t)
  \/ CreditUpdateCredited(t)
  \/ IssueCreateReceivable(t)
  \/ VoidBillGetReceivable(t)
  \/ VoidReceivable(t)
  \/ VoidBillRow(t)
  \/ Commit(t)
  \/ Rollback(t)

Next == SingleWrite \/ \E t \in Tx : Start(t) \/ Step(t)

Spec == Init /\ [][Next]_vars
==============================================================================
