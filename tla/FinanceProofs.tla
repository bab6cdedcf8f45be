---------------------------- MODULE FinanceProofs ----------------------------
(***************************************************************************)
(* Proofs about Finance, for any number of requests, rows and amounts.     *)
(* The tables and the requests keep their types, and no cent of a payment  *)
(* is lost or invented, because AllocationsMatchLocks is inductive.  The   *)
(* handlers keep the books: every step changes the committed tables by one *)
(* operation of Ledger, or leaves them alone, because LocksAreOperations   *)
(* is inductive and says what the commit of a transaction publishes.  What *)
(* is true of the operations of Ledger is then true of the handlers.       *)
(* While one request is handled at a time ChecksHold is inductive too, so  *)
(* the operations are those of the strict Ledger and what these keep holds *)
(* as well.                                                                *)
(***************************************************************************)
EXTENDS MCFinance, ReadCommittedProofs, FiniteSetTheorems, TLAPS

-----------------------------------------------------------------------------
(***************************************************************************)
(* Sums of cents, and the UPDATE statements.                               *)
(***************************************************************************)

\* The cents counted by Total are finitely many, so a total of amounts is a
\* natural number.
LEMMA TotalType ==
  ASSUME NEW S, IsFiniteSet(S), NEW f, \A x \in S : f[x] \in Nat
  PROVE  IsFiniteSet(Cents(f, S)) /\ Total(f, S) \in Nat
<1> DEFINE Column(x) == {x} \X (1 .. f[x])
           Columns == {Column(x) : x \in S}
           column == [x \in S |-> Column(x)]
<1>1. ASSUME NEW x \in S PROVE IsFiniteSet(Column(x))
  <2>1. IsFiniteSet({x})
    BY FS_Singleton
  <2>2. IsFiniteSet(1 .. f[x])
    BY FS_Interval
  <2> QED BY <2>1, <2>2, FS_Product
<1>2. column \in Surjection(S, Columns)
  BY DEF Surjection
<1>3. IsFiniteSet(Columns)
  <2> HIDE DEF Columns, column
  <2> QED BY <1>2, FS_Surjection
<1>4. IsFiniteSet(UNION Columns)
  BY <1>1, <1>3, FS_UNION
<1> QED BY <1>4, FS_CardinalityType DEF Cents, Total

\* What a request allocates in all is a natural number.
LEMMA LinesTotalType ==
  ASSUME NEW lines \in Lines
  PROVE  /\ \A r \in Receivables : lines[r] \in Nat
         /\ Total(lines, Receivables) \in Nat
<1>1. IsFiniteSet(Receivables) /\ Amounts \cup {0} \subseteq Nat
  BY TablesAssumption
<1>2. \A r \in Receivables : lines[r] \in Nat
  BY <1>1 DEF Lines
<1> QED BY <1>1, <1>2, TotalType

\* The UPDATE statements turn rows into rows.
LEMMA UpdateTypes ==
  /\ \A row \in ReceivableRow, amount \in Int :
       UpdateReceivablePaidAmount(row, amount) \in ReceivableRow
  /\ \A row \in ReceivableRow, amount \in Amounts :
       UpdateReceivableCreditedAmount(row, amount) \in ReceivableRow
  /\ \A row \in CreditRow, amount \in Amounts :
       ApplyCreditBalance(row, amount) \in CreditRow
<1>1. ASSUME NEW row \in ReceivableRow, NEW amount \in Int
      PROVE  UpdateReceivablePaidAmount(row, amount) \in ReceivableRow
  BY DEF UpdateReceivablePaidAmount, ReceivableRow
<1>2. ASSUME NEW row \in ReceivableRow, NEW amount \in Amounts
      PROVE  UpdateReceivableCreditedAmount(row, amount) \in ReceivableRow
  BY TablesAssumption DEF UpdateReceivableCreditedAmount, ReceivableRow
<1>3. ASSUME NEW row \in CreditRow, NEW amount \in Amounts
      PROVE  ApplyCreditBalance(row, amount) \in CreditRow
  BY TablesAssumption DEF ApplyCreditBalance, CreditRow
<1> QED BY <1>1, <1>2, <1>3

-----------------------------------------------------------------------------
(***************************************************************************)
(* Type correctness.  RequestOK makes TypeOK inductive: a statement finds  *)
(* the request its handler began.                                          *)
(***************************************************************************)
ControlTypeOK ==
  /\ pc \in [Tx -> Statement]
  /\ req \in [Tx -> Request \cup {Nil}]
  /\ todo \in [Tx -> SUBSET Receivables]
  /\ line \in [Tx -> Receivables \cup {Nil}]
  /\ \A t \in Tx : RequestOK(t)

StorageTypeOK == db \in Tables /\ dirty \in Tables /\ owner \in Locks

LEMMA TypeOKParts == TypeOK <=> StorageTypeOK /\ ControlTypeOK
BY DEF TypeOK, StorageTypeOK, ControlTypeOK

USE DEF At, Goto

LEMMA InitTypeOK == Init => TypeOK
<1> SUFFICES ASSUME Init PROVE TypeOK
  OBVIOUS
<1>1. PICK totals \in [Credits -> Amounts], billed \in [Bills -> Amounts] :
       db = [receivables |-> [r \in Receivables |-> NoReceivable],
             payments |-> [p \in Payments |-> NoPayment],
             allocations |-> [pr \in Payments \X Receivables |-> 0],
             credit_balances |->
               [c \in Credits |-> [status |-> "available",
                                   total |-> totals[c], used |-> 0]],
             lease_bills |-> [b \in Bills |-> NewBill(billed[b])]]
  BY DEF Init
<1>2. db \in Tables
  <2>1. NoReceivable \in ReceivableRow /\ NoPayment \in PaymentRow
    BY DEF NoReceivable, NoPayment, ReceivableRow, PaymentRow
  <2>2. \A c \in Credits :
          [status |-> "available", total |-> totals[c], used |-> 0]
            \in CreditRow
    BY TablesAssumption DEF CreditRow
  <2>3. \A b \in Bills : NewBill(billed[b]) \in BillRow
    BY DEF NewBill, BillRow
  <2> QED BY <1>1, <2>1, <2>2, <2>3 DEF Tables
<1>3. owner \in Locks
  BY DEF Init, Locks
<1>4. ControlTypeOK
  BY DEF Init, ControlTypeOK, Statement, RequestOK, AllocateStatement,
         VoidPaymentStatement, CreditStatement, IssueBillStatement,
         VoidBillStatement
<1> QED BY <1>2, <1>3, <1>4, TypeOKParts DEF Init, StorageTypeOK

\* Writing, committing and rolling back keep the tables' types.
LEMMA WriteType ==
  ASSUME StorageTypeOK, NEW t \in Tx
  PROVE  /\ \A r \in Receivables, row \in ReceivableRow :
              Write(t, "receivables", r, row) => StorageTypeOK'
         /\ \A p \in Payments, row \in PaymentRow :
              Write(t, "payments", p, row) => StorageTypeOK'
         /\ \A pr \in Payments \X Receivables, n \in Nat :
              Write(t, "allocations", pr, n) => StorageTypeOK'
         /\ \A c \in Credits, row \in CreditRow :
              Write(t, "credit_balances", c, row) => StorageTypeOK'
         /\ \A b \in Bills, row \in BillRow :
              Write(t, "lease_bills", b, row) => StorageTypeOK'
<1> USE DEF StorageTypeOK, Tables, Locks, Write
<1>1. ASSUME NEW r \in Receivables, NEW row \in ReceivableRow,
             Write(t, "receivables", r, row)
      PROVE  StorageTypeOK'
  BY <1>1
<1>2. ASSUME NEW p \in Payments, NEW row \in PaymentRow,
             Write(t, "payments", p, row)
      PROVE  StorageTypeOK'
  BY <1>2
<1>3. ASSUME NEW pr \in Payments \X Receivables, NEW n \in Nat,
             Write(t, "allocations", pr, n)
      PROVE  StorageTypeOK'
  BY <1>3
<1>4. ASSUME NEW c \in Credits, NEW row \in CreditRow,
             Write(t, "credit_balances", c, row)
      PROVE  StorageTypeOK'
  BY <1>4
<1>5. ASSUME NEW b \in Bills, NEW row \in BillRow,
             Write(t, "lease_bills", b, row)
      PROVE  StorageTypeOK'
  BY <1>5
<1> QED
  <2> HIDE DEF StorageTypeOK, Write
  <2> QED BY <1>1, <1>2, <1>3, <1>4, <1>5

LEMMA SingleWriteType ==
  ASSUME StorageTypeOK
  PROVE  /\ \A r \in Receivables, row \in ReceivableRow :
              WriteAndCommit("receivables", r, row) => StorageTypeOK'
         /\ \A p \in Payments, row \in PaymentRow :
              WriteAndCommit("payments", p, row) => StorageTypeOK'
<1> USE DEF StorageTypeOK, Tables, Locks, WriteAndCommit
<1>1. ASSUME NEW r \in Receivables, NEW row \in ReceivableRow,
             WriteAndCommit("receivables", r, row)
      PROVE  StorageTypeOK'
  BY <1>1
<1>2. ASSUME NEW p \in Payments, NEW row \in PaymentRow,
             WriteAndCommit("payments", p, row)
      PROVE  StorageTypeOK'
  BY <1>2
<1> QED
  <2> HIDE DEF StorageTypeOK, WriteAndCommit
  <2> QED BY <1>1, <1>2

LEMMA EndType ==
  ASSUME StorageTypeOK, NEW t \in Tx, CommitTx(t) \/ RollbackTx(t)
  PROVE  StorageTypeOK'
<1>1. owner' \in Locks
  BY DEF StorageTypeOK, Locks, CommitTx, RollbackTx, Unlocked
<1>2. CASE CommitTx(t)
  BY <1>1, <1>2 DEF StorageTypeOK, Tables, CommitTx, Sees
<1>3. CASE RollbackTx(t)
  BY <1>1, <1>3 DEF StorageTypeOK, Tables, RollbackTx
<1> QED BY <1>2, <1>3
-----------------------------------------------------------------------------
\* What a request remembers keeps its type, for any step of one transaction
\* that moves it to a statement of the same request.
LEMMA StartControl ==
  ASSUME ControlTypeOK, NEW t \in Tx, Start(t)
  PROVE  ControlTypeOK' /\ UNCHANGED storage
<1> USE DEF ControlTypeOK, RequestOK, Statement, AllocateStatement,
            VoidPaymentStatement, CreditStatement, IssueBillStatement,
            VoidBillStatement, Request, Begin
<1>1. ASSUME NEW p \in Payments, NEW lines \in Lines,
             AllocatePayment(t, p, lines)
      PROVE  ControlTypeOK' /\ UNCHANGED storage
  BY <1>1 DEF AllocatePayment, AllocateRequest, Rows
<1>2. ASSUME NEW p \in Payments, VoidPayment(t, p)
      PROVE  ControlTypeOK' /\ UNCHANGED storage
  BY <1>2 DEF VoidPayment, VoidPaymentRequest
<1>3. ASSUME NEW c \in Credits, NEW r \in Receivables, NEW a \in Amounts,
             ApplyCredit(t, c, r, a)
      PROVE  ControlTypeOK' /\ UNCHANGED storage
  BY <1>3 DEF ApplyCredit, CreditRequest
<1>4. ASSUME NEW b \in Bills, IssueLeaseBill(t, b)
      PROVE  ControlTypeOK' /\ UNCHANGED storage
  BY <1>4 DEF IssueLeaseBill, IssueBillRequest
<1>5. ASSUME NEW b \in Bills, VoidLeaseBill(t, b)
      PROVE  ControlTypeOK' /\ UNCHANGED storage
  BY <1>5 DEF VoidLeaseBill, VoidBillRequest
<1> HIDE DEF ControlTypeOK
<1> QED BY <1>1, <1>2, <1>3, <1>4, <1>5 DEF Start

LEMMA StepControl ==
  ASSUME ControlTypeOK, NEW t \in Tx, Step(t)
  PROVE  ControlTypeOK'
<1> USE DEF ControlTypeOK, RequestOK, Statement, AllocateStatement,
            VoidPaymentStatement, CreditStatement, IssueBillStatement,
            VoidBillStatement, Request, UnchangedRequest
<1>1. ASSUME NEW r \in Receivables, AllocateGetReceivable(t, r) PROVE ControlTypeOK'
  BY <1>1 DEF AllocateGetReceivable
<1>2. ASSUME CreatePaymentAllocation(t) PROVE ControlTypeOK'
  BY <1>2 DEF CreatePaymentAllocation
<1>3. ASSUME AllocateUpdatePaid(t) PROVE ControlTypeOK'
  BY <1>3 DEF AllocateUpdatePaid
<1>4. ASSUME UpdatePaymentUnapplied(t) PROVE ControlTypeOK'
  BY <1>4 DEF UpdatePaymentUnapplied
<1>5. ASSUME VoidListAllocations(t) PROVE ControlTypeOK'
  BY <1>5 DEF VoidListAllocations, Allocated
<1>6. ASSUME NEW r \in Receivables, VoidReverse(t, r) PROVE ControlTypeOK'
  BY <1>6 DEF VoidReverse
<1>7. ASSUME VoidPaymentRow(t) PROVE ControlTypeOK'
  BY <1>7 DEF VoidPaymentRow
<1>8. ASSUME CreditGetReceivable(t) PROVE ControlTypeOK'
  BY <1>8 DEF CreditGetReceivable
<1>9. ASSUME CreditUse(t) PROVE ControlTypeOK'
  BY <1>9 DEF CreditUse
<1>10. ASSUME CreditUpdateCredited(t) PROVE ControlTypeOK'
  BY <1>10 DEF CreditUpdateCredited
<1>11. ASSUME IssueCreateReceivable(t) PROVE ControlTypeOK'
  BY <1>11 DEF IssueCreateReceivable
<1>12. ASSUME VoidBillGetReceivable(t) PROVE ControlTypeOK'
  BY <1>12 DEF VoidBillGetReceivable
<1>13. ASSUME VoidReceivable(t) PROVE ControlTypeOK'
  BY <1>13 DEF VoidReceivable
<1>14. ASSUME VoidBillRow(t) PROVE ControlTypeOK'
  BY <1>14 DEF VoidBillRow
<1>15. ASSUME Commit(t) PROVE ControlTypeOK'
  BY <1>15 DEF Commit, EndRequest
<1>16. ASSUME Rollback(t) PROVE ControlTypeOK'
  BY <1>16 DEF Rollback, EndRequest
<1> HIDE DEF ControlTypeOK
<1> QED
  BY <1>1, <1>2, <1>3, <1>4, <1>5, <1>6, <1>7, <1>8,
     <1>9, <1>10, <1>11, <1>12, <1>13, <1>14, <1>15, <1>16 DEF Step

\* Every statement that writes, writes a row of its table's type.
LEMMA StepStorage ==
  ASSUME TypeOK, NEW t \in Tx, Step(t)
  PROVE  StorageTypeOK'
<1>0. StorageTypeOK /\ RequestOK(t)
  BY DEF TypeOK, StorageTypeOK
<1>r. \A r \in Receivables : dirty.receivables[r] \in ReceivableRow
  BY <1>0 DEF StorageTypeOK, Tables
<1>p. \A p \in Payments : dirty.payments[p] \in PaymentRow
  BY <1>0 DEF StorageTypeOK, Tables
<1>c. \A c \in Credits : dirty.credit_balances[c] \in CreditRow
  BY <1>0 DEF StorageTypeOK, Tables
<1>b. /\ \A b \in Bills : dirty.lease_bills[b] \in BillRow
      /\ \A b \in Bills : db.lease_bills[b].billed \in Nat
      /\ Bills \subseteq Receivables /\ Amounts \subseteq Nat
  BY <1>0, TablesAssumption DEF StorageTypeOK, Tables, BillRow
<1>l. \A pr \in Payments \X Receivables : db.allocations[pr] \in Nat
  BY <1>0 DEF StorageTypeOK, Tables
<1>s. ASSUME UNCHANGED storage PROVE StorageTypeOK'
  BY <1>0, <1>s DEF StorageTypeOK, storage
<1>1. ASSUME NEW r \in Receivables, AllocateGetReceivable(t, r)
      PROVE  StorageTypeOK'
  BY <1>1, <1>s DEF AllocateGetReceivable
<1>2. ASSUME CreatePaymentAllocation(t) PROVE StorageTypeOK'
  <2>1. /\ req[t].payment \in Payments /\ line[t] \in Receivables
        /\ req[t].lines \in Lines
    BY <1>0, <1>2 DEF CreatePaymentAllocation, RequestOK, AllocateStatement,
         AllocateRequest
  <2>2. req[t].lines[line[t]] \in Nat
    BY <2>1, LinesTotalType
  <2> QED BY <1>0, <1>2, <2>1, <2>2, WriteType DEF CreatePaymentAllocation
<1>3. ASSUME AllocateUpdatePaid(t) PROVE StorageTypeOK'
  <2>1. line[t] \in Receivables /\ req[t].lines \in Lines
    BY <1>0, <1>3 DEF AllocateUpdatePaid, RequestOK, AllocateStatement,
         AllocateRequest
  <2>2. req[t].lines[line[t]] \in Int
    BY <2>1, LinesTotalType
  <2> QED BY <1>0, <1>r, <1>3, <2>1, <2>2, WriteType, UpdateTypes
          DEF AllocateUpdatePaid
<1>4. ASSUME UpdatePaymentUnapplied(t) PROVE StorageTypeOK'
  <2>1. req[t].payment \in Payments /\ req[t].lines \in Lines
    BY <1>0, <1>4 DEF UpdatePaymentUnapplied, RequestOK, AllocateStatement,
         AllocateRequest
  <2> DEFINE p == req[t].payment
             row == [dirty.payments[p] EXCEPT
                       !.unapplied = @ - Total(req[t].lines, Receivables)]
  <2>2. row \in PaymentRow
    BY <1>p, <2>1, LinesTotalType DEF PaymentRow
  <2>3. Write(t, "payments", p, row)
    BY <1>4 DEF UpdatePaymentUnapplied
  <2> HIDE DEF row
  <2> QED BY <1>0, <2>1, <2>2, <2>3, WriteType
<1>5. ASSUME VoidListAllocations(t) PROVE StorageTypeOK'
  BY <1>5, <1>s DEF VoidListAllocations
<1>6. ASSUME NEW r \in Receivables, VoidReverse(t, r) PROVE StorageTypeOK'
  <2>1. req[t].payment \in Payments
    BY <1>0, <1>6 DEF VoidReverse, RequestOK, VoidPaymentStatement,
         VoidPaymentRequest
  <2>2. -db.allocations[<<req[t].payment, r>>] \in Int
    BY <1>l, <2>1
  <2> QED BY <1>0, <1>r, <1>6, <2>2, WriteType, UpdateTypes DEF VoidReverse
<1>7. ASSUME VoidPaymentRow(t) PROVE StorageTypeOK'
  <2>1. req[t].payment \in Payments
    BY <1>0, <1>7 DEF VoidPaymentRow, RequestOK, VoidPaymentStatement,
         VoidPaymentRequest
  <2>2. [dirty.payments[req[t].payment] EXCEPT !.status = "voided"]
          \in PaymentRow
    BY <1>p, <2>1 DEF PaymentRow
  <2> QED BY <1>0, <1>7, <2>1, <2>2, WriteType DEF VoidPaymentRow
<1>8. ASSUME CreditGetReceivable(t) PROVE StorageTypeOK'
  BY <1>8, <1>s DEF CreditGetReceivable
<1>9. ASSUME CreditUse(t) PROVE StorageTypeOK'
  <2>1. req[t].credit \in Credits /\ req[t].amount \in Amounts
    BY <1>0, <1>9 DEF CreditUse, RequestOK, CreditStatement, CreditRequest
  <2> QED BY <1>0, <1>c, <1>9, <2>1, WriteType, UpdateTypes DEF CreditUse
<1>10. ASSUME CreditUpdateCredited(t) PROVE StorageTypeOK'
  <2>1. req[t].receivable \in Receivables /\ req[t].amount \in Amounts
    BY <1>0, <1>10 DEF CreditUpdateCredited, RequestOK, CreditStatement,
         CreditRequest
  <2> QED BY <1>0, <1>r, <1>10, <2>1, WriteType, UpdateTypes
          DEF CreditUpdateCredited
<1>11. ASSUME IssueCreateReceivable(t) PROVE StorageTypeOK'
  <2>1. req[t].bill \in Bills
    BY <1>0, <1>11 DEF IssueCreateReceivable, RequestOK, IssueBillStatement,
         IssueBillRequest
  <2> DEFINE b == req[t].bill
             row == NewReceivable(db.lease_bills[b].billed)
  <2>2. row \in ReceivableRow
    BY <1>b, <2>1 DEF NewReceivable, ReceivableRow
  <2>3. /\ db' = db
        /\ dirty' = [dirty EXCEPT !.receivables[b] = row,
                                  !.lease_bills[b].status = "issued"]
        /\ owner' = [owner EXCEPT !.receivables[b] = t, !.lease_bills[b] = t]
    BY <1>11 DEF IssueCreateReceivable
  <2>4. dirty' \in Tables
    <3> HIDE DEF row
    <3>1. [dirty.lease_bills[b] EXCEPT !.status = "issued"] \in BillRow
      BY <1>b, <2>1 DEF BillRow
    <3> QED BY <1>0, <1>b, <2>1, <2>2, <2>3, <3>1 DEF StorageTypeOK, Tables
  <2>5. owner' \in Locks
    BY <1>0, <1>b, <2>1, <2>3 DEF StorageTypeOK, Locks
  <2> QED BY <1>0, <2>3, <2>4, <2>5 DEF StorageTypeOK
<1>12. ASSUME VoidBillGetReceivable(t) PROVE StorageTypeOK'
  BY <1>12, <1>s DEF VoidBillGetReceivable
<1>13. ASSUME VoidReceivable(t) PROVE StorageTypeOK'
  <2>1. req[t].bill \in Receivables
    BY <1>0, <1>b, <1>13 DEF VoidReceivable, RequestOK, VoidBillStatement,
         VoidBillRequest
  <2>2. [dirty.receivables[req[t].bill] EXCEPT !.status = "voided"]
          \in ReceivableRow
    BY <1>r, <2>1 DEF ReceivableRow
  <2> QED BY <1>0, <1>13, <2>1, <2>2, WriteType DEF VoidReceivable
<1>14. ASSUME VoidBillRow(t) PROVE StorageTypeOK'
  <2>1. req[t].bill \in Bills
    BY <1>0, <1>14 DEF VoidBillRow, RequestOK, VoidBillStatement,
         VoidBillRequest
  <2>2. [dirty.lease_bills[req[t].bill] EXCEPT !.status = "voided"] \in BillRow
    BY <1>b, <2>1 DEF BillRow
  <2> QED BY <1>0, <1>14, <2>1, <2>2, WriteType DEF VoidBillRow
<1>15. ASSUME Commit(t) \/ Rollback(t) PROVE StorageTypeOK'
  BY <1>0, <1>15, EndType DEF Commit, Rollback
<1> QED
  BY <1>1, <1>2, <1>3, <1>4, <1>5, <1>6, <1>7, <1>8, <1>9, <1>10, <1>11,
     <1>12, <1>13, <1>14, <1>15 DEF Step

LEMMA SingleWriteTypeOK == TypeOK /\ SingleWrite => TypeOK'
<1> SUFFICES ASSUME TypeOK, SingleWrite PROVE TypeOK'
  OBVIOUS
<1>0. StorageTypeOK
  BY DEF TypeOK, StorageTypeOK
<1>1. StorageTypeOK' /\ UNCHANGED <<pc, req, todo, line>>
  <2>1. ASSUME NEW r \in Receivables \ Bills, NEW a \in Amounts,
               CreateReceivable(r, a)
        PROVE  StorageTypeOK' /\ UNCHANGED <<pc, req, todo, line>>
    <3>1. NewReceivable(a) \in ReceivableRow
      BY TablesAssumption DEF NewReceivable, ReceivableRow
    <3> QED BY <1>0, <2>1, <3>1, SingleWriteType DEF CreateReceivable
  <2>2. ASSUME NEW p \in Payments, NEW a \in Amounts, CreatePayment(p, a)
        PROVE  StorageTypeOK' /\ UNCHANGED <<pc, req, todo, line>>
    <3>1. NewPayment(a) \in PaymentRow
      BY TablesAssumption DEF NewPayment, PaymentRow
    <3> QED BY <1>0, <2>2, <3>1, SingleWriteType DEF CreatePayment
  <2>3. ASSUME NEW p \in Payments, PostPayment(p)
        PROVE  StorageTypeOK' /\ UNCHANGED <<pc, req, todo, line>>
    <3>1. db.payments[p] \in PaymentRow
      BY <1>0 DEF StorageTypeOK, Tables
    <3>2. [db.payments[p] EXCEPT !.status = "posted"] \in PaymentRow
      BY <3>1 DEF PaymentRow
    <3> QED BY <1>0, <2>3, <3>2, SingleWriteType DEF PostPayment
  <2> QED BY <2>1, <2>2, <2>3 DEF SingleWrite
<1>2. ControlTypeOK'
  BY <1>1, TypeOKParts DEF ControlTypeOK, RequestOK
<1> QED BY <1>1, <1>2 DEF TypeOK, StorageTypeOK, ControlTypeOK

LEMMA NextTypeOK == TypeOK /\ [Next]_vars => TypeOK'
<1> SUFFICES ASSUME TypeOK, [Next]_vars PROVE TypeOK'
  OBVIOUS
<1>0. StorageTypeOK /\ ControlTypeOK
  BY TypeOKParts
<1>t. ASSUME StorageTypeOK', ControlTypeOK' PROVE TypeOK'
  BY <1>t DEF TypeOK, StorageTypeOK, ControlTypeOK
<1>1. CASE SingleWrite
  BY <1>1, SingleWriteTypeOK
<1>2. ASSUME NEW t \in Tx, Start(t) PROVE TypeOK'
  BY <1>0, <1>2, <1>t, StartControl DEF StorageTypeOK, storage
<1>3. ASSUME NEW t \in Tx, Step(t) PROVE TypeOK'
  BY <1>0, <1>3, <1>t, StepControl, StepStorage
<1>4. CASE UNCHANGED vars
  BY <1>0, <1>4, <1>t DEF vars, StorageTypeOK, ControlTypeOK, RequestOK
<1> QED BY <1>1, <1>2, <1>3, <1>4 DEF Next

\* Every reachable state is of its types: each statement finds the request
\* its handler began and writes a row its table allows.
THEOREM TypeCorrect == Spec => []TypeOK
<1>1. Init => TypeOK
  BY InitTypeOK
<1>2. TypeOK /\ [Next]_vars => TypeOK'
  BY NextTypeOK
<1> QED BY <1>1, <1>2, PTL DEF Spec

-----------------------------------------------------------------------------
(***************************************************************************)
(* What a statement does to the tables, one by one.                        *)
(***************************************************************************)
TableName ==
  {"receivables", "payments", "allocations", "credit_balances", "lease_bills"}

LEMMA StorageTabular ==
  ASSUME StorageTypeOK
  PROVE  /\ Tabular /\ DOMAIN db = TableName
         /\ \A tab \in TableName : DOMAIN owner[tab] = DOMAIN db[tab]
BY DEF StorageTypeOK, Tables, Locks, TableName, Tabular

\* What Write does, table by table.
LEMMA WriteEffect ==
  ASSUME StorageTypeOK, NEW t \in Tx, NEW tab \in TableName,
         NEW id \in DOMAIN owner[tab], NEW row, Write(t, tab, id, row)
  PROVE  /\ db' = db
         /\ dirty'[tab] = [dirty[tab] EXCEPT ![id] = row]
         /\ owner'[tab] = [owner[tab] EXCEPT ![id] = t]
         /\ \A other \in TableName \ {tab} :
              dirty'[other] = dirty[other] /\ owner'[other] = owner[other]
         /\ DirtyIsCommitted => DirtyIsCommitted'
BY StorageTabular, WriteChanges

LEMMA SingleWriteEffect ==
  ASSUME StorageTypeOK, NEW tab \in TableName,
         NEW id \in DOMAIN owner[tab], NEW row, WriteAndCommit(tab, id, row)
  PROVE  /\ owner' = owner
         /\ db'[tab] = [db[tab] EXCEPT ![id] = row]
         /\ dirty'[tab] = [dirty[tab] EXCEPT ![id] = row]
         /\ \A other \in TableName \ {tab} :
              dirty'[other] = dirty[other] /\ db'[other] = db[other]
         /\ DirtyIsCommitted => DirtyIsCommitted'
BY StorageTabular, WriteAndCommitChanges

\* A transaction that ends leaves no locks, and committed rows where it had.
LEMMA EndEffect ==
  ASSUME StorageTypeOK, NEW t \in Tx, CommitTx(t) \/ RollbackTx(t)
  PROVE  /\ DOMAIN owner' = TableName
         /\ \A tab \in TableName :
              /\ DOMAIN owner'[tab] = DOMAIN owner[tab]
              /\ \A id \in DOMAIN owner[tab] :
                   /\ owner'[tab][id] =
                        IF owner[tab][id] = t THEN Nil ELSE owner[tab][id]
                   /\ CommitTx(t) =>
                        /\ dirty'[tab][id] = dirty[tab][id]
                        /\ db'[tab][id] = IF owner[tab][id] = t
                             THEN dirty[tab][id] ELSE db[tab][id]
                   /\ RollbackTx(t) =>
                        /\ db'[tab][id] = db[tab][id]
                        /\ dirty'[tab][id] = IF owner[tab][id] = t
                             THEN db[tab][id] ELSE dirty[tab][id]
         /\ DirtyIsCommitted => DirtyIsCommitted'
<1>1. StorageTypeOK /\ Tabular /\ DOMAIN db = TableName
  BY StorageTabular
<1>2. Tabular' /\ DOMAIN db' = DOMAIN db
  BY <1>1, EndChanges
<1> QED BY <1>1, <1>2, EndChanges DEF Tabular

-----------------------------------------------------------------------------
(***************************************************************************)
(* Payments are conserved.                                                 *)
(***************************************************************************)
\* Where of two amounts at most one is not 0, the total is that of both.
LEMMA TotalSum ==
  ASSUME NEW S, IsFiniteSet(S), NEW f, NEW g, NEW h,
         \A x \in S : /\ f[x] \in Nat /\ g[x] \in Nat /\ h[x] \in Nat
                      /\ \/ f[x] = 0 /\ h[x] = g[x]
                         \/ g[x] = 0 /\ h[x] = f[x]
  PROVE  Total(h, S) = Total(f, S) + Total(g, S)
<1>1. Cents(h, S) = Cents(f, S) \cup Cents(g, S)
  BY DEF Cents
<1>2. Cents(f, S) \cap Cents(g, S) = {}
  BY DEF Cents
<1>3. IsFiniteSet(Cents(f, S)) /\ IsFiniteSet(Cents(g, S))
  BY TotalType
<1>4. /\ Cardinality(Cents(f, S)) \in Nat /\ Cardinality(Cents(g, S)) \in Nat
      /\ Cardinality({}) = 0
  BY <1>3, FS_CardinalityType, FS_EmptySet
<1>5. Cardinality(Cents(h, S)) =
        Cardinality(Cents(f, S)) + Cardinality(Cents(g, S)) - Cardinality({})
  BY <1>1, <1>2, <1>3, FS_Union, ZenonT(20)
<1> QED BY <1>4, <1>5 DEF Total

\* A total does not depend on anything outside its set.
LEMMA TotalEqual ==
  ASSUME NEW S, NEW f, NEW g, \A x \in S : f[x] = g[x]
  PROVE  Total(f, S) = Total(g, S)
<1>1. Cents(f, S) = Cents(g, S)
  BY DEF Cents
<1> QED BY <1>1 DEF Total

-----------------------------------------------------------------------------
(***************************************************************************)
(* Steps that leave the payments and allocations alone.                    *)
(***************************************************************************)
SameMoney ==
  /\ db'.payments = db.payments /\ db'.allocations = db.allocations
  /\ dirty'.payments = dirty.payments
  /\ dirty'.allocations = dirty.allocations
  /\ owner'.payments = owner.payments /\ owner'.allocations = owner.allocations
  /\ DirtyIsCommitted'

\* The requests of the others are where they were.
OnlyMoves(t) ==
  \A u \in Tx \ {t} : /\ pc'[u] = pc[u] /\ req'[u] = req[u]
                      /\ todo'[u] = todo[u] /\ line'[u] = line[u]

\* A transaction that is not allocating may do anything else.
LEMMA SameMoneyStep ==
  ASSUME TypeOK, AllocationsMatchLocks, NEW t \in Tx, SameMoney, OnlyMoves(t),
         req'[t] = req[t],
         \/ /\ req[t] \notin AllocateRequest
            /\ pc[t] # "commit"
         \/ /\ req[t] \in AllocateRequest
            /\ pc[t] \in AllocateStatement
            /\ pc'[t] \in AllocateStatement
            /\ todo'[t] \subseteq todo[t]
            /\ pc'[t] \in {"create_allocation", "update_paid"} =>
                 line'[t] \in Rows(req[t].lines) \ todo'[t]
            /\ pc'[t] = "update_unapplied" => todo'[t] = {}
            /\ \A r \in Receivables : Inserted(t, r) <=> Inserted(t, r)'
  PROVE  AllocationsMatchLocks'
<1> USE DEF AllocationsMatchLocks, SameMoney, OnlyMoves
<1>1. PaymentConservation'
  BY DEF PaymentConservation, AllocationsOf
<1>2. \A p \in Payments : db'.payments[p].status = "none"
                            => db'.payments[p] = NoPayment
  OBVIOUS
<1>3. \A u \in Tx \ {t}, r \in Receivables : Inserted(u, r) <=> Inserted(u, r)'
  BY DEF Inserted
<1>4. ASSUME NEW u \in Tx PROVE AllocationsPending(u)'
  <2>0. AllocationsPending(u)
    OBVIOUS
  <2>1. CASE u # t
    BY <1>3, <2>0, <2>1 DEF AllocationsPending
  <2>2. CASE u = t
    BY <2>0, <2>2 DEF AllocationsPending, AllocateStatement
  <2> QED BY <2>1, <2>2
<1>5. AllocationLocks'
  BY <1>3 DEF AllocationLocks
<1>6. PaymentLocks'
  BY DEF PaymentLocks, AllocateStatement
<1> QED BY <1>1, <1>2, <1>4, <1>5, <1>6

USE DEF At, Goto

LEMMA NoWrite ==
  ASSUME DirtyIsCommitted, UNCHANGED storage
  PROVE  SameMoney
BY DEF SameMoney, storage, DirtyIsCommitted

LEMMA OtherWrite ==
  ASSUME TypeOK, DirtyIsCommitted, NEW t \in Tx,
         NEW tab \in {"receivables", "credit_balances", "lease_bills"},
         NEW id \in DOMAIN owner[tab], NEW row, Write(t, tab, id, row)
  PROVE  SameMoney
<1>1. StorageTypeOK /\ tab \in TableName
  BY TypeOKParts DEF TableName
<1>2. /\ \A other \in TableName \ {tab} :
           dirty'[other] = dirty[other] /\ owner'[other] = owner[other]
      /\ db' = db
      /\ DirtyIsCommitted'
  BY <1>1, WriteEffect
<1> QED BY <1>2 DEF SameMoney, TableName

\* Every step but the two that write payments or allocations, and the end.
LEMMA StepElsewhere ==
  ASSUME TypeOK, AllocationsMatchLocks, NEW t \in Tx,
         \/ \E r \in Receivables : AllocateGetReceivable(t, r)
         \/ AllocateUpdatePaid(t)
         \/ VoidListAllocations(t)
         \/ \E r \in Receivables : VoidReverse(t, r)
         \/ CreditGetReceivable(t)
         \/ CreditUse(t)
         \/ CreditUpdateCredited(t)
         \/ VoidBillGetReceivable(t)
         \/ VoidReceivable(t)
         \/ VoidBillRow(t)
  PROVE  AllocationsMatchLocks'
<1>0. /\ DirtyIsCommitted /\ AllocationsPending(t)
      /\ owner \in Locks
      /\ pc \in [Tx -> Statement] /\ req \in [Tx -> Request \cup {Nil}]
      /\ todo \in [Tx -> SUBSET Receivables]
      /\ line \in [Tx -> Receivables \cup {Nil}]
      /\ RequestOK(t)
  BY DEF AllocationsMatchLocks, TypeOK
<1>1. ASSUME NEW r \in Receivables, AllocateGetReceivable(t, r)
      PROVE  AllocationsMatchLocks'
  <2>1. SameMoney
    BY <1>0, <1>1, NoWrite DEF AllocateGetReceivable
  <2>2. /\ OnlyMoves(t) /\ req' = req
        /\ pc[t] = "get_receivable" /\ pc'[t] = "create_allocation"
        /\ r \in todo[t] /\ todo'[t] = todo[t] \ {r} /\ line'[t] = r
    BY <1>0, <1>1 DEF AllocateGetReceivable, OnlyMoves
  <2>3. req[t] \in AllocateRequest
    BY <1>0, <2>2 DEF RequestOK, AllocateStatement
  <2>4. \A x \in Receivables : Inserted(t, x) <=> Inserted(t, x)'
    BY <2>2 DEF Inserted
  <2>5. r \in Rows(req[t].lines)
    BY <1>0, <2>2, <2>3 DEF AllocationsPending
  <2> QED BY <2>1, <2>2, <2>3, <2>4, <2>5, SameMoneyStep DEF AllocateStatement
<1>2. CASE AllocateUpdatePaid(t)
  <2>1. line[t] \in DOMAIN owner["receivables"]
    BY <1>0, <1>2 DEF AllocateUpdatePaid, RequestOK, Locks
  <2>2. SameMoney
    BY <1>0, <1>2, <2>1, OtherWrite DEF AllocateUpdatePaid
  <2>3. /\ OnlyMoves(t) /\ req' = req /\ todo' = todo
        /\ pc[t] = "update_paid"
        /\ pc'[t] = IF todo[t] = {} THEN "update_unapplied"
                                    ELSE "get_receivable"
    BY <1>0, <1>2 DEF AllocateUpdatePaid, OnlyMoves
  <2>4. req[t] \in AllocateRequest
    BY <1>0, <2>3 DEF RequestOK, AllocateStatement
  <2>5. \A x \in Receivables : Inserted(t, x) <=> Inserted(t, x)'
    BY <2>3 DEF Inserted
  <2> QED BY <2>2, <2>3, <2>4, <2>5, SameMoneyStep DEF AllocateStatement
<1>3. ASSUME VoidListAllocations(t) \/ CreditGetReceivable(t)
               \/ VoidBillGetReceivable(t)
      PROVE  AllocationsMatchLocks'
  <2>1. SameMoney
    BY <1>0, <1>3, NoWrite
       DEF VoidListAllocations, CreditGetReceivable, VoidBillGetReceivable,
           storage
  <2>2. OnlyMoves(t) /\ req' = req /\ pc[t] # "commit"
        /\ pc[t] \notin AllocateStatement
    BY <1>0, <1>3
       DEF VoidListAllocations, CreditGetReceivable, VoidBillGetReceivable,
           OnlyMoves, AllocateStatement
  <2>3. req[t] \notin AllocateRequest
    BY <1>0, <2>2 DEF AllocationsPending
  <2> QED BY <2>1, <2>2, <2>3, SameMoneyStep
<1>4. ASSUME NEW tab \in {"receivables", "credit_balances", "lease_bills"},
             NEW id \in DOMAIN owner[tab], NEW row, Write(t, tab, id, row),
             pc[t] \notin AllocateStatement \cup {"commit"},
             OnlyMoves(t), req' = req
      PROVE  AllocationsMatchLocks'
  <2>1. SameMoney
    BY <1>0, <1>4, OtherWrite
  <2>2. req[t] \notin AllocateRequest
    BY <1>0, <1>4 DEF AllocationsPending
  <2> QED BY <1>4, <2>1, <2>2, SameMoneyStep
<1>5. ASSUME NEW r \in Receivables, VoidReverse(t, r)
      PROVE  AllocationsMatchLocks'
  <2>1. OnlyMoves(t) /\ req' = req
        /\ pc[t] \notin AllocateStatement \cup {"commit"}
        /\ r \in DOMAIN owner["receivables"]
    BY <1>0, <1>5 DEF VoidReverse, OnlyMoves, AllocateStatement, Locks
  <2> QED BY <1>4, <1>5, <2>1 DEF VoidReverse
<1>6. CASE CreditUse(t)
  <2>1. OnlyMoves(t) /\ req' = req
        /\ pc[t] \notin AllocateStatement \cup {"commit"}
    BY <1>0, <1>6 DEF CreditUse, OnlyMoves, AllocateStatement, UnchangedRequest
  <2>2. req[t].credit \in DOMAIN owner["credit_balances"]
    BY <1>0, <1>6 DEF CreditUse, RequestOK, CreditStatement, CreditRequest, Locks
  <2> QED BY <1>4, <1>6, <2>1, <2>2 DEF CreditUse
<1>7. CASE CreditUpdateCredited(t)
  <2>1. OnlyMoves(t) /\ req' = req
        /\ pc[t] \notin AllocateStatement \cup {"commit"}
    BY <1>0, <1>7 DEF CreditUpdateCredited, OnlyMoves, AllocateStatement,
         UnchangedRequest
  <2>2. req[t].receivable \in DOMAIN owner["receivables"]
    BY <1>0, <1>7
       DEF CreditUpdateCredited, RequestOK, CreditStatement, CreditRequest, Locks
  <2> QED BY <1>4, <1>7, <2>1, <2>2 DEF CreditUpdateCredited
<1>8. CASE VoidReceivable(t)
  <2>1. OnlyMoves(t) /\ req' = req
        /\ pc[t] \notin AllocateStatement \cup {"commit"}
    BY <1>0, <1>8 DEF VoidReceivable, OnlyMoves, AllocateStatement,
         UnchangedRequest
  <2>2. req[t].bill \in DOMAIN owner["receivables"]
    BY <1>0, <1>8, TablesAssumption
       DEF VoidReceivable, RequestOK, VoidBillStatement, VoidBillRequest, Locks
  <2> QED BY <1>4, <1>8, <2>1, <2>2 DEF VoidReceivable
<1>9. CASE VoidBillRow(t)
  <2>1. OnlyMoves(t) /\ req' = req
        /\ pc[t] \notin AllocateStatement \cup {"commit"}
    BY <1>0, <1>9 DEF VoidBillRow, OnlyMoves, AllocateStatement,
         UnchangedRequest
  <2>2. req[t].bill \in DOMAIN owner["lease_bills"]
    BY <1>0, <1>9
       DEF VoidBillRow, RequestOK, VoidBillStatement, VoidBillRequest, Locks
  <2> QED BY <1>4, <1>9, <2>1, <2>2 DEF VoidBillRow
<1> QED
  BY <1>1, <1>2, <1>3, <1>5, <1>6, <1>7, <1>8, <1>9

LEMMA IssueStep ==
  ASSUME TypeOK, AllocationsMatchLocks, NEW t \in Tx, IssueCreateReceivable(t)
  PROVE  AllocationsMatchLocks'
<1>0. /\ DirtyIsCommitted /\ AllocationsPending(t)
      /\ owner \in Locks /\ db \in Tables /\ dirty \in Tables
      /\ pc \in [Tx -> Statement] /\ RequestOK(t)
  BY DEF AllocationsMatchLocks, TypeOK
<1>1. /\ OnlyMoves(t) /\ req' = req
      /\ pc[t] \notin AllocateStatement \cup {"commit"}
  BY <1>0 DEF IssueCreateReceivable, OnlyMoves, AllocateStatement,
       UnchangedRequest
<1>2. /\ db' = db
      /\ \A tab \in {"payments", "allocations", "credit_balances"} :
           dirty'[tab] = dirty[tab] /\ owner'[tab] = owner[tab]
      /\ DOMAIN owner' = TableName
  BY <1>0 DEF IssueCreateReceivable, Tables, Locks, TableName
<1>3. \A tab \in {"receivables", "lease_bills"} :
        \A id \in DOMAIN owner'[tab] :
          /\ id \in DOMAIN owner[tab]
          /\ owner'[tab][id] # t => /\ owner'[tab][id] = owner[tab][id]
                                    /\ dirty'[tab][id] = dirty[tab][id]
  BY <1>0 DEF IssueCreateReceivable, Tables, Locks
<1>4. DirtyIsCommitted'
  <2> SUFFICES ASSUME NEW tab \in TableName, NEW id \in DOMAIN owner'[tab],
                      owner'[tab][id] = Nil
               PROVE  dirty'[tab][id] = db'[tab][id]
    BY <1>2 DEF DirtyIsCommitted
  <2>1. tab \in DOMAIN owner
    BY <1>0 DEF Locks, TableName
  <2> QED BY <1>0, <1>2, <1>3, <2>1, NilAssumption
          DEF DirtyIsCommitted, TableName
<1>5. SameMoney
  BY <1>2, <1>4 DEF SameMoney
<1>6. req[t] \notin AllocateRequest
  BY <1>0, <1>1 DEF AllocationsPending
<1> QED BY <1>1, <1>5, <1>6, SameMoneyStep

-----------------------------------------------------------------------------
(***************************************************************************)
(* Steps that lock an allocation or a payment.                             *)
(***************************************************************************)
LEMMA AllocationStep ==
  ASSUME TypeOK, AllocationsMatchLocks, NEW t \in Tx,
         CreatePaymentAllocation(t)
  PROVE  AllocationsMatchLocks'
<1> DEFINE key == <<req[t].payment, line[t]>>
<1>0. /\ DirtyIsCommitted /\ AllocationsPending(t)
      /\ AllocationLocks /\ PaymentLocks
      /\ \A u \in Tx : AllocationsPending(u)
      /\ owner \in Locks /\ db \in Tables /\ dirty \in Tables
      /\ pc \in [Tx -> Statement] /\ RequestOK(t)
  BY DEF AllocationsMatchLocks, TypeOK
<1>1. /\ OnlyMoves(t) /\ req' = req /\ todo' = todo /\ line' = line
      /\ pc[t] = "create_allocation" /\ pc'[t] = "update_paid"
      /\ Write(t, "allocations", key, req[t].lines[line[t]])
      /\ dirty.allocations[key] = 0
      /\ owner.allocations[key] \in {Nil, t}
  BY <1>0 DEF CreatePaymentAllocation, OnlyMoves, UnchangedRequest, Write, Free
<1>2. /\ req[t] \in AllocateRequest /\ req[t].payment \in Payments
      /\ line[t] \in Receivables
      /\ line[t] \in Rows(req[t].lines) \ todo[t]
      /\ key \in Payments \X Receivables
  BY <1>0, <1>1
     DEF RequestOK, AllocateStatement, AllocateRequest, AllocationsPending
<1>3. /\ db' = db /\ DirtyIsCommitted'
      /\ dirty'.allocations =
           [dirty.allocations EXCEPT ![key] = req[t].lines[line[t]]]
      /\ owner'.allocations = [owner.allocations EXCEPT ![key] = t]
      /\ dirty'.payments = dirty.payments /\ owner'.payments = owner.payments
  <2>1. StorageTypeOK /\ "allocations" \in TableName
        /\ key \in DOMAIN owner["allocations"]
    BY <1>0, <1>2 DEF StorageTypeOK, TableName, Locks
  <2>2. /\ db' = db
        /\ dirty'["allocations"] =
             [dirty["allocations"] EXCEPT ![key] = req[t].lines[line[t]]]
        /\ owner'["allocations"] = [owner["allocations"] EXCEPT ![key] = t]
        /\ \A other \in TableName \ {"allocations"} :
             dirty'[other] = dirty[other] /\ owner'[other] = owner[other]
        /\ DirtyIsCommitted'
    BY <1>0, <1>1, <2>1, WriteEffect
  <2> QED BY <2>2 DEF TableName
<1>4. /\ \A pr \in Payments \X Receivables :
           /\ owner'.allocations[pr] = IF pr = key THEN t
                                                  ELSE owner.allocations[pr]
           /\ dirty'.allocations[pr] =
                IF pr = key THEN req[t].lines[line[t]]
                            ELSE dirty.allocations[pr]
  BY <1>0, <1>3 DEF Locks, Tables
<1>5. owner.allocations[key] = Nil /\ db.allocations[key] = 0
  <2>1. owner.allocations[key] # t
    BY <1>0, <1>1, <1>2 DEF AllocationLocks, Inserted
  <2> QED BY <1>0, <1>1, <1>2, <2>1 DEF DirtyIsCommitted, Locks
<1>6. \A r \in Receivables :
        Inserted(t, r)' <=> Inserted(t, r) \/ r = line[t]
  BY <1>1, <1>2 DEF Inserted
<1>7. \A u \in Tx \ {t}, r \in Receivables : Inserted(u, r) <=> Inserted(u, r)'
  BY <1>1 DEF Inserted, OnlyMoves
<1>8. ASSUME NEW u \in Tx PROVE AllocationsPending(u)'
  <2>1. CASE u = t
    BY <1>0, <1>1, <1>2, <1>3, <1>4, <1>5, <1>6, <2>1
       DEF AllocationsPending, AllocateStatement
  <2>2. CASE u # t
    <3>1. AllocationsPending(u)
      BY <1>0
    <3>2. ASSUME req[u] \in AllocateRequest, NEW r \in Receivables,
                 Inserted(u, r)
          PROVE  /\ owner'.allocations[<<req[u].payment, r>>] = u
                 /\ db'.allocations[<<req[u].payment, r>>] = 0
                 /\ dirty'.allocations[<<req[u].payment, r>>] = req[u].lines[r]
      <4>1. req[u].payment \in Payments
        BY <3>2 DEF AllocateRequest
      <4>2. /\ owner.allocations[<<req[u].payment, r>>] = u
            /\ db.allocations[<<req[u].payment, r>>] = 0
            /\ dirty.allocations[<<req[u].payment, r>>] = req[u].lines[r]
        BY <3>1, <3>2 DEF AllocationsPending
      <4>3. <<req[u].payment, r>> # key
        BY <1>5, <4>2, NilAssumption
      <4> QED BY <1>3, <1>4, <4>1, <4>2, <4>3
    <3> QED BY <1>1, <1>3, <1>7, <2>2, <3>1, <3>2
            DEF AllocationsPending, OnlyMoves
  <2> QED BY <2>1, <2>2
<1>9. AllocationLocks'
  <2> SUFFICES ASSUME NEW p \in Payments, NEW r \in Receivables, NEW u \in Tx,
                      owner'.allocations[<<p, r>>] = u
               PROVE  /\ req[u] \in AllocateRequest /\ req[u].payment = p
                      /\ Inserted(u, r)'
    BY <1>1 DEF AllocationLocks
  <2>1. CASE <<p, r>> = key
    BY <1>2, <1>4, <1>6, <2>1
  <2>2. CASE <<p, r>> # key
    <3>1. owner.allocations[<<p, r>>] = u
      BY <1>4, <2>2
    <3>2. req[u] \in AllocateRequest /\ req[u].payment = p /\ Inserted(u, r)
      BY <1>0, <3>1 DEF AllocationLocks
    <3> QED BY <1>6, <1>7, <3>2
  <2> QED BY <2>1, <2>2
<1>10. PaymentLocks'
  BY <1>0, <1>1, <1>3 DEF PaymentLocks, OnlyMoves
<1>11. PaymentConservation'
  BY <1>3 DEF AllocationsMatchLocks, PaymentConservation, AllocationsOf
<1> QED BY <1>3, <1>8, <1>9, <1>10, <1>11 DEF AllocationsMatchLocks

\* The two UPDATEs of a payment, which the transaction then commits.
LEMMA PaymentStep ==
  ASSUME TypeOK, AllocationsMatchLocks, NEW t \in Tx,
         UpdatePaymentUnapplied(t) \/ VoidPaymentRow(t)
  PROVE  AllocationsMatchLocks'
<1> DEFINE p == req[t].payment
           row == IF pc[t] = "update_unapplied"
                    THEN [dirty.payments[p] EXCEPT
                            !.unapplied = @ - Total(req[t].lines, Receivables)]
                    ELSE [dirty.payments[p] EXCEPT !.status = "voided"]
<1>0. /\ DirtyIsCommitted /\ AllocationLocks /\ PaymentLocks
      /\ \A u \in Tx : AllocationsPending(u)
      /\ owner \in Locks /\ db \in Tables /\ dirty \in Tables
      /\ pc \in [Tx -> Statement] /\ RequestOK(t)
  BY DEF AllocationsMatchLocks, TypeOK
<1>1. /\ OnlyMoves(t) /\ req' = req /\ todo' = todo /\ line' = line
      /\ pc[t] \in {"update_unapplied", "void_payment"} /\ pc'[t] = "commit"
      /\ Write(t, "payments", p, row)
      /\ owner.payments[p] \in {Nil, t}
  <2>1. CASE UpdatePaymentUnapplied(t)
    BY <1>0, <2>1
       DEF UpdatePaymentUnapplied, OnlyMoves, UnchangedRequest, Write, Free
  <2>2. CASE VoidPaymentRow(t)
    BY <1>0, <2>2
       DEF VoidPaymentRow, OnlyMoves, UnchangedRequest, Write, Free
  <2> QED BY <2>1, <2>2
<1>2. /\ pc[t] = "update_unapplied" => req[t] \in AllocateRequest
      /\ pc[t] = "void_payment" => req[t] \in VoidPaymentRequest
      /\ p \in Payments
  BY <1>0, <1>1 DEF RequestOK, AllocateStatement, VoidPaymentStatement,
       AllocateRequest, VoidPaymentRequest
<1>3. /\ owner.payments[p] = Nil
      /\ dirty.payments[p] = db.payments[p]
  <2>1. owner.payments[p] # t
    BY <1>0, <1>1, <1>2 DEF PaymentLocks
  <2> QED BY <1>0, <1>1, <1>2, <2>1 DEF DirtyIsCommitted, Locks
<1>4. db.payments[p].status # "none"
  BY <1>0, <1>1, <1>2 DEF AllocationsPending, PaymentLocks
<1> HIDE DEF row
<1>5. /\ db' = db /\ DirtyIsCommitted'
      /\ dirty'.payments = [dirty.payments EXCEPT ![p] = row]
      /\ owner'.payments = [owner.payments EXCEPT ![p] = t]
      /\ dirty'.allocations = dirty.allocations
      /\ owner'.allocations = owner.allocations
  <2>1. StorageTypeOK /\ "payments" \in TableName
        /\ p \in DOMAIN owner["payments"]
    BY <1>0, <1>2 DEF StorageTypeOK, TableName, Locks
  <2>2. /\ db' = db
        /\ dirty'["payments"] = [dirty["payments"] EXCEPT ![p] = row]
        /\ owner'["payments"] = [owner["payments"] EXCEPT ![p] = t]
        /\ \A other \in TableName \ {"payments"} :
             dirty'[other] = dirty[other] /\ owner'[other] = owner[other]
        /\ DirtyIsCommitted'
    BY <1>0, <1>1, <2>1, WriteEffect
  <2> QED BY <2>2 DEF TableName
<1>6. \A q \in Payments :
        /\ owner'.payments[q] = IF q = p THEN t ELSE owner.payments[q]
        /\ dirty'.payments[q] = IF q = p THEN row ELSE dirty.payments[q]
  BY <1>0, <1>5 DEF Locks, Tables
<1>7. \A u \in Tx, r \in Receivables : Inserted(u, r) <=> Inserted(u, r)'
  BY <1>1 DEF Inserted, OnlyMoves
<1>8. ASSUME NEW u \in Tx PROVE AllocationsPending(u)'
  <2>0. AllocationsPending(u)
    BY <1>0
  <2>1. CASE u = t
    <3>1. req[t] \in AllocateRequest => pc[t] = "update_unapplied"
      BY <1>1, <1>2 DEF AllocateRequest, VoidPaymentRequest
    <3> QED BY <1>1, <1>5, <1>7, <2>0, <2>1, <3>1
            DEF AllocationsPending, AllocateStatement
  <2>2. CASE u # t
    BY <1>1, <1>5, <1>7, <2>0, <2>2 DEF AllocationsPending, OnlyMoves
  <2> QED BY <2>1, <2>2
<1>9. AllocationLocks'
  BY <1>0, <1>1, <1>5, <1>7 DEF AllocationLocks
<1>10. PaymentLocks'
  <2>1. ASSUME NEW q \in Payments, NEW u \in Tx, owner'.payments[q] = u
        PROVE  /\ pc'[u] = "commit"
               /\ db.payments[q].status # "none"
               /\ \/ /\ req[u] \in AllocateRequest
                     /\ req[u].payment = q
                     /\ dirty'.payments[q] =
                          [db.payments[q] EXCEPT
                             !.unapplied = @ - Total(req[u].lines, Receivables)]
                  \/ /\ req[u] \in VoidPaymentRequest
                     /\ dirty'.payments[q] =
                          [db.payments[q] EXCEPT !.status = "voided"]
    <3>1. CASE q = p
      BY <1>1, <1>2, <1>3, <1>4, <1>6, <2>1, <3>1 DEF row
    <3>2. CASE q # p
      <4>1. owner.payments[q] = u /\ dirty'.payments[q] = dirty.payments[q]
        BY <1>6, <2>1, <3>2
      <4>2. pc[u] = "commit" /\ u # t
        BY <1>0, <1>1, <4>1 DEF PaymentLocks
      <4> QED BY <1>0, <1>1, <4>1, <4>2 DEF PaymentLocks, OnlyMoves
    <3> QED BY <3>1, <3>2
  <2>2. ASSUME NEW u \in Tx, pc'[u] = "commit", req[u] \in AllocateRequest
        PROVE  owner'.payments[req[u].payment] = u
    <3>1. req[u].payment \in Payments
      BY <2>2 DEF AllocateRequest
    <3>2. CASE u = t
      BY <1>6, <3>1, <3>2
    <3>3. CASE u # t
      <4>1. owner.payments[req[u].payment] = u
        BY <1>0, <1>1, <2>2, <3>3 DEF PaymentLocks, OnlyMoves
      <4> QED BY <1>3, <1>6, <3>1, <4>1, NilAssumption
    <3> QED BY <3>2, <3>3
  <2>3. \A u \in Tx : req[u] \in VoidPaymentRequest
                        => db.payments[req[u].payment].status # "none"
    BY <1>0 DEF PaymentLocks
  <2> QED BY <1>1, <1>5, <2>1, <2>2, <2>3 DEF PaymentLocks
<1>11. PaymentConservation'
  BY <1>5 DEF AllocationsMatchLocks, PaymentConservation, AllocationsOf
<1> QED BY <1>5, <1>8, <1>9, <1>10, <1>11 DEF AllocationsMatchLocks

-----------------------------------------------------------------------------
(***************************************************************************)
(* A request begins.                                                       *)
(***************************************************************************)
LEMMA StartKinds ==
  ASSUME TypeOK, NEW t \in Tx, Start(t)
  PROVE  /\ UNCHANGED storage /\ OnlyMoves(t) /\ pc[t] = "idle"
         /\ \/ /\ req'[t] \in AllocateRequest
               /\ db.payments[req'[t].payment].status = "posted"
               /\ todo'[t] = Rows(req'[t].lines)
               /\ pc'[t] = "get_receivable"
            \/ /\ req'[t] \in VoidPaymentRequest
               /\ db.payments[req'[t].payment].status = "posted"
            \/ req'[t] \notin AllocateRequest \cup VoidPaymentRequest
<1>0. /\ pc \in [Tx -> Statement] /\ req \in [Tx -> Request \cup {Nil}]
      /\ todo \in [Tx -> SUBSET Receivables]
  BY DEF TypeOK
<1>b. ASSUME NEW request, NEW rows, NEW stmt, Begin(t, request, rows, stmt)
      PROVE  /\ UNCHANGED storage /\ OnlyMoves(t) /\ pc[t] = "idle"
             /\ req'[t] = request /\ todo'[t] = rows /\ pc'[t] = stmt
  BY <1>0, <1>b DEF Begin, OnlyMoves
<1>1. ASSUME NEW p \in Payments, NEW lines \in Lines,
             AllocatePayment(t, p, lines)
      PROVE  /\ UNCHANGED storage /\ OnlyMoves(t) /\ pc[t] = "idle"
             /\ req'[t] \in AllocateRequest
             /\ db.payments[req'[t].payment].status = "posted"
             /\ todo'[t] = Rows(req'[t].lines)
             /\ pc'[t] = "get_receivable"
  BY <1>b, <1>1 DEF AllocatePayment, AllocateRequest
<1>2. ASSUME NEW p \in Payments, VoidPayment(t, p)
      PROVE  /\ UNCHANGED storage /\ OnlyMoves(t) /\ pc[t] = "idle"
             /\ req'[t] \in VoidPaymentRequest
             /\ db.payments[req'[t].payment].status = "posted"
  BY <1>b, <1>2 DEF VoidPayment, VoidPaymentRequest
<1>3. ASSUME NEW c \in Credits, NEW r \in Receivables, NEW a \in Amounts,
             ApplyCredit(t, c, r, a)
      PROVE  /\ UNCHANGED storage /\ OnlyMoves(t) /\ pc[t] = "idle"
             /\ req'[t] \notin AllocateRequest \cup VoidPaymentRequest
  BY <1>b, <1>3 DEF ApplyCredit, AllocateRequest, VoidPaymentRequest
<1>4. ASSUME NEW b \in Bills, IssueLeaseBill(t, b) \/ VoidLeaseBill(t, b)
      PROVE  /\ UNCHANGED storage /\ OnlyMoves(t) /\ pc[t] = "idle"
             /\ req'[t] \notin AllocateRequest \cup VoidPaymentRequest
  BY <1>b, <1>4
     DEF IssueLeaseBill, VoidLeaseBill, AllocateRequest, VoidPaymentRequest
<1> QED BY <1>1, <1>2, <1>3, <1>4 DEF Start

LEMMA StartStep ==
  ASSUME TypeOK, AllocationsMatchLocks, NEW t \in Tx, Start(t)
  PROVE  AllocationsMatchLocks'
<1>0. /\ DirtyIsCommitted /\ AllocationLocks /\ PaymentLocks
      /\ \A u \in Tx : AllocationsPending(u)
      /\ pc[t] = "idle" /\ OnlyMoves(t)
      /\ db' = db /\ dirty' = dirty /\ owner' = owner
  BY StartKinds DEF AllocationsMatchLocks, storage
<1>1. /\ \A p \in Payments : owner.payments[p] # t
      /\ \A p \in Payments, r \in Receivables : owner.allocations[<<p, r>>] # t
  <2>1. req[t] \notin AllocateRequest
    BY <1>0 DEF AllocationsPending, AllocateStatement
  <2> QED BY <1>0, <2>1 DEF AllocationLocks, PaymentLocks
<1>2. \A u \in Tx \ {t}, r \in Receivables : Inserted(u, r) <=> Inserted(u, r)'
  BY <1>0 DEF Inserted, OnlyMoves
<1>3. ASSUME NEW u \in Tx PROVE AllocationsPending(u)'
  <2>1. CASE u = t
    <3>1. CASE req'[t] \notin AllocateRequest
      BY <2>1, <3>1 DEF AllocationsPending
    <3>2. CASE req'[t] \in AllocateRequest
      <4>1. /\ db.payments[req'[t].payment].status = "posted"
            /\ todo'[t] = Rows(req'[t].lines)
            /\ pc'[t] = "get_receivable"
        BY <3>2, StartKinds DEF AllocateRequest, VoidPaymentRequest
      <4>2. \A r \in Receivables : ~Inserted(t, r)'
        BY <4>1 DEF Inserted
      <4> QED BY <1>0, <2>1, <4>1, <4>2
              DEF AllocationsPending, AllocateStatement
    <3> QED BY <3>1, <3>2
  <2>2. CASE u # t
    BY <1>0, <1>2, <2>2 DEF AllocationsPending, OnlyMoves
  <2> QED BY <2>1, <2>2
<1>4. AllocationLocks'
  BY <1>0, <1>1, <1>2 DEF AllocationLocks, OnlyMoves
<1>5. PaymentLocks'
  <2>1. req'[t] \in VoidPaymentRequest
          => db.payments[req'[t].payment].status # "none"
    BY StartKinds DEF AllocateRequest, VoidPaymentRequest
  <2>2. ~(pc'[t] = "commit" /\ req'[t] \in AllocateRequest)
    BY StartKinds DEF AllocateRequest, VoidPaymentRequest
  <2> QED BY <1>0, <1>1, <2>1, <2>2 DEF PaymentLocks, OnlyMoves
<1>6. DirtyIsCommitted'
  BY <1>0 DEF DirtyIsCommitted
<1>7. PaymentConservation'
  BY <1>0 DEF AllocationsMatchLocks, PaymentConservation, AllocationsOf
<1> QED BY <1>0, <1>3, <1>4, <1>5, <1>6, <1>7 DEF AllocationsMatchLocks

-----------------------------------------------------------------------------
(***************************************************************************)
(* Handlers of one write.                                                  *)
(***************************************************************************)

\* Those that write no payment.
LEMMA SameRequests ==
  ASSUME TypeOK, AllocationsMatchLocks, SameMoney,
         UNCHANGED <<pc, req, todo, line>>
  PROVE  AllocationsMatchLocks'
<1> USE DEF AllocationsMatchLocks, SameMoney
<1>1. PaymentConservation'
  BY DEF PaymentConservation, AllocationsOf
<1>2. \A t \in Tx : AllocationsPending(t)'
  BY DEF AllocationsPending, Inserted
<1>3. AllocationLocks' /\ PaymentLocks'
  BY DEF AllocationLocks, PaymentLocks, Inserted
<1> QED BY <1>1, <1>2, <1>3

\* A payment is created, or posted.
LEMMA PaymentWrite ==
  ASSUME TypeOK, AllocationsMatchLocks, NEW p \in Payments, NEW row,
         WriteAndCommit("payments", p, row), row.status # "none",
         UNCHANGED <<pc, req, todo, line>>,
         \/ /\ db.payments[p].status = "none"
            /\ row.unapplied = row.received /\ row.received \in Nat
         \/ /\ row.unapplied = db.payments[p].unapplied
            /\ row.received = db.payments[p].received
  PROVE  AllocationsMatchLocks'
<1>0. /\ DirtyIsCommitted /\ AllocationLocks /\ PaymentLocks
      /\ PaymentConservation
      /\ \A t \in Tx : AllocationsPending(t)
      /\ owner \in Locks /\ db \in Tables /\ dirty \in Tables
      /\ req \in [Tx -> Request \cup {Nil}]
  BY DEF AllocationsMatchLocks, TypeOK
<1>1. /\ owner' = owner /\ owner.payments[p] = Nil
      /\ db'.payments = [db.payments EXCEPT ![p] = row]
      /\ dirty'.payments = [dirty.payments EXCEPT ![p] = row]
      /\ db'.allocations = db.allocations
      /\ dirty'.allocations = dirty.allocations
      /\ DirtyIsCommitted'
  <2>1. StorageTypeOK /\ "payments" \in TableName
        /\ p \in DOMAIN owner["payments"]
    BY <1>0 DEF StorageTypeOK, TableName, Locks
  <2>2. /\ owner' = owner
        /\ db'["payments"] = [db["payments"] EXCEPT ![p] = row]
        /\ dirty'["payments"] = [dirty["payments"] EXCEPT ![p] = row]
        /\ \A other \in TableName \ {"payments"} :
             dirty'[other] = dirty[other] /\ db'[other] = db[other]
        /\ DirtyIsCommitted'
    BY <1>0, <2>1, SingleWriteEffect
  <2>3. owner.payments[p] = Nil
    BY DEF WriteAndCommit
  <2> QED BY <2>2, <2>3 DEF TableName
<1>2. \A q \in Payments :
        /\ db'.payments[q] = IF q = p THEN row ELSE db.payments[q]
        /\ dirty'.payments[q] = IF q = p THEN row ELSE dirty.payments[q]
  BY <1>0, <1>1 DEF Tables
<1>3. PaymentConservation'
  <2> SUFFICES ASSUME NEW q \in Payments
               PROVE  db'.payments[q].unapplied =
                        db'.payments[q].received
                          - Total(AllocationsOf(q), Receivables)
    BY <1>1 DEF PaymentConservation, AllocationsOf
  <2> DEFINE total == Total(AllocationsOf(q), Receivables)
  <2>1. total \in Nat
    <3>1. \A r \in Receivables : AllocationsOf(q)[r] \in Nat
      BY <1>0 DEF AllocationsOf, Tables
    <3> QED BY <3>1, TotalType, TablesAssumption
  <2>2. db.payments[q].unapplied = db.payments[q].received - total
    BY <1>0 DEF PaymentConservation
  <2>3. db.payments[q].status = "none" => total = 0
    BY <2>1, <2>2 DEF AllocationsMatchLocks, NoPayment
  <2> HIDE DEF total
  <2>4. db'.payments[q].unapplied = db'.payments[q].received - total
    BY <1>2, <2>1, <2>2, <2>3
  <2> QED BY <2>4 DEF total
<1>4. ASSUME NEW t \in Tx PROVE AllocationsPending(t)'
  <2>1. AllocationsPending(t)
    BY <1>0
  <2>2. req[t] \in AllocateRequest => req[t].payment \in Payments
    BY DEF AllocateRequest
  <2> QED BY <1>1, <1>2, <2>1, <2>2 DEF AllocationsPending, Inserted
<1>5. AllocationLocks'
  BY <1>0, <1>1 DEF AllocationLocks, Inserted
<1>6. PaymentLocks'
  <2>1. \A t \in Tx : req[t] \in VoidPaymentRequest
                        => req[t].payment \in Payments
    BY DEF VoidPaymentRequest
  <2> QED BY <1>0, <1>1, <1>2, <2>1, NilAssumption DEF PaymentLocks
<1> QED BY <1>1, <1>2, <1>3, <1>4, <1>5, <1>6 DEF AllocationsMatchLocks

LEMMA SingleWriteStep ==
  ASSUME TypeOK, AllocationsMatchLocks, SingleWrite
  PROVE  AllocationsMatchLocks'
<1>0. /\ DirtyIsCommitted /\ StorageTypeOK /\ db \in Tables
      /\ owner \in Locks
  BY TypeOKParts DEF AllocationsMatchLocks, StorageTypeOK
<1>1. ASSUME NEW r \in Receivables \ Bills, NEW a \in Amounts,
             CreateReceivable(r, a)
      PROVE  AllocationsMatchLocks'
  <2>1. "receivables" \in TableName /\ r \in DOMAIN owner["receivables"]
    BY <1>0 DEF TableName, Locks
  <2>2. WriteAndCommit("receivables", r, NewReceivable(a))
    BY <1>1 DEF CreateReceivable
  <2>3. /\ owner' = owner /\ DirtyIsCommitted'
        /\ \A other \in TableName \ {"receivables"} :
             dirty'[other] = dirty[other] /\ db'[other] = db[other]
    BY <1>0, <2>1, <2>2, SingleWriteEffect
  <2>4. SameMoney
    BY <2>3 DEF SameMoney, TableName
  <2> QED BY <1>1, <2>4, SameRequests DEF CreateReceivable
<1>2. ASSUME NEW p \in Payments, NEW a \in Amounts, CreatePayment(p, a)
      PROVE  AllocationsMatchLocks'
  <2>1. a \in Nat
    BY TablesAssumption
  <2> QED BY <1>2, <2>1, PaymentWrite DEF CreatePayment, NewPayment
<1>3. ASSUME NEW p \in Payments, PostPayment(p)
      PROVE  AllocationsMatchLocks'
  <2>1. db.payments[p] \in PaymentRow
    BY <1>0 DEF Tables
  <2> DEFINE row == [db.payments[p] EXCEPT !.status = "posted"]
  <2>2. WriteAndCommit("payments", p, row) /\ UNCHANGED <<pc, req, todo, line>>
    BY <1>3 DEF PostPayment
  <2>3. /\ row.status # "none"
        /\ row.unapplied = db.payments[p].unapplied
        /\ row.received = db.payments[p].received
    BY <2>1 DEF PaymentRow
  <2> HIDE DEF row
  <2> QED BY <2>2, <2>3, PaymentWrite
<1> QED BY <1>1, <1>2, <1>3 DEF SingleWrite

-----------------------------------------------------------------------------
(***************************************************************************)
(* A transaction ends.                                                     *)
(***************************************************************************)
LEMMA EndMoney ==
  ASSUME TypeOK, DirtyIsCommitted, NEW t \in Tx,
         Commit(t) \/ Rollback(t)
  PROVE  /\ DirtyIsCommitted' /\ OnlyMoves(t)
         /\ pc'[t] = "idle" /\ req'[t] = Nil /\ todo'[t] = {}
         /\ \A q \in Payments :
              /\ owner'.payments[q] = IF owner.payments[q] = t
                                        THEN Nil ELSE owner.payments[q]
              /\ owner.payments[q] # t =>
                   /\ db'.payments[q] = db.payments[q]
                   /\ dirty'.payments[q] = dirty.payments[q]
              /\ Rollback(t) => db'.payments[q] = db.payments[q]
              /\ Commit(t) /\ owner.payments[q] = t
                   => db'.payments[q] = dirty.payments[q]
         /\ \A pr \in Payments \X Receivables :
              /\ owner'.allocations[pr] = IF owner.allocations[pr] = t
                                            THEN Nil ELSE owner.allocations[pr]
              /\ owner.allocations[pr] # t =>
                   /\ db'.allocations[pr] = db.allocations[pr]
                   /\ dirty'.allocations[pr] = dirty.allocations[pr]
              /\ Rollback(t) => db'.allocations[pr] = db.allocations[pr]
              /\ Commit(t) /\ owner.allocations[pr] = t
                   => db'.allocations[pr] = dirty.allocations[pr]
<1>0. /\ StorageTypeOK
      /\ pc \in [Tx -> Statement] /\ req \in [Tx -> Request \cup {Nil}]
      /\ todo \in [Tx -> SUBSET Receivables]
      /\ line \in [Tx -> Receivables \cup {Nil}]
  BY TypeOKParts DEF TypeOK
<1>1. /\ OnlyMoves(t) /\ pc'[t] = "idle" /\ req'[t] = Nil /\ todo'[t] = {}
      /\ Commit(t) => CommitTx(t)
      /\ Rollback(t) => RollbackTx(t)
      /\ CommitTx(t) \/ RollbackTx(t)
  <2>1. /\ EndRequest(t)
        /\ Commit(t) => CommitTx(t)
        /\ Rollback(t) => RollbackTx(t)
        /\ CommitTx(t) \/ RollbackTx(t)
    BY DEF Commit, Rollback
  <2>2. /\ pc' = [pc EXCEPT ![t] = "idle"]
        /\ req' = [req EXCEPT ![t] = Nil]
        /\ todo' = [todo EXCEPT ![t] = {}]
        /\ line' = [line EXCEPT ![t] = Nil]
    BY <2>1 DEF EndRequest
  <2>3. pc'[t] = "idle" /\ req'[t] = Nil /\ todo'[t] = {}
    BY <1>0, <2>2
  <2>4. OnlyMoves(t)
    BY <1>0, <2>2 DEF OnlyMoves
  <2> QED BY <2>1, <2>3, <2>4
<1>2. /\ DirtyIsCommitted'
      /\ \A tab \in {"payments", "allocations"} :
           \A id \in DOMAIN owner[tab] :
             /\ owner'[tab][id] =
                  IF owner[tab][id] = t THEN Nil ELSE owner[tab][id]
             /\ CommitTx(t) =>
                  /\ dirty'[tab][id] = dirty[tab][id]
                  /\ db'[tab][id] = IF owner[tab][id] = t
                       THEN dirty[tab][id] ELSE db[tab][id]
             /\ RollbackTx(t) =>
                  /\ db'[tab][id] = db[tab][id]
                  /\ dirty'[tab][id] = IF owner[tab][id] = t
                       THEN db[tab][id] ELSE dirty[tab][id]
  BY <1>0, <1>1, EndEffect DEF TableName
<1>3. /\ DOMAIN owner["payments"] = Payments
      /\ DOMAIN owner["allocations"] = Payments \X Receivables
  BY <1>0 DEF StorageTypeOK, Locks
<1> HIDE DEF Commit, Rollback
<1>4. ASSUME NEW q \in Payments
      PROVE  /\ owner'.payments[q] = IF owner.payments[q] = t
                                       THEN Nil ELSE owner.payments[q]
             /\ owner.payments[q] # t =>
                  /\ db'.payments[q] = db.payments[q]
                  /\ dirty'.payments[q] = dirty.payments[q]
             /\ Rollback(t) => db'.payments[q] = db.payments[q]
             /\ Commit(t) /\ owner.payments[q] = t
                  => db'.payments[q] = dirty.payments[q]
  BY <1>1, <1>2, <1>3
<1>5. ASSUME NEW pr \in Payments \X Receivables
      PROVE  /\ owner'.allocations[pr] = IF owner.allocations[pr] = t
                                           THEN Nil ELSE owner.allocations[pr]
             /\ owner.allocations[pr] # t =>
                  /\ db'.allocations[pr] = db.allocations[pr]
                  /\ dirty'.allocations[pr] = dirty.allocations[pr]
             /\ Rollback(t) => db'.allocations[pr] = db.allocations[pr]
             /\ Commit(t) /\ owner.allocations[pr] = t
                  => db'.allocations[pr] = dirty.allocations[pr]
  BY <1>1, <1>2, <1>3
<1> QED BY <1>1, <1>2, <1>4, <1>5

\* What a committing transaction takes from a payment it has allocated.
LEMMA CommitConserves ==
  ASSUME TypeOK, AllocationsMatchLocks, NEW t \in Tx, Commit(t),
         NEW p \in Payments
  PROVE  db'.payments[p].unapplied =
           db'.payments[p].received - Total(AllocationsOf(p)', Receivables)
<1> DEFINE f == AllocationsOf(p)
           h == [r \in Receivables |-> db'.allocations[<<p, r>>]]
<1>0. /\ DirtyIsCommitted /\ AllocationLocks /\ PaymentLocks
      /\ AllocationsPending(t)
      /\ pc[t] = "commit"
      /\ db.payments[p].unapplied =
           db.payments[p].received - Total(f, Receivables)
      /\ db \in Tables /\ dirty \in Tables
      /\ db.payments[p] \in PaymentRow
  BY DEF AllocationsMatchLocks, PaymentConservation, Commit, TypeOK, Tables
<1>1. h = AllocationsOf(p)'
  BY DEF AllocationsOf
<1>2. \A r \in Receivables :
        /\ f[r] = db.allocations[<<p, r>>] /\ f[r] \in Nat
        /\ h[r] = db'.allocations[<<p, r>>]
        /\ owner.allocations[<<p, r>>] # t => h[r] = f[r]
        /\ owner.allocations[<<p, r>>] = t
             => h[r] = dirty.allocations[<<p, r>>]
  BY <1>0, EndMoney DEF AllocationsOf, Tables
<1>3. Total(f, Receivables) \in Nat
  <2>1. IsFiniteSet(Receivables) /\ \A r \in Receivables : f[r] \in Nat
    BY <1>2, TablesAssumption
  <2> HIDE DEF f
  <2> QED BY <2>1, TotalType
<1> HIDE DEF f, h
<1>4. CASE owner.payments[p] = t /\ req[t] \in AllocateRequest
  <2> DEFINE lines == req[t].lines
  <2>1. /\ lines \in Lines /\ req[t].payment = p
        /\ dirty.payments[p] = [db.payments[p] EXCEPT
                                  !.unapplied = @ - Total(lines, Receivables)]
        /\ todo[t] = {}
    BY <1>0, <1>4 DEF PaymentLocks, AllocationsPending, AllocateRequest,
         VoidPaymentRequest
  <2>2. /\ db'.payments[p] = [db.payments[p] EXCEPT
                                !.unapplied = @ - Total(lines, Receivables)]
    BY <1>0, <1>4, <2>1, EndMoney
  <2>3. /\ \A r \in Receivables : lines[r] \in Nat
        /\ Total(lines, Receivables) \in Nat
    BY <2>1, LinesTotalType
  <2>4. ASSUME NEW r \in Receivables
        PROVE  /\ \/ f[r] = 0 /\ h[r] = lines[r]
                  \/ lines[r] = 0 /\ h[r] = f[r]
               /\ h[r] \in Nat
    <3>1. CASE lines[r] > 0
      <4>1. Inserted(t, r)
        BY <1>0, <2>1, <3>1 DEF Inserted, Rows
      <4>2. /\ owner.allocations[<<p, r>>] = t
            /\ db.allocations[<<p, r>>] = 0
            /\ dirty.allocations[<<p, r>>] = lines[r]
        BY <1>0, <1>4, <2>1, <4>1 DEF AllocationsPending
      <4>3. lines[r] \in Nat
        BY <2>3
      <4> HIDE DEF lines
      <4> QED BY <1>2, <4>2, <4>3
    <3>2. CASE lines[r] = 0
      <4>1. owner.allocations[<<p, r>>] # t
        BY <1>0, <3>2 DEF AllocationLocks, Inserted, Rows
      <4> QED BY <1>2, <3>2, <4>1
    <3> QED BY <2>3, <3>1, <3>2
  <2>5. Total(h, Receivables) =
          Total(f, Receivables) + Total(lines, Receivables)
    <3>1. /\ IsFiniteSet(Receivables)
          /\ \A r \in Receivables :
               /\ f[r] \in Nat /\ lines[r] \in Nat /\ h[r] \in Nat
               /\ \/ f[r] = 0 /\ h[r] = lines[r]
                  \/ lines[r] = 0 /\ h[r] = f[r]
      BY <1>2, <2>3, <2>4, TablesAssumption
    <3> HIDE DEF lines
    <3> QED BY <3>1, TotalSum
  <2>6. /\ db'.payments[p].unapplied =
             db.payments[p].unapplied - Total(lines, Receivables)
        /\ db'.payments[p].received = db.payments[p].received
    BY <1>0, <2>2 DEF PaymentRow
  <2>7. db.payments[p].received \in Nat
    BY <1>0 DEF PaymentRow
  <2> HIDE DEF lines
  <2> QED BY <1>0, <1>1, <1>3, <2>3, <2>5, <2>6, <2>7
<1>5. CASE ~(owner.payments[p] = t /\ req[t] \in AllocateRequest)
  <2>1. \A r \in Receivables : owner.allocations[<<p, r>>] # t
    BY <1>0, <1>5 DEF AllocationLocks, PaymentLocks
  <2>2. Total(h, Receivables) = Total(f, Receivables)
    BY <1>2, <2>1, TotalEqual
  <2>3. /\ db'.payments[p].unapplied = db.payments[p].unapplied
        /\ db'.payments[p].received = db.payments[p].received
    <3>1. CASE owner.payments[p] = t
      <4>1. dirty.payments[p] = [db.payments[p] EXCEPT !.status = "voided"]
        BY <1>0, <1>5, <3>1 DEF PaymentLocks
      <4>2. db'.payments[p] = dirty.payments[p]
        BY <1>0, <3>1, EndMoney
      <4> QED BY <1>0, <4>1, <4>2 DEF PaymentRow
    <3>2. CASE owner.payments[p] # t
      BY <1>0, <3>2, EndMoney
    <3> QED BY <3>1, <3>2
  <2> QED BY <1>0, <1>1, <2>2, <2>3
<1> QED BY <1>4, <1>5

LEMMA EndStep ==
  ASSUME TypeOK, AllocationsMatchLocks, NEW t \in Tx, Commit(t) \/ Rollback(t)
  PROVE  AllocationsMatchLocks'
<1>0. /\ DirtyIsCommitted /\ AllocationLocks /\ PaymentLocks
      /\ \A u \in Tx : AllocationsPending(u)
      /\ \A p \in Payments : db.payments[p].status = "none"
                               => db.payments[p] = NoPayment
      /\ PaymentConservation
      /\ db \in Tables
  BY DEF AllocationsMatchLocks, TypeOK
<1>1. /\ DirtyIsCommitted' /\ OnlyMoves(t)
      /\ pc'[t] = "idle" /\ req'[t] = Nil
  BY <1>0, EndMoney
<1>2. req'[t] \notin AllocateRequest \cup VoidPaymentRequest
  BY <1>1, NilIsNothing DEF Request
<1>3. \A p \in Payments :
        /\ \/ db'.payments[p] = db.payments[p]
           \/ owner.payments[p] = t /\ db'.payments[p] = dirty.payments[p]
        /\ db.payments[p].status # "none" => db'.payments[p].status # "none"
        /\ db'.payments[p].status = "none" => db'.payments[p] = NoPayment
  <2> SUFFICES ASSUME NEW p \in Payments
               PROVE  /\ \/ db'.payments[p] = db.payments[p]
                         \/ /\ owner.payments[p] = t
                            /\ db'.payments[p] = dirty.payments[p]
                      /\ db.payments[p].status # "none"
                           => db'.payments[p].status # "none"
                      /\ db'.payments[p].status = "none"
                           => db'.payments[p] = NoPayment
    OBVIOUS
  <2>1. \/ db'.payments[p] = db.payments[p]
        \/ owner.payments[p] = t /\ db'.payments[p] = dirty.payments[p]
    BY <1>0, EndMoney
  <2>2. db.payments[p] \in PaymentRow
    BY <1>0 DEF Tables
  <2>3. owner.payments[p] = t => dirty.payments[p].status # "none"
    BY <1>0, <2>2 DEF PaymentLocks, PaymentRow
  <2> QED BY <1>0, <2>1, <2>3
<1>4. \A u \in Tx \ {t}, r \in Receivables : Inserted(u, r) <=> Inserted(u, r)'
  BY <1>1 DEF Inserted, OnlyMoves
<1>5. ASSUME NEW u \in Tx PROVE AllocationsPending(u)'
  <2>1. CASE u = t
    BY <1>2, <2>1 DEF AllocationsPending
  <2>2. CASE u # t
    <3>1. AllocationsPending(u) /\ req'[u] = req[u]
      BY <1>0, <1>1, <2>2 DEF OnlyMoves
    <3>2. req[u] \in AllocateRequest => req[u].payment \in Payments
      BY DEF AllocateRequest
    <3>3. ASSUME req[u] \in AllocateRequest, NEW r \in Receivables,
                 Inserted(u, r)
          PROVE  /\ owner'.allocations[<<req[u].payment, r>>] = u
                 /\ db'.allocations[<<req[u].payment, r>>] = 0
                 /\ dirty'.allocations[<<req[u].payment, r>>] = req[u].lines[r]
      <4>1. /\ owner.allocations[<<req[u].payment, r>>] = u
            /\ db.allocations[<<req[u].payment, r>>] = 0
            /\ dirty.allocations[<<req[u].payment, r>>] = req[u].lines[r]
        BY <3>1, <3>3 DEF AllocationsPending
      <4>2. <<req[u].payment, r>> \in Payments \X Receivables
        BY <3>2, <3>3
      <4> QED BY <1>0, <2>2, <4>1, <4>2, EndMoney
    <3> QED BY <1>1, <1>3, <1>4, <2>2, <3>1, <3>2, <3>3
            DEF AllocationsPending, OnlyMoves
  <2> QED BY <2>1, <2>2
<1>6. AllocationLocks'
  <2> SUFFICES ASSUME NEW p \in Payments, NEW r \in Receivables, NEW u \in Tx,
                      owner'.allocations[<<p, r>>] = u
               PROVE  /\ req'[u] \in AllocateRequest /\ req'[u].payment = p
                      /\ Inserted(u, r)'
    BY DEF AllocationLocks
  <2>1. owner.allocations[<<p, r>>] = u /\ u # t
    BY <1>0, EndMoney, NilAssumption
  <2> QED BY <1>0, <1>1, <1>4, <2>1 DEF AllocationLocks, OnlyMoves
<1>7. PaymentLocks'
  <2>1. ASSUME NEW p \in Payments, NEW u \in Tx, owner'.payments[p] = u
        PROVE  /\ owner.payments[p] = u /\ u # t
               /\ db'.payments[p] = db.payments[p]
               /\ dirty'.payments[p] = dirty.payments[p]
               /\ pc'[u] = pc[u] /\ req'[u] = req[u]
    BY <1>0, <1>1, <2>1, EndMoney, NilAssumption DEF OnlyMoves
  <2>2. ASSUME NEW u \in Tx, pc'[u] = "commit", req'[u] \in AllocateRequest
        PROVE  owner'.payments[req'[u].payment] = u
    <3>1. u # t /\ pc[u] = "commit" /\ req'[u] = req[u]
      BY <1>1, <2>2 DEF OnlyMoves
    <3>2. req[u].payment \in Payments /\ owner.payments[req[u].payment] = u
      BY <1>0, <2>2, <3>1 DEF PaymentLocks, AllocateRequest
    <3> QED BY <1>0, <3>1, <3>2, EndMoney
  <2>3. ASSUME NEW u \in Tx, req'[u] \in VoidPaymentRequest
        PROVE  db'.payments[req'[u].payment].status # "none"
    <3>1. u # t /\ req'[u] = req[u]
      BY <1>1, <1>2, <2>3 DEF OnlyMoves
    <3>2. req[u].payment \in Payments
          /\ db.payments[req[u].payment].status # "none"
      BY <1>0, <2>3, <3>1 DEF PaymentLocks, VoidPaymentRequest
    <3> QED BY <1>3, <3>1, <3>2
  <2>4. ASSUME NEW p \in Payments, NEW u \in Tx, owner'.payments[p] = u
        PROVE  /\ pc'[u] = "commit"
               /\ db'.payments[p].status # "none"
               /\ \/ /\ req'[u] \in AllocateRequest
                     /\ req'[u].payment = p
                     /\ dirty'.payments[p] =
                          [db'.payments[p] EXCEPT
                             !.unapplied = @ - Total(req'[u].lines, Receivables)]
                  \/ /\ req'[u] \in VoidPaymentRequest
                     /\ dirty'.payments[p] =
                          [db'.payments[p] EXCEPT !.status = "voided"]
    <3>1. /\ owner.payments[p] = u
          /\ db'.payments[p] = db.payments[p]
          /\ dirty'.payments[p] = dirty.payments[p]
          /\ pc'[u] = pc[u] /\ req'[u] = req[u]
      BY <2>1, <2>4
    <3> QED BY <1>0, <3>1 DEF PaymentLocks
  <2> QED BY <2>2, <2>3, <2>4 DEF PaymentLocks
<1>8. PaymentConservation'
  <2>1. CASE Commit(t)
    BY <2>1, CommitConserves DEF PaymentConservation
  <2>2. CASE Rollback(t)
    <3>1. \A p \in Payments : db'.payments[p] = db.payments[p]
      BY <1>0, <2>2, EndMoney
    <3>2. \A p \in Payments : AllocationsOf(p)' = AllocationsOf(p)
      BY <1>0, <2>2, EndMoney DEF AllocationsOf
    <3> QED BY <1>0, <3>1, <3>2 DEF PaymentConservation
  <2> QED BY <2>1, <2>2
<1> QED BY <1>1, <1>3, <1>5, <1>6, <1>7, <1>8 DEF AllocationsMatchLocks

-----------------------------------------------------------------------------
(***************************************************************************)
(* The invariant holds at first and is kept by every step.                 *)
(***************************************************************************)
LEMMA InitMatch == Init => AllocationsMatchLocks
<1> SUFFICES ASSUME Init PROVE AllocationsMatchLocks
  OBVIOUS
<1>1. /\ dirty = db
      /\ \A p \in Payments : db.payments[p] = NoPayment
      /\ \A p \in Payments, r \in Receivables : db.allocations[<<p, r>>] = 0
      /\ \A p \in Payments : owner.payments[p] = Nil
      /\ \A p \in Payments, r \in Receivables :
           owner.allocations[<<p, r>>] = Nil
      /\ \A t \in Tx : req[t] = Nil
  BY DEF Init
<1>2. \A t \in Tx : req[t] \notin AllocateRequest \cup VoidPaymentRequest
  BY <1>1, NilIsNothing DEF Request
<1>3. DirtyIsCommitted
  BY <1>1 DEF DirtyIsCommitted
<1>4. /\ \A t \in Tx : AllocationsPending(t)
      /\ AllocationLocks
      /\ PaymentLocks
  BY <1>1, <1>2, NilAssumption DEF AllocationsPending, AllocationLocks,
     PaymentLocks
<1>5. ASSUME NEW p \in Payments PROVE Total(AllocationsOf(p), Receivables) = 0
  <2>1. \A r \in Receivables : 1 .. AllocationsOf(p)[r] = {}
    BY <1>1 DEF AllocationsOf
  <2>2. Cents(AllocationsOf(p), Receivables) = {}
    BY <2>1 DEF Cents
  <2> QED BY <2>2, FS_EmptySet DEF Total
<1>6. PaymentConservation
  BY <1>1, <1>5 DEF PaymentConservation, NoPayment
<1> QED BY <1>1, <1>3, <1>4, <1>6 DEF AllocationsMatchLocks

LEMMA StutterMatch ==
  ASSUME TypeOK, AllocationsMatchLocks, UNCHANGED vars
  PROVE  AllocationsMatchLocks'
BY SameRequests, NoWrite DEF vars, storage, AllocationsMatchLocks

LEMMA NextMatch ==
  TypeOK /\ AllocationsMatchLocks /\ [Next]_vars => AllocationsMatchLocks'
<1> SUFFICES ASSUME TypeOK, AllocationsMatchLocks, [Next]_vars
             PROVE  AllocationsMatchLocks'
  OBVIOUS
<1>1. CASE SingleWrite
  BY <1>1, SingleWriteStep
<1>2. ASSUME NEW t \in Tx, Start(t) PROVE AllocationsMatchLocks'
  BY <1>2, StartStep
<1>3. ASSUME NEW t \in Tx, Step(t) PROVE AllocationsMatchLocks'
  <2>1. CASE CreatePaymentAllocation(t)
    BY <2>1, AllocationStep
  <2>2. CASE UpdatePaymentUnapplied(t) \/ VoidPaymentRow(t)
    BY <2>2, PaymentStep
  <2>3. CASE IssueCreateReceivable(t)
    BY <2>3, IssueStep
  <2>4. CASE Commit(t) \/ Rollback(t)
    BY <2>4, EndStep
  <2> QED BY <1>3, <2>1, <2>2, <2>3, <2>4, StepElsewhere DEF Step
<1>4. CASE UNCHANGED vars
  BY <1>4, StutterMatch
<1> QED BY <1>1, <1>2, <1>3, <1>4 DEF Next

\* What a transaction has written and not committed never shows in the
\* books: an uncommitted allocation is locked by the request that will take
\* it from the payment, in the same commit (AllocatePayment, VoidPayment).
THEOREM LocksMatch == Spec => []AllocationsMatchLocks
<1>1. Init => TypeOK /\ AllocationsMatchLocks
  BY InitTypeOK, InitMatch
<1>2. TypeOK /\ AllocationsMatchLocks /\ [Next]_vars
        => TypeOK' /\ AllocationsMatchLocks'
  BY NextTypeOK, NextMatch
<1> QED BY <1>1, <1>2, PTL DEF Spec

\* However many requests interleave their statements, and however many of
\* them fail half-way, what AllocatePayment takes from a payment's
\* unapplied_amount is what its committed allocations add up to.
THEOREM PaymentsConserved == Spec => []PaymentConservation
<1>1. AllocationsMatchLocks => PaymentConservation
  BY DEF AllocationsMatchLocks
<1> QED BY <1>1, LocksMatch, PTL

-----------------------------------------------------------------------------
(***************************************************************************)
(* What the steps of one transaction leave to the others.                  *)
(***************************************************************************)

\* The request of u is where it was, and so are the rows it has locked.
Undisturbed(u) ==
  /\ pc'[u] = pc[u] /\ req'[u] = req[u]
  /\ todo'[u] = todo[u] /\ line'[u] = line[u]
  /\ \A tab \in TableName :
       /\ Locked(u, tab)' = Locked(u, tab)
       /\ \A id \in Locked(u, tab) : /\ dirty'[tab][id] = dirty[tab][id]
                                     /\ db'[tab][id] = db[tab][id]

\* What requests have read and nobody takes back: a receivable exists, a
\* payment was posted, an allocation was made.
OnlyAdvance ==
  /\ \A r \in Receivables : db.receivables[r].status # "none"
                              => db'.receivables[r].status # "none"
  /\ \A p \in Payments : WasPosted(p) => WasPosted(p)'
  /\ \A pr \in Payments \X Receivables :
       db.allocations[pr] > 0 => db'.allocations[pr] = db.allocations[pr]

\* The kinds of requests are told apart by their names.
LEMMA KindsDiffer ==
  /\ \A q \in AllocateRequest : q.op = "allocate"
  /\ \A q \in VoidPaymentRequest : q.op = "void_payment"
  /\ \A q \in CreditRequest : q.op = "apply_credit"
  /\ \A q \in IssueBillRequest : q.op = "issue_bill"
  /\ \A q \in VoidBillRequest : q.op = "void_bill"
BY DEF AllocateRequest, VoidPaymentRequest, CreditRequest, IssueBillRequest,
       VoidBillRequest

\* The parts of a request are ids of rows.
LEMMA RequestParts ==
  /\ \A q \in AllocateRequest : q.payment \in Payments /\ q.lines \in Lines
  /\ \A q \in VoidPaymentRequest : q.payment \in Payments
  /\ \A q \in CreditRequest : /\ q.credit \in Credits
                              /\ q.receivable \in Receivables
                              /\ q.amount \in Amounts
  /\ \A q \in IssueBillRequest \cup VoidBillRequest :
       q.bill \in Bills /\ q.bill \in Receivables
BY TablesAssumption
   DEF AllocateRequest, VoidPaymentRequest, CreditRequest, IssueBillRequest,
       VoidBillRequest

\* A request that nobody disturbs is as sound as it was.
LEMMA UndisturbedKeep ==
  ASSUME TypeOK, TypeOK', NEW u \in Tx, Undisturbed(u), OnlyAdvance,
         Operation(u)
  PROVE  Operation(u)'
<1>0. /\ TableName = DOMAIN owner /\ TableName = DOMAIN owner'
      /\ req'[u] = req[u] /\ pc'[u] = pc[u] /\ todo'[u] = todo[u]
      /\ \A tab \in TableName :
           /\ Locked(u, tab)' = Locked(u, tab)
           /\ \A id \in Locked(u, tab) : /\ dirty'[tab][id] = dirty[tab][id]
                                         /\ db'[tab][id] = db[tab][id]
  BY DEF TypeOK, Locks, TableName, Undisturbed
<1>1. /\ Locked(u, "receivables")' = Locked(u, "receivables")
      /\ Locked(u, "payments")' = Locked(u, "payments")
      /\ Locked(u, "credit_balances")' = Locked(u, "credit_balances")
      /\ Locked(u, "lease_bills")' = Locked(u, "lease_bills")
      /\ \A r \in Locked(u, "receivables") :
           /\ dirty'.receivables[r] = dirty.receivables[r]
           /\ db'.receivables[r] = db.receivables[r]
      /\ \A p \in Locked(u, "payments") : db'.payments[p] = db.payments[p]
      /\ \A c \in Locked(u, "credit_balances") :
           /\ dirty'.credit_balances[c] = dirty.credit_balances[c]
           /\ db'.credit_balances[c] = db.credit_balances[c]
      /\ \A b \in Locked(u, "lease_bills") :
           /\ dirty'.lease_bills[b] = dirty.lease_bills[b]
           /\ db'.lease_bills[b] = db.lease_bills[b]
  BY <1>0 DEF TableName
<1>2. \A r \in Receivables : Paid(u, r)' <=> Paid(u, r)
  BY DEF Paid, Undisturbed
<1>3. AllocateOperation(u)'
  <2> SUFFICES ASSUME req[u] \in AllocateRequest PROVE AllocateOperation(u)'
    BY <1>0 DEF AllocateOperation
  <2>1. /\ Locked(u, "receivables") = {r \in Receivables : Paid(u, r)}
        /\ Locked(u, "credit_balances") = {} /\ Locked(u, "lease_bills") = {}
        /\ WasPosted(req[u].payment) /\ Rows(req[u].lines) # {}
        /\ \A r \in Rows(req[u].lines) \ todo[u] :
             db.receivables[r].status # "none"
        /\ \A r \in Locked(u, "receivables") :
             dirty.receivables[r] =
               UpdateReceivablePaidAmount(db.receivables[r], req[u].lines[r])
    BY DEF Operation, AllocateOperation
  <2>2. PICK p \in Payments : p = req[u].payment
    BY RequestParts
  <2>3. WasPosted(req[u].payment)'
    BY <1>0, <2>1, <2>2 DEF OnlyAdvance, WasPosted
  <2>4. \A r \in Rows(req[u].lines) \ todo[u] :
          db'.receivables[r].status # "none"
    BY <2>1 DEF OnlyAdvance, Rows
  <2>5. \A r \in Locked(u, "receivables")' :
          dirty'.receivables[r] =
            UpdateReceivablePaidAmount(db'.receivables[r], req'[u].lines[r])
    BY <1>0, <1>1, <2>1
  <2> QED BY <1>0, <1>1, <1>2, <2>1, <2>3, <2>4, <2>5 DEF AllocateOperation
<1>4. VoidPaymentOperation(u)'
  <2> SUFFICES ASSUME req[u] \in VoidPaymentRequest
               PROVE  VoidPaymentOperation(u)'
    BY <1>0 DEF VoidPaymentOperation
  <2>2. PICK p \in Payments : p = req[u].payment
    BY RequestParts
  <2>1. /\ Locked(u, "receivables") \subseteq
             IfAt(u, {"reverse", "void_payment", "commit"},
                  Allocated(p) \ todo[u])
        /\ todo[u] \subseteq IfAt(u, {"reverse"}, Allocated(p))
        /\ Locked(u, "payments") = IfAt(u, {"commit"}, {p})
        /\ Locked(u, "credit_balances") = {} /\ Locked(u, "lease_bills") = {}
        /\ pc[u] \in VoidPaymentStatement \cup {"commit"}
        /\ WasPosted(p)
        /\ \A q \in Locked(u, "payments") : db.payments[q].status = "posted"
        /\ \A r \in Locked(u, "receivables") :
             dirty.receivables[r] =
               UpdateReceivablePaidAmount(db.receivables[r],
                                          -db.allocations[<<p, r>>])
    BY <2>2 DEF Operation, VoidPaymentOperation
  <2>3. WasPosted(p)'
    BY <2>1, <2>2 DEF OnlyAdvance
  <2>4. \A r \in Allocated(p) : /\ r \in Allocated(p)'
                               /\ db'.allocations[<<p, r>>] =
                                    db.allocations[<<p, r>>]
    BY <2>2 DEF OnlyAdvance, Allocated
  <2>5. Locked(u, "receivables") \subseteq Allocated(p)
    BY <2>1 DEF IfAt
  <2>6. \A r \in Locked(u, "receivables")' :
          dirty'.receivables[r] =
            UpdateReceivablePaidAmount(db'.receivables[r],
                                       -db'.allocations[<<p, r>>])
    BY <1>1, <2>1, <2>4, <2>5
  <2>7. Locked(u, "receivables")' \subseteq
          IF pc'[u] \in {"reverse", "void_payment", "commit"}
            THEN Allocated(p)' \ todo'[u] ELSE {}
    BY <1>0, <1>1, <2>1, <2>4 DEF IfAt
  <2>8. todo'[u] \subseteq IF pc'[u] \in {"reverse"} THEN Allocated(p)' ELSE {}
    BY <1>0, <2>1, <2>4 DEF IfAt
  <2>9. Locked(u, "payments")' = IF pc'[u] \in {"commit"} THEN {p} ELSE {}
    BY <1>0, <1>1, <2>1 DEF IfAt
  <2> QED BY <1>0, <1>1, <2>1, <2>2, <2>3, <2>6, <2>7, <2>8, <2>9
          DEF VoidPaymentOperation, IfAt, Allocated, WasPosted
<1>5. CreditOperation(u)'
  <2> SUFFICES ASSUME req[u] \in CreditRequest PROVE CreditOperation(u)'
    BY <1>0 DEF CreditOperation
  <2>1. CreditOperation(u) /\ req[u].receivable \in Receivables
    BY RequestParts DEF Operation
  <2> QED BY <1>0, <1>1, <2>1 DEF CreditOperation, IfAt, OnlyAdvance
<1>6. IssueBillOperation(u)'
  <2> SUFFICES ASSUME req[u] \in IssueBillRequest PROVE IssueBillOperation(u)'
    BY <1>0 DEF IssueBillOperation
  <2>1. IssueBillOperation(u)
    BY DEF Operation
  <2> QED BY <1>0, <1>1, <2>1 DEF IssueBillOperation, IfAt
<1>7. VoidBillOperation(u)'
  <2> SUFFICES ASSUME req[u] \in VoidBillRequest PROVE VoidBillOperation(u)'
    BY <1>0 DEF VoidBillOperation
  <2>1. VoidBillOperation(u)
    BY DEF Operation
  <2> QED BY <1>0, <1>1, <2>1 DEF VoidBillOperation, IfAt
<1>8. req'[u] \notin Request
        => \A tab \in DOMAIN owner' : Locked(u, tab)' = {}
  BY <1>0 DEF Operation
<1> QED BY <1>3, <1>4, <1>5, <1>6, <1>7, <1>8 DEF Operation

\* A request is of one kind only.
LEMMA OneKind ==
  ASSUME NEW t \in Tx
  PROVE  /\ req'[t] \in AllocateRequest /\ AllocateOperation(t)'
              => Operation(t)'
         /\ req'[t] \in VoidPaymentRequest /\ VoidPaymentOperation(t)'
              => Operation(t)'
         /\ req'[t] \in CreditRequest /\ CreditOperation(t)' => Operation(t)'
         /\ req'[t] \in IssueBillRequest /\ IssueBillOperation(t)'
              => Operation(t)'
         /\ req'[t] \in VoidBillRequest /\ VoidBillOperation(t)'
              => Operation(t)'
<1>1. /\ req'[t] \in AllocateRequest => req'[t].op = "allocate"
      /\ req'[t] \in VoidPaymentRequest => req'[t].op = "void_payment"
      /\ req'[t] \in CreditRequest => req'[t].op = "apply_credit"
      /\ req'[t] \in IssueBillRequest => req'[t].op = "issue_bill"
      /\ req'[t] \in VoidBillRequest => req'[t].op = "void_bill"
  BY KindsDiffer
<1>2. /\ AllocateOperation(t)' <=> req'[t] \notin AllocateRequest \/ AllocateOperation(t)'
      /\ VoidPaymentOperation(t)' <=> req'[t] \notin VoidPaymentRequest \/ VoidPaymentOperation(t)'
      /\ CreditOperation(t)' <=> req'[t] \notin CreditRequest \/ CreditOperation(t)'
      /\ IssueBillOperation(t)' <=> req'[t] \notin IssueBillRequest \/ IssueBillOperation(t)'
      /\ VoidBillOperation(t)' <=> req'[t] \notin VoidBillRequest \/ VoidBillOperation(t)'
  BY DEF AllocateOperation, VoidPaymentOperation, CreditOperation,
         IssueBillOperation, VoidBillOperation
<1>3. /\ req'[t] \in AllocateRequest \cup VoidPaymentRequest \cup CreditRequest
                       \cup IssueBillRequest \cup VoidBillRequest
           => req'[t] \in Request
  BY DEF Request
<1> QED BY <1>1, <1>2, <1>3 DEF Operation

\* What a statement that writes one row leaves as it was.
LEMMA WriteDisturbs ==
  ASSUME TypeOK, NEW t \in Tx, NEW tab \in TableName,
         NEW id \in DOMAIN owner[tab], NEW row, Write(t, tab, id, row),
         OnlyMoves(t)
  PROVE  /\ \A u \in Tx \ {t} : Undisturbed(u)
         /\ OnlyAdvance
         /\ db' = db
         /\ Locked(t, tab)' = Locked(t, tab) \cup {id}
         /\ \A other \in TableName \ {tab} :
              /\ Locked(t, other)' = Locked(t, other)
              /\ dirty'[other] = dirty[other]
         /\ dirty'[tab][id] = row
         /\ \A x \in DOMAIN owner[tab] \ {id} : dirty'[tab][x] = dirty[tab][x]
<1>0. StorageTypeOK
  BY TypeOKParts
<1>1. /\ db' = db
      /\ dirty'[tab] = [dirty[tab] EXCEPT ![id] = row]
      /\ owner'[tab] = [owner[tab] EXCEPT ![id] = t]
      /\ \A other \in TableName \ {tab} :
           dirty'[other] = dirty[other] /\ owner'[other] = owner[other]
  BY <1>0, WriteEffect
<1>2. owner[tab][id] \in {Nil, t}
  BY DEF Write, Free
<1>3. DOMAIN owner[tab] = DOMAIN dirty[tab]
  BY <1>0, SMTT(20) DEF StorageTypeOK, Locks, Tables, TableName
<1>4. /\ DOMAIN owner'[tab] = DOMAIN owner[tab]
      /\ \A x \in DOMAIN owner[tab] :
           /\ owner'[tab][x] = IF x = id THEN t ELSE owner[tab][x]
           /\ dirty'[tab][x] = IF x = id THEN row ELSE dirty[tab][x]
  BY <1>1, <1>3
<1>5. Locked(t, tab)' = Locked(t, tab) \cup {id}
  BY <1>4 DEF Locked
<1>6. \A other \in TableName \ {tab} :
        /\ \A u \in Tx : Locked(u, other)' = Locked(u, other)
        /\ dirty'[other] = dirty[other]
  BY <1>1 DEF Locked
<1>7. ASSUME NEW u \in Tx \ {t} PROVE Undisturbed(u)
  <2>1. id \notin Locked(u, tab)
    BY <1>2, NilAssumption DEF Locked
  <2>2. Locked(u, tab)' = Locked(u, tab)
    BY <1>2, <1>4, NilAssumption DEF Locked
  <2>3. \A x \in Locked(u, tab) : dirty'[tab][x] = dirty[tab][x]
    BY <1>4, <2>1 DEF Locked
  <2> QED BY <1>1, <1>6, <2>2, <2>3 DEF Undisturbed, OnlyMoves
<1>8. OnlyAdvance
  BY <1>1 DEF OnlyAdvance, WasPosted
<1> QED BY <1>1, <1>4, <1>5, <1>6, <1>7, <1>8

\* A row a transaction writes first is the committed one.
LEMMA FirstWrite ==
  ASSUME TypeOK, DirtyIsCommitted, NEW t \in Tx, NEW tab \in TableName,
         NEW id \in DOMAIN owner[tab], Free(t, tab, id), id \notin Locked(t, tab)
  PROVE  owner[tab][id] = Nil /\ dirty[tab][id] = db[tab][id]
<1>1. owner[tab][id] = Nil
  BY DEF Free, Locked
<1> QED BY <1>1 DEF TypeOK, Locks, TableName, DirtyIsCommitted

\* A statement that only reads.
LEMMA ReadDisturbs ==
  ASSUME TypeOK, NEW t \in Tx, UNCHANGED storage, OnlyMoves(t)
  PROVE  /\ \A u \in Tx \ {t} : Undisturbed(u)
         /\ OnlyAdvance
         /\ db' = db /\ dirty' = dirty
         /\ \A tab : Locked(t, tab)' = Locked(t, tab)
<1>1. db' = db /\ dirty' = dirty /\ owner' = owner
  BY DEF storage
<1>2. \A tab, u : Locked(u, tab)' = Locked(u, tab)
  BY <1>1 DEF Locked
<1> QED BY <1>1, <1>2 DEF Undisturbed, OnlyMoves, OnlyAdvance, WasPosted

\* A step that leaves the others alone has only its own request to see to.
LEMMA OwnOperation ==
  ASSUME TypeOK, TypeOK', LocksAreOperations, NEW t \in Tx,
         \A u \in Tx \ {t} : Undisturbed(u), OnlyAdvance, Operation(t)'
  PROVE  LocksAreOperations'
<1>1. ASSUME NEW u \in Tx \ {t} PROVE Operation(u)'
  BY <1>1, UndisturbedKeep DEF LocksAreOperations
<1> QED BY <1>1 DEF LocksAreOperations

-----------------------------------------------------------------------------
(***************************************************************************)
(* The statements of AllocatePayment.                                      *)
(***************************************************************************)
USE DEF At, Goto

LEMMA AllocateOperationStep ==
  ASSUME TypeOK, TypeOK', AllocationsMatchLocks, LocksAreOperations,
         NEW t \in Tx,
         \/ \E r \in Receivables : AllocateGetReceivable(t, r)
         \/ CreatePaymentAllocation(t)
         \/ AllocateUpdatePaid(t)
         \/ UpdatePaymentUnapplied(t)
  PROVE  LocksAreOperations'
<1>0. /\ DirtyIsCommitted /\ AllocationsPending(t) /\ AllocateOperation(t)
      /\ owner \in Locks /\ db \in Tables
      /\ pc \in [Tx -> Statement] /\ req \in [Tx -> Request \cup {Nil}]
      /\ todo \in [Tx -> SUBSET Receivables]
      /\ line \in [Tx -> Receivables \cup {Nil}]
      /\ RequestOK(t)
  BY DEF AllocationsMatchLocks, TypeOK, LocksAreOperations, Operation
<1>1. /\ pc[t] \in AllocateStatement /\ OnlyMoves(t) /\ req' = req
      /\ req[t] \in AllocateRequest
  <2>1. /\ pc[t] \in AllocateStatement /\ OnlyMoves(t) /\ req' = req
    BY <1>0 DEF AllocateGetReceivable, CreatePaymentAllocation,
         AllocateUpdatePaid, UpdatePaymentUnapplied, OnlyMoves,
         UnchangedRequest, AllocateStatement
  <2> QED BY <1>0, <2>1 DEF RequestOK
<1>2. PICK p \in Payments, lines \in Lines :
        p = req[t].payment /\ lines = req[t].lines
  BY <1>1, RequestParts
<1>3. /\ Locked(t, "receivables") = {r \in Receivables : Paid(t, r)}
      /\ Locked(t, "credit_balances") = {} /\ Locked(t, "lease_bills") = {}
      /\ WasPosted(p) /\ Rows(lines) # {}
      /\ \A r \in Rows(lines) \ todo[t] : db.receivables[r].status # "none"
      /\ \A r \in Locked(t, "receivables") :
           dirty.receivables[r] =
             UpdateReceivablePaidAmount(db.receivables[r], lines[r])
  BY <1>0, <1>1, <1>2 DEF AllocateOperation
<1>4. /\ "receivables" \in TableName /\ "payments" \in TableName
      /\ "credit_balances" \in TableName /\ "lease_bills" \in TableName
      /\ "allocations" \in TableName
      /\ DOMAIN owner["receivables"] = Receivables
      /\ DOMAIN owner["payments"] = Payments
      /\ DOMAIN owner["allocations"] = Payments \X Receivables
  BY <1>0 DEF TableName, Locks
\* What is to be shown of each statement.
<1>5. ASSUME \A u \in Tx \ {t} : Undisturbed(u), OnlyAdvance, db' = db,
             Locked(t, "receivables")' = {r \in Receivables : Paid(t, r)'},
             Locked(t, "credit_balances")' = {}, Locked(t, "lease_bills")' = {},
             \A r \in Rows(lines) \ todo'[t] : db.receivables[r].status # "none",
             \A r \in Locked(t, "receivables")' :
               dirty'.receivables[r] =
                 UpdateReceivablePaidAmount(db.receivables[r], lines[r])
      PROVE  LocksAreOperations'
  <2>1. WasPosted(p)'
    BY <1>3, <1>5 DEF WasPosted
  <2>2. AllocateOperation(t)'
    BY <1>1, <1>2, <1>3, <1>5, <2>1 DEF AllocateOperation, WasPosted
  <2>3. req'[t] \in AllocateRequest
    BY <1>1
  <2> QED BY <1>5, <2>2, <2>3, OneKind, OwnOperation
<1>6. ASSUME NEW r \in Receivables, AllocateGetReceivable(t, r)
      PROVE  LocksAreOperations'
  <2>1. /\ UNCHANGED storage /\ pc[t] = "get_receivable"
        /\ pc'[t] = "create_allocation" /\ line'[t] = r
        /\ r \in todo[t] /\ todo'[t] = todo[t] \ {r}
        /\ AcceptsMoney(db.receivables[r])
    BY <1>0, <1>6 DEF AllocateGetReceivable
  <2>2. /\ \A u \in Tx \ {t} : Undisturbed(u)
        /\ OnlyAdvance
        /\ db' = db /\ dirty' = dirty
        /\ \A tab : Locked(t, tab)' = Locked(t, tab)
    BY <1>1, <2>1, ReadDisturbs
  <2>3. \A x \in Receivables : Paid(t, x)' <=> Paid(t, x)
    BY <1>1, <2>1 DEF Paid
  <2>4. \A x \in Rows(lines) \ todo'[t] : db.receivables[x].status # "none"
    BY <1>3, <2>1 DEF AcceptsMoney
  <2> QED BY <1>3, <1>5, <2>2, <2>3, <2>4
<1>7. CASE CreatePaymentAllocation(t)
  <2> DEFINE key == <<req[t].payment, line[t]>>
  <2>1. /\ Write(t, "allocations", key, req[t].lines[line[t]])
        /\ pc[t] = "create_allocation" /\ pc'[t] = "update_paid"
        /\ todo' = todo /\ line' = line
    BY <1>0, <1>7 DEF CreatePaymentAllocation, UnchangedRequest
  <2>2. key \in DOMAIN owner["allocations"]
    BY <1>0, <1>2, <1>4, <2>1 DEF RequestOK
  <2>3. /\ \A u \in Tx \ {t} : Undisturbed(u)
        /\ OnlyAdvance /\ db' = db
        /\ \A other \in TableName \ {"allocations"} :
             /\ Locked(t, other)' = Locked(t, other)
             /\ dirty'[other] = dirty[other]
    BY <1>1, <1>4, <2>1, <2>2, WriteDisturbs
  <2>4. \A x \in Receivables : Paid(t, x)' <=> Paid(t, x)
    BY <1>1, <2>1 DEF Paid
  <2> QED BY <1>3, <1>4, <1>5, <2>1, <2>3, <2>4
<1>8. CASE AllocateUpdatePaid(t)
  <2>0. PICK r \in Receivables : r = line[t]
    BY <1>0, <1>8 DEF AllocateUpdatePaid, RequestOK
  <2> DEFINE row == UpdateReceivablePaidAmount(dirty.receivables[r], lines[r])
  <2>1. /\ Write(t, "receivables", r, row)
        /\ pc[t] = "update_paid"
        /\ pc'[t] \notin {"create_allocation", "update_paid"}
        /\ todo' = todo
    BY <1>0, <1>2, <1>8, <2>0 DEF AllocateUpdatePaid
  <2>2. r \in Rows(lines) \ todo[t] /\ ~Paid(t, r)
    BY <1>0, <1>1, <1>2, <2>0, <2>1 DEF AllocationsPending, Paid
  <2>3. dirty.receivables[r] = db.receivables[r]
    BY <1>0, <1>3, <1>4, <2>1, <2>2, FirstWrite DEF Write
  <2> HIDE DEF row
  <2>4. /\ \A u \in Tx \ {t} : Undisturbed(u)
        /\ OnlyAdvance /\ db' = db
        /\ Locked(t, "receivables")' = Locked(t, "receivables") \cup {r}
        /\ \A other \in TableName \ {"receivables"} :
             Locked(t, other)' = Locked(t, other)
        /\ dirty'["receivables"][r] = row
        /\ \A x \in Receivables \ {r} :
             dirty'["receivables"][x] = dirty["receivables"][x]
    BY <1>1, <1>4, <2>1, WriteDisturbs
  <2>5. \A x \in Receivables : Paid(t, x)' <=> Paid(t, x) \/ x = r
    BY <1>1, <1>2, <2>0, <2>1, <2>2 DEF Paid
  <2>6. row = UpdateReceivablePaidAmount(db.receivables[r], lines[r])
    BY <2>3 DEF row
  <2>7. \A x \in Locked(t, "receivables")' :
          dirty'.receivables[x] =
            UpdateReceivablePaidAmount(db.receivables[x], lines[x])
    BY <1>3, <2>4, <2>6
  <2> QED BY <1>3, <1>4, <1>5, <2>1, <2>4, <2>5, <2>7
<1>9. CASE UpdatePaymentUnapplied(t)
  <2> DEFINE row == [dirty.payments[p] EXCEPT
                       !.unapplied = @ - Total(lines, Receivables)]
  <2>1. /\ Write(t, "payments", p, row)
        /\ pc[t] = "update_unapplied" /\ pc'[t] = "commit"
        /\ todo' = todo /\ line' = line
    BY <1>0, <1>2, <1>9 DEF UpdatePaymentUnapplied, UnchangedRequest
  <2> HIDE DEF row
  <2>2. /\ \A u \in Tx \ {t} : Undisturbed(u)
        /\ OnlyAdvance /\ db' = db
        /\ \A other \in TableName \ {"payments"} :
             /\ Locked(t, other)' = Locked(t, other)
             /\ dirty'[other] = dirty[other]
    BY <1>1, <1>4, <2>1, WriteDisturbs
  <2>3. \A x \in Receivables : Paid(t, x)' <=> Paid(t, x)
    BY <1>1, <2>1 DEF Paid
  <2> QED BY <1>3, <1>4, <1>5, <2>1, <2>2, <2>3
<1> QED BY <1>6, <1>7, <1>8, <1>9

-----------------------------------------------------------------------------
(***************************************************************************)
(* The statements of VoidPayment.                                          *)
(***************************************************************************)
LEMMA VoidPaymentOperationStep ==
  ASSUME TypeOK, TypeOK', AllocationsMatchLocks, LocksAreOperations,
         NEW t \in Tx,
         \/ VoidListAllocations(t)
         \/ \E r \in Receivables : VoidReverse(t, r)
         \/ VoidPaymentRow(t)
  PROVE  LocksAreOperations'
<1>0. /\ DirtyIsCommitted /\ VoidPaymentOperation(t)
      /\ owner \in Locks /\ db \in Tables
      /\ pc \in [Tx -> Statement] /\ req \in [Tx -> Request \cup {Nil}]
      /\ todo \in [Tx -> SUBSET Receivables]
      /\ RequestOK(t)
  BY DEF AllocationsMatchLocks, TypeOK, LocksAreOperations, Operation
<1>1. /\ pc[t] \in VoidPaymentStatement /\ OnlyMoves(t) /\ req' = req
      /\ req[t] \in VoidPaymentRequest
  <2>1. /\ pc[t] \in VoidPaymentStatement /\ OnlyMoves(t) /\ req' = req
    BY <1>0 DEF VoidListAllocations, VoidReverse, VoidPaymentRow, OnlyMoves,
         UnchangedRequest, VoidPaymentStatement
  <2> QED BY <1>0, <2>1 DEF RequestOK
<1>2. PICK p \in Payments : p = req[t].payment
  BY <1>1, RequestParts
<1> DEFINE Reversed(row, r) ==
      UpdateReceivablePaidAmount(row, -db.allocations[<<p, r>>])
<1>3. /\ Locked(t, "receivables") \subseteq
           IfAt(t, {"reverse", "void_payment", "commit"},
                Allocated(p) \ todo[t])
      /\ todo[t] \subseteq IfAt(t, {"reverse"}, Allocated(p))
      /\ Locked(t, "payments") = {}
      /\ Locked(t, "credit_balances") = {} /\ Locked(t, "lease_bills") = {}
      /\ WasPosted(p)
      /\ \A r \in Locked(t, "receivables") :
           dirty.receivables[r] = Reversed(db.receivables[r], r)
  BY <1>0, <1>1, <1>2 DEF VoidPaymentOperation, VoidPaymentStatement, IfAt
<1>4. /\ "receivables" \in TableName /\ "payments" \in TableName
      /\ "credit_balances" \in TableName /\ "lease_bills" \in TableName
      /\ DOMAIN owner["receivables"] = Receivables
      /\ DOMAIN owner["payments"] = Payments
  BY <1>0 DEF TableName, Locks
<1> HIDE DEF Reversed
\* What is to be shown of each statement.
<1>5. ASSUME \A u \in Tx \ {t} : Undisturbed(u), OnlyAdvance, db' = db,
             Locked(t, "receivables")' \subseteq Allocated(p) \ todo'[t],
             todo'[t] \subseteq IF pc'[t] = "reverse" THEN Allocated(p) ELSE {},
             \/ /\ pc'[t] \in {"reverse", "void_payment"}
                /\ Locked(t, "payments")' = {}
             \/ /\ pc'[t] = "commit" /\ Locked(t, "payments")' = {p}
                /\ db.payments[p].status = "posted",
             Locked(t, "credit_balances")' = {}, Locked(t, "lease_bills")' = {},
             \A r \in Locked(t, "receivables")' :
               dirty'.receivables[r] = Reversed(db.receivables[r], r)
      PROVE  LocksAreOperations'
  <2>1. WasPosted(p)' /\ Allocated(p)' = Allocated(p)
    BY <1>3, <1>5 DEF WasPosted, Allocated
  <2>2. VoidPaymentOperation(t)'
    BY <1>1, <1>2, <1>5, <2>1
       DEF VoidPaymentOperation, WasPosted, IfAt, Allocated, Reversed,
           VoidPaymentStatement
  <2>3. req'[t] \in VoidPaymentRequest
    BY <1>1
  <2> QED BY <1>5, <2>2, <2>3, OneKind, OwnOperation
<1>6. CASE VoidListAllocations(t)
  <2>1. /\ UNCHANGED storage /\ pc[t] = "list_allocations"
        /\ todo'[t] = Allocated(p)
        /\ pc'[t] = IF todo'[t] = {} THEN "void_payment" ELSE "reverse"
    BY <1>0, <1>2, <1>6 DEF VoidListAllocations
  <2>2. /\ \A u \in Tx \ {t} : Undisturbed(u)
        /\ OnlyAdvance
        /\ db' = db /\ dirty' = dirty
        /\ \A tab : Locked(t, tab)' = Locked(t, tab)
    BY <1>1, <2>1, ReadDisturbs
  <2>3. Locked(t, "receivables") = {}
    BY <1>3, <2>1 DEF IfAt
  <2> QED BY <1>3, <1>5, <2>1, <2>2, <2>3
<1>7. ASSUME NEW r \in Receivables, VoidReverse(t, r)
      PROVE  LocksAreOperations'
  <2> DEFINE row == Reversed(dirty.receivables[r], r)
  <2>1. /\ Write(t, "receivables", r, row)
        /\ pc[t] = "reverse" /\ r \in todo[t] /\ todo'[t] = todo[t] \ {r}
        /\ pc'[t] = IF todo[t] = {r} THEN "void_payment" ELSE "reverse"
    BY <1>0, <1>2, <1>7 DEF VoidReverse, Reversed
  <2>2. r \in Allocated(p) /\ r \notin Locked(t, "receivables")
    BY <1>3, <2>1 DEF IfAt
  <2>3. dirty.receivables[r] = db.receivables[r]
    BY <1>0, <1>4, <2>1, <2>2, FirstWrite DEF Write
  <2>4. row = Reversed(db.receivables[r], r)
    BY <2>3
  <2> HIDE DEF row
  <2>5. /\ \A u \in Tx \ {t} : Undisturbed(u)
        /\ OnlyAdvance /\ db' = db
        /\ Locked(t, "receivables")' = Locked(t, "receivables") \cup {r}
        /\ \A other \in TableName \ {"receivables"} :
             Locked(t, other)' = Locked(t, other)
        /\ dirty'["receivables"][r] = row
        /\ \A x \in Receivables \ {r} :
             dirty'["receivables"][x] = dirty["receivables"][x]
    BY <1>1, <1>4, <2>1, WriteDisturbs
  <2>6. /\ Locked(t, "receivables") \subseteq Allocated(p) \ todo[t]
        /\ todo[t] \subseteq Allocated(p)
    BY <1>3, <2>1 DEF IfAt
  <2>7. /\ Locked(t, "receivables")' \subseteq Allocated(p) \ todo'[t]
        /\ todo'[t] \subseteq IF pc'[t] = "reverse" THEN Allocated(p) ELSE {}
    BY <2>1, <2>2, <2>5, <2>6
  <2>8. \A x \in Locked(t, "receivables")' :
          dirty'.receivables[x] = Reversed(db.receivables[x], x)
    <3>1. Locked(t, "receivables") \subseteq Receivables
      BY <1>4 DEF Locked
    <3> QED BY <1>3, <2>4, <2>5, <3>1
  <2> QED BY <1>3, <1>4, <1>5, <2>1, <2>5, <2>7, <2>8
<1>8. CASE VoidPaymentRow(t)
  <2> DEFINE row == [dirty.payments[p] EXCEPT !.status = "voided"]
  <2>1. /\ Write(t, "payments", p, row)
        /\ dirty.payments[p].status = "posted"
        /\ pc[t] = "void_payment" /\ pc'[t] = "commit" /\ todo' = todo
    BY <1>0, <1>2, <1>8 DEF VoidPaymentRow, UnchangedRequest
  <2> HIDE DEF row
  <2>2. db.payments[p].status = "posted"
    BY <1>0, <1>3, <1>4, <2>1, FirstWrite DEF Write
  <2>3. /\ \A u \in Tx \ {t} : Undisturbed(u)
        /\ OnlyAdvance /\ db' = db
        /\ Locked(t, "payments")' = Locked(t, "payments") \cup {p}
        /\ \A other \in TableName \ {"payments"} :
             /\ Locked(t, other)' = Locked(t, other)
             /\ dirty'[other] = dirty[other]
    BY <1>1, <1>4, <2>1, WriteDisturbs
  <2>4. /\ Locked(t, "receivables") \subseteq Allocated(p) \ todo[t]
        /\ todo[t] = {}
    BY <1>3, <2>1 DEF IfAt
  <2> QED BY <1>3, <1>4, <1>5, <2>1, <2>2, <2>3, <2>4
<1> QED BY <1>6, <1>7, <1>8

-----------------------------------------------------------------------------
(***************************************************************************)
(* The statements of ApplyCreditBalance.                                   *)
(***************************************************************************)
LEMMA CreditOperationStep ==
  ASSUME TypeOK, TypeOK', AllocationsMatchLocks, LocksAreOperations,
         NEW t \in Tx,
         CreditGetReceivable(t) \/ CreditUse(t) \/ CreditUpdateCredited(t)
  PROVE  LocksAreOperations'
<1>0. /\ DirtyIsCommitted /\ CreditOperation(t)
      /\ owner \in Locks /\ db \in Tables
      /\ pc \in [Tx -> Statement] /\ req \in [Tx -> Request \cup {Nil}]
      /\ RequestOK(t)
  BY DEF AllocationsMatchLocks, TypeOK, LocksAreOperations, Operation
<1>1. /\ pc[t] \in CreditStatement /\ OnlyMoves(t) /\ req' = req
      /\ req[t] \in CreditRequest
  <2>1. /\ pc[t] \in CreditStatement /\ OnlyMoves(t) /\ req' = req
    BY <1>0 DEF CreditGetReceivable, CreditUse, CreditUpdateCredited, OnlyMoves,
         UnchangedRequest, CreditStatement
  <2> QED BY <1>0, <2>1 DEF RequestOK
<1>2. PICK c \in Credits, r \in Receivables, amount \in Amounts :
        c = req[t].credit /\ r = req[t].receivable /\ amount = req[t].amount
  BY <1>1, RequestParts
<1> DEFINE Used(row) == ApplyCreditBalance(row, amount)
           Credited(row) == UpdateReceivableCreditedAmount(row, amount)
<1>3. /\ Locked(t, "receivables") = {}
      /\ Locked(t, "credit_balances") =
           IF pc[t] = "update_credited" THEN {c} ELSE {}
      /\ Locked(t, "lease_bills") = {}
      /\ pc[t] # "get_credit_receivable" => db.receivables[r].status # "none"
      /\ c \in Locked(t, "credit_balances") =>
           /\ db.credit_balances[c].status = "available"
           /\ dirty.credit_balances[c] = Used(db.credit_balances[c])
  BY <1>0, <1>1, <1>2 DEF CreditOperation, CreditStatement, IfAt
<1>4. /\ "receivables" \in TableName /\ "credit_balances" \in TableName
      /\ "lease_bills" \in TableName
      /\ DOMAIN owner["receivables"] = Receivables
      /\ DOMAIN owner["credit_balances"] = Credits
  BY <1>0 DEF TableName, Locks
<1> HIDE DEF Used, Credited
\* What is to be shown of each statement.
<1>5. ASSUME \A u \in Tx \ {t} : Undisturbed(u), OnlyAdvance, db' = db,
             pc'[t] \in {"use_credit", "update_credited", "commit"},
             Locked(t, "receivables")' =
               IF pc'[t] = "commit" THEN {r} ELSE {},
             Locked(t, "credit_balances")' =
               IF pc'[t] = "use_credit" THEN {} ELSE {c},
             Locked(t, "lease_bills")' = {},
             db.receivables[r].status # "none",
             pc'[t] # "use_credit" =>
               /\ db.credit_balances[c].status = "available"
               /\ dirty'.credit_balances[c] = Used(db.credit_balances[c]),
             pc'[t] = "commit" =>
               dirty'.receivables[r] = Credited(db.receivables[r])
      PROVE  LocksAreOperations'
  <2>1. CreditOperation(t)'
    BY <1>1, <1>2, <1>5
       DEF CreditOperation, IfAt, Used, Credited, CreditStatement
  <2>2. req'[t] \in CreditRequest
    BY <1>1
  <2> QED BY <1>5, <2>1, <2>2, OneKind, OwnOperation
<1>6. CASE CreditGetReceivable(t)
  <2>1. /\ UNCHANGED storage /\ pc[t] = "get_credit_receivable"
        /\ pc'[t] = "use_credit" /\ AcceptsMoney(db.receivables[r])
    BY <1>0, <1>2, <1>6 DEF CreditGetReceivable
  <2>2. /\ \A u \in Tx \ {t} : Undisturbed(u)
        /\ OnlyAdvance
        /\ db' = db /\ dirty' = dirty
        /\ \A tab : Locked(t, tab)' = Locked(t, tab)
    BY <1>1, <2>1, ReadDisturbs
  <2> QED BY <1>3, <1>5, <2>1, <2>2 DEF AcceptsMoney
<1>7. CASE CreditUse(t)
  <2> DEFINE row == Used(dirty.credit_balances[c])
  <2>1. /\ Write(t, "credit_balances", c, row)
        /\ dirty.credit_balances[c].status = "available"
        /\ pc[t] = "use_credit" /\ pc'[t] = "update_credited"
    BY <1>0, <1>2, <1>7 DEF CreditUse, Used
  <2>2. dirty.credit_balances[c] = db.credit_balances[c]
    BY <1>0, <1>3, <1>4, <2>1, FirstWrite DEF Write
  <2>3. row = Used(db.credit_balances[c])
    BY <2>2
  <2> HIDE DEF row
  <2>4. /\ \A u \in Tx \ {t} : Undisturbed(u)
        /\ OnlyAdvance /\ db' = db
        /\ Locked(t, "credit_balances")' = Locked(t, "credit_balances") \cup {c}
        /\ \A other \in TableName \ {"credit_balances"} :
             Locked(t, other)' = Locked(t, other)
        /\ dirty'["credit_balances"][c] = row
    BY <1>1, <1>4, <2>1, WriteDisturbs
  <2> QED BY <1>3, <1>4, <1>5, <2>1, <2>2, <2>3, <2>4
<1>8. CASE CreditUpdateCredited(t)
  <2> DEFINE row == Credited(dirty.receivables[r])
  <2>1. /\ Write(t, "receivables", r, row)
        /\ pc[t] = "update_credited" /\ pc'[t] = "commit"
    BY <1>0, <1>2, <1>8 DEF CreditUpdateCredited, Credited
  <2>2. dirty.receivables[r] = db.receivables[r]
    BY <1>0, <1>3, <1>4, <2>1, FirstWrite DEF Write
  <2>3. row = Credited(db.receivables[r])
    BY <2>2
  <2> HIDE DEF row
  <2>4. /\ \A u \in Tx \ {t} : Undisturbed(u)
        /\ OnlyAdvance /\ db' = db
        /\ Locked(t, "receivables")' = Locked(t, "receivables") \cup {r}
        /\ \A other \in TableName \ {"receivables"} :
             /\ Locked(t, other)' = Locked(t, other)
             /\ dirty'[other] = dirty[other]
        /\ dirty'["receivables"][r] = row
    BY <1>1, <1>4, <2>1, WriteDisturbs
  <2> QED BY <1>3, <1>4, <1>5, <2>1, <2>2, <2>3, <2>4
<1> QED BY <1>6, <1>7, <1>8

-----------------------------------------------------------------------------
(***************************************************************************)
(* The statements of IssueLeaseBill and VoidLeaseBill.                     *)
(***************************************************************************)

\* A receivable that somebody has locked exists in its newest version.
LEMMA LockedExists ==
  ASSUME TypeOK, LocksAreOperations, NEW t \in Tx,
         NEW r \in Locked(t, "receivables")
  PROVE  dirty.receivables[r].status # "none"
<1>0. Operation(t) /\ r \in Receivables /\ db.receivables[r] \in ReceivableRow
      /\ "receivables" \in DOMAIN owner
  BY DEF LocksAreOperations, TypeOK, Locks, Tables, Locked
<1>a. \A row, amount : UpdateReceivablePaidAmount(row, amount).status # "none"
  BY DEF UpdateReceivablePaidAmount
<1>1. CASE req[t] \in AllocateRequest
  BY <1>0, <1>1, <1>a DEF Operation, AllocateOperation
<1>2. CASE req[t] \in VoidPaymentRequest
  BY <1>0, <1>2, <1>a DEF Operation, VoidPaymentOperation
<1>3. CASE req[t] \in CreditRequest
  <2>1. /\ r = req[t].receivable /\ pc[t] = "commit"
        /\ dirty.receivables[r] =
             UpdateReceivableCreditedAmount(db.receivables[r], req[t].amount)
        /\ db.receivables[r].status # "none"
    BY <1>0, <1>3 DEF Operation, CreditOperation, IfAt
  <2> QED BY <2>1 DEF UpdateReceivableCreditedAmount
<1>4. CASE req[t] \in IssueBillRequest
  BY <1>0, <1>4 DEF Operation, IssueBillOperation, IfAt, NewReceivable
<1>5. CASE req[t] \in VoidBillRequest
  <2>1. dirty.receivables[r] = [db.receivables[r] EXCEPT !.status = "voided"]
    BY <1>0, <1>5 DEF Operation, VoidBillOperation, IfAt
  <2> QED BY <1>0, <2>1 DEF ReceivableRow
<1> QED BY <1>0, <1>1, <1>2, <1>3, <1>4, <1>5 DEF Operation, Request

LEMMA IssueOperationStep ==
  ASSUME TypeOK, TypeOK', AllocationsMatchLocks, LocksAreOperations,
         NEW t \in Tx, IssueCreateReceivable(t)
  PROVE  LocksAreOperations'
<1>0. /\ DirtyIsCommitted /\ IssueBillOperation(t)
      /\ owner \in Locks /\ db \in Tables /\ dirty \in Tables
      /\ pc \in [Tx -> Statement] /\ req \in [Tx -> Request \cup {Nil}]
      /\ RequestOK(t)
  BY DEF AllocationsMatchLocks, TypeOK, LocksAreOperations, Operation
<1>1. /\ pc[t] = "create_bill_receivable" /\ pc'[t] = "commit"
      /\ OnlyMoves(t) /\ req' = req /\ db' = db
      /\ req[t] \in IssueBillRequest
  BY <1>0 DEF IssueCreateReceivable, OnlyMoves, UnchangedRequest, RequestOK,
       IssueBillStatement
<1>2. PICK b \in Bills : b = req[t].bill /\ b \in Receivables
  BY <1>1, RequestParts
<1>3. /\ dirty.receivables[b].status = "none"
      /\ dirty.lease_bills[b].status = "draft"
      /\ Free(t, "lease_bills", b)
      /\ dirty' = [dirty EXCEPT
                     !.receivables[b] = NewReceivable(db.lease_bills[b].billed),
                     !.lease_bills[b].status = "issued"]
      /\ owner' = [owner EXCEPT !.receivables[b] = t, !.lease_bills[b] = t]
  BY <1>2 DEF IssueCreateReceivable
<1>4. /\ owner'.receivables = [owner.receivables EXCEPT ![b] = t]
      /\ owner'.lease_bills = [owner.lease_bills EXCEPT ![b] = t]
      /\ \A tab \in {"payments", "allocations", "credit_balances"} :
           owner'[tab] = owner[tab] /\ dirty'[tab] = dirty[tab]
      /\ dirty'.receivables =
           [dirty.receivables EXCEPT ![b] = NewReceivable(db.lease_bills[b].billed)]
      /\ dirty'.lease_bills =
           [dirty.lease_bills EXCEPT
              ![b] = [dirty.lease_bills[b] EXCEPT !.status = "issued"]]
  BY <1>0, <1>3 DEF Locks, Tables
<1>5. \A u \in Tx : b \notin Locked(u, "receivables")
  BY <1>3, LockedExists
<1>6. /\ Locked(t, "receivables") = {} /\ Locked(t, "credit_balances") = {}
      /\ Locked(t, "lease_bills") = {}
  BY <1>0, <1>1 DEF IssueBillOperation, IfAt
<1>7. /\ owner.receivables[b] = Nil
      /\ dirty.receivables[b] = db.receivables[b]
      /\ owner.lease_bills[b] = Nil
      /\ dirty.lease_bills[b] = db.lease_bills[b]
  <2>1. owner.receivables[b] = Nil /\ owner.lease_bills[b] = Nil
    BY <1>0, <1>2, <1>3, <1>5, <1>6 DEF Locked, Locks, Free
  <2> QED BY <1>0, <1>2, <2>1 DEF DirtyIsCommitted, Locks
<1>8. /\ Locked(t, "receivables")' = {b} /\ Locked(t, "lease_bills")' = {b}
      /\ Locked(t, "credit_balances")' = {}
  BY <1>0, <1>2, <1>4, <1>6 DEF Locked, Locks
<1>9. ASSUME NEW u \in Tx \ {t} PROVE Undisturbed(u)
  <2>1. /\ Locked(u, "receivables")' = Locked(u, "receivables")
        /\ Locked(u, "lease_bills")' = Locked(u, "lease_bills")
        /\ b \notin Locked(u, "receivables")
        /\ b \notin Locked(u, "lease_bills")
    BY <1>0, <1>2, <1>4, <1>7, NilAssumption DEF Locked, Locks
  <2>2. \A tab \in {"payments", "allocations", "credit_balances"} :
          Locked(u, tab)' = Locked(u, tab)
    BY <1>4 DEF Locked
  <2>3. /\ \A x \in Locked(u, "receivables") :
             dirty'.receivables[x] = dirty.receivables[x]
        /\ \A x \in Locked(u, "lease_bills") :
             dirty'.lease_bills[x] = dirty.lease_bills[x]
    BY <1>0, <1>4, <2>1 DEF Locked, Locks, Tables
  <2> QED BY <1>1, <1>4, <2>1, <2>2, <2>3 DEF Undisturbed, OnlyMoves, TableName
<1>10. OnlyAdvance
  BY <1>1 DEF OnlyAdvance, WasPosted
<1>11. /\ dirty'.receivables[b] = NewReceivable(db.lease_bills[b].billed)
       /\ dirty'.lease_bills[b] = [db.lease_bills[b] EXCEPT !.status = "issued"]
  BY <1>0, <1>2, <1>4, <1>7 DEF Tables
<1>12. IssueBillOperation(t)'
  BY <1>1, <1>2, <1>3, <1>7, <1>8, <1>11 DEF IssueBillOperation, IfAt
<1>13. req'[t] \in IssueBillRequest
  BY <1>1
<1> QED BY <1>9, <1>10, <1>12, <1>13, OneKind, OwnOperation

LEMMA VoidBillOperationStep ==
  ASSUME TypeOK, TypeOK', AllocationsMatchLocks, LocksAreOperations,
         NEW t \in Tx,
         VoidBillGetReceivable(t) \/ VoidReceivable(t) \/ VoidBillRow(t)
  PROVE  LocksAreOperations'
<1>0. /\ DirtyIsCommitted /\ VoidBillOperation(t)
      /\ owner \in Locks /\ db \in Tables
      /\ pc \in [Tx -> Statement] /\ req \in [Tx -> Request \cup {Nil}]
      /\ RequestOK(t)
  BY DEF AllocationsMatchLocks, TypeOK, LocksAreOperations, Operation
<1>1. /\ pc[t] \in VoidBillStatement /\ OnlyMoves(t) /\ req' = req
      /\ req[t] \in VoidBillRequest
  <2>1. /\ pc[t] \in VoidBillStatement /\ OnlyMoves(t) /\ req' = req
    BY <1>0 DEF VoidBillGetReceivable, VoidReceivable, VoidBillRow, OnlyMoves,
         UnchangedRequest, VoidBillStatement
  <2> QED BY <1>0, <2>1 DEF RequestOK
<1>2. PICK b \in Bills : b = req[t].bill /\ b \in Receivables
  BY <1>1, RequestParts
<1> DEFINE Voided(row) == [row EXCEPT !.status = "voided"]
<1>3. /\ Locked(t, "receivables") \subseteq
           IF pc[t] = "void_bill" THEN {b} ELSE {}
      /\ Locked(t, "credit_balances") = {} /\ Locked(t, "lease_bills") = {}
      /\ b \in Locked(t, "receivables") =>
           /\ db.receivables[b].status = "open"
           /\ dirty.receivables[b] = Voided(db.receivables[b])
  BY <1>0, <1>1, <1>2 DEF VoidBillOperation, VoidBillStatement, IfAt
<1>4. /\ "receivables" \in TableName /\ "credit_balances" \in TableName
      /\ "lease_bills" \in TableName
      /\ DOMAIN owner["receivables"] = Receivables
      /\ DOMAIN owner["lease_bills"] = Bills
  BY <1>0 DEF TableName, Locks
<1> HIDE DEF Voided
\* What is to be shown of each statement.
<1>5. ASSUME \A u \in Tx \ {t} : Undisturbed(u), OnlyAdvance, db' = db,
             pc'[t] \in {"void_receivable", "void_bill", "commit"},
             Locked(t, "receivables")' \subseteq
               IF pc'[t] = "void_receivable" THEN {} ELSE {b},
             Locked(t, "credit_balances")' = {},
             Locked(t, "lease_bills")' = IF pc'[t] = "commit" THEN {b} ELSE {},
             pc'[t] = "commit" =>
               /\ db.lease_bills[b].status \in {"draft", "issued"}
               /\ dirty'.lease_bills[b] = Voided(db.lease_bills[b]),
             b \in Locked(t, "receivables")' =>
               /\ db.receivables[b].status = "open"
               /\ dirty'.receivables[b] = Voided(db.receivables[b])
      PROVE  LocksAreOperations'
  <2>1. VoidBillOperation(t)'
    BY <1>1, <1>2, <1>5 DEF VoidBillOperation, IfAt, Voided, VoidBillStatement
  <2>2. req'[t] \in VoidBillRequest
    BY <1>1
  <2> QED BY <1>5, <2>1, <2>2, OneKind, OwnOperation
<1>6. CASE VoidBillGetReceivable(t)
  <2>1. /\ UNCHANGED storage /\ pc[t] = "get_bill_receivable"
        /\ pc'[t] = "void_receivable"
    BY <1>0, <1>2, <1>6 DEF VoidBillGetReceivable
  <2>2. /\ \A u \in Tx \ {t} : Undisturbed(u)
        /\ OnlyAdvance
        /\ db' = db /\ dirty' = dirty
        /\ \A tab : Locked(t, tab)' = Locked(t, tab)
    BY <1>1, <2>1, ReadDisturbs
  <2> QED BY <1>3, <1>5, <2>1, <2>2
<1>7. CASE VoidReceivable(t)
  <2> DEFINE row == Voided(dirty.receivables[b])
  <2>1. /\ Write(t, "receivables", b, row)
        /\ dirty.receivables[b].status = "open"
        /\ pc[t] = "void_receivable" /\ pc'[t] = "void_bill"
    BY <1>0, <1>2, <1>7 DEF VoidReceivable, Voided
  <2>2. dirty.receivables[b] = db.receivables[b]
    BY <1>0, <1>2, <1>3, <1>4, <2>1, FirstWrite DEF Write
  <2>3. row = Voided(db.receivables[b])
    BY <2>2
  <2> HIDE DEF row
  <2>4. /\ \A u \in Tx \ {t} : Undisturbed(u)
        /\ OnlyAdvance /\ db' = db
        /\ Locked(t, "receivables")' = Locked(t, "receivables") \cup {b}
        /\ \A other \in TableName \ {"receivables"} :
             Locked(t, other)' = Locked(t, other)
        /\ dirty'["receivables"][b] = row
    BY <1>1, <1>2, <1>4, <2>1, WriteDisturbs
  <2> QED BY <1>3, <1>4, <1>5, <2>1, <2>2, <2>3, <2>4
<1>8. CASE VoidBillRow(t)
  <2> DEFINE row == Voided(dirty.lease_bills[b])
  <2>1. /\ Write(t, "lease_bills", b, row)
        /\ dirty.lease_bills[b].status \in {"draft", "issued"}
        /\ pc[t] = "void_bill" /\ pc'[t] = "commit"
    BY <1>0, <1>2, <1>8 DEF VoidBillRow, Voided
  <2>2. dirty.lease_bills[b] = db.lease_bills[b]
    BY <1>0, <1>3, <1>4, <2>1, FirstWrite DEF Write
  <2>3. row = Voided(db.lease_bills[b])
    BY <2>2
  <2> HIDE DEF row
  <2>4. /\ \A u \in Tx \ {t} : Undisturbed(u)
        /\ OnlyAdvance /\ db' = db
        /\ Locked(t, "lease_bills")' = Locked(t, "lease_bills") \cup {b}
        /\ \A other \in TableName \ {"lease_bills"} :
             /\ Locked(t, other)' = Locked(t, other)
             /\ dirty'[other] = dirty[other]
        /\ dirty'["lease_bills"][b] = row
    BY <1>1, <1>4, <2>1, WriteDisturbs
  <2> QED BY <1>3, <1>4, <1>5, <2>1, <2>2, <2>3, <2>4
<1> QED BY <1>6, <1>7, <1>8

-----------------------------------------------------------------------------
(***************************************************************************)
(* A request begins.                                                       *)
(***************************************************************************)
LEMMA StartOperationStep ==
  ASSUME TypeOK, TypeOK', LocksAreOperations, NEW t \in Tx, Start(t)
  PROVE  LocksAreOperations'
<1>0. /\ Operation(t) /\ RequestOK(t) /\ DOMAIN owner = TableName
      /\ pc \in [Tx -> Statement] /\ req \in [Tx -> Request \cup {Nil}]
      /\ todo \in [Tx -> SUBSET Receivables]
  BY DEF TypeOK, LocksAreOperations, Locks, TableName
<1>1. UNCHANGED storage /\ OnlyMoves(t) /\ pc[t] = "idle"
  BY StartKinds
<1>2. /\ \A u \in Tx \ {t} : Undisturbed(u)
      /\ OnlyAdvance
      /\ db' = db /\ dirty' = dirty
      /\ \A tab : Locked(t, tab)' = Locked(t, tab)
  BY <1>1, ReadDisturbs
<1>3. /\ Locked(t, "receivables")' = {} /\ Locked(t, "payments")' = {}
      /\ Locked(t, "credit_balances")' = {} /\ Locked(t, "lease_bills")' = {}
  <2>1. req[t] \notin Request
    BY <1>0, <1>1, NilIsNothing DEF RequestOK
  <2> QED BY <1>0, <1>2, <2>1 DEF Operation, TableName
<1>b. ASSUME NEW request, NEW rows, NEW stmt, Begin(t, request, rows, stmt)
      PROVE  req'[t] = request /\ todo'[t] = rows /\ pc'[t] = stmt
  BY <1>0, <1>b DEF Begin
<1>4. ASSUME NEW p \in Payments, NEW lines \in Lines,
             AllocatePayment(t, p, lines)
      PROVE  Operation(t)'
  <2>1. /\ req'[t] \in AllocateRequest
        /\ req'[t].payment = p /\ req'[t].lines = lines
        /\ todo'[t] = Rows(lines) /\ Rows(lines) # {} /\ WasPosted(p)
    BY <1>b, <1>4 DEF AllocatePayment, AllocateRequest, WasPosted
  <2>2. \A r \in Receivables : ~Paid(t, r)'
    BY <2>1 DEF Paid
  <2>3. AllocateOperation(t)'
    BY <1>2, <1>3, <2>1, <2>2 DEF AllocateOperation, WasPosted
  <2> QED BY <2>1, <2>3, OneKind
<1>5. ASSUME NEW p \in Payments, VoidPayment(t, p) PROVE Operation(t)'
  <2>1. /\ req'[t] \in VoidPaymentRequest
        /\ req'[t].payment = p /\ todo'[t] = {} /\ WasPosted(p)
        /\ pc'[t] = "list_allocations"
    BY <1>b, <1>5 DEF VoidPayment, VoidPaymentRequest, WasPosted
  <2>2. VoidPaymentOperation(t)'
    BY <1>2, <1>3, <2>1 DEF VoidPaymentOperation, WasPosted, IfAt,
         VoidPaymentStatement
  <2> QED BY <2>1, <2>2, OneKind
<1>6. ASSUME NEW c \in Credits, NEW r \in Receivables, NEW a \in Amounts,
             ApplyCredit(t, c, r, a)
      PROVE  Operation(t)'
  <2>1. req'[t] \in CreditRequest /\ pc'[t] = "get_credit_receivable"
    BY <1>b, <1>6 DEF ApplyCredit, CreditRequest
  <2>2. CreditOperation(t)'
    BY <1>3, <2>1 DEF CreditOperation, IfAt, CreditStatement
  <2> QED BY <2>1, <2>2, OneKind
<1>7. ASSUME NEW b \in Bills, IssueLeaseBill(t, b) PROVE Operation(t)'
  <2>1. req'[t] \in IssueBillRequest /\ pc'[t] = "create_bill_receivable"
    BY <1>b, <1>7 DEF IssueLeaseBill, IssueBillRequest
  <2>2. IssueBillOperation(t)'
    BY <1>3, <2>1 DEF IssueBillOperation, IfAt, IssueBillStatement
  <2> QED BY <2>1, <2>2, OneKind
<1>8. ASSUME NEW b \in Bills, VoidLeaseBill(t, b) PROVE Operation(t)'
  <2>1. /\ req'[t] \in VoidBillRequest
        /\ pc'[t] \in {"void_bill", "get_bill_receivable"}
    BY <1>b, <1>8 DEF VoidLeaseBill, VoidBillRequest
  <2>2. VoidBillOperation(t)'
    BY <1>3, <2>1 DEF VoidBillOperation, IfAt, VoidBillStatement
  <2> QED BY <2>1, <2>2, OneKind
<1>9. Operation(t)'
  BY <1>4, <1>5, <1>6, <1>7, <1>8 DEF Start
<1> QED BY <1>2, <1>9, OwnOperation

-----------------------------------------------------------------------------
(***************************************************************************)
(* Handlers of one write, and the end of a transaction.                    *)
(***************************************************************************)
LEMMA SingleWriteDisturbs ==
  ASSUME TypeOK, NEW tab \in TableName, NEW id \in DOMAIN owner[tab], NEW row,
         WriteAndCommit(tab, id, row), UNCHANGED <<pc, req, todo, line>>,
         NEW u \in Tx
  PROVE  Undisturbed(u)
<1>0. StorageTypeOK /\ owner[tab][id] = Nil
  BY TypeOKParts DEF WriteAndCommit
<1>1. /\ owner' = owner
      /\ db'[tab] = [db[tab] EXCEPT ![id] = row]
      /\ dirty'[tab] = [dirty[tab] EXCEPT ![id] = row]
      /\ \A other \in TableName \ {tab} :
           dirty'[other] = dirty[other] /\ db'[other] = db[other]
  BY <1>0, SingleWriteEffect
<1>2. \A other \in TableName : Locked(u, other)' = Locked(u, other)
  BY <1>1 DEF Locked
<1>3. id \notin Locked(u, tab)
  BY <1>0, NilAssumption DEF Locked
<1>4. DOMAIN owner[tab] = DOMAIN dirty[tab] /\ DOMAIN owner[tab] = DOMAIN db[tab]
  BY <1>0, SMTT(20) DEF StorageTypeOK, Locks, Tables, TableName
<1>5. \A x \in Locked(u, tab) :
        dirty'[tab][x] = dirty[tab][x] /\ db'[tab][x] = db[tab][x]
  BY <1>1, <1>3, <1>4 DEF Locked
<1> QED BY <1>1, <1>2, <1>5 DEF Undisturbed

LEMMA SingleWriteAdvances ==
  ASSUME TypeOK, SingleWrite
  PROVE  OnlyAdvance /\ \A u \in Tx : Undisturbed(u)
<1>0. /\ StorageTypeOK /\ owner \in Locks /\ db \in Tables
      /\ "receivables" \in TableName /\ "payments" \in TableName
      /\ Receivables = DOMAIN owner["receivables"]
      /\ Payments = DOMAIN owner["payments"]
  BY TypeOKParts DEF StorageTypeOK, Locks, TableName
<1>1. ASSUME NEW r \in Receivables \ Bills, NEW a \in Amounts,
             CreateReceivable(r, a)
      PROVE  OnlyAdvance /\ \A u \in Tx : Undisturbed(u)
  <2>1. /\ WriteAndCommit("receivables", r, NewReceivable(a))
        /\ UNCHANGED <<pc, req, todo, line>>
    BY <1>1 DEF CreateReceivable
  <2>2. \A u \in Tx : Undisturbed(u)
    BY <1>0, <2>1, SingleWriteDisturbs
  <2> DEFINE row == NewReceivable(a)
  <2>a. /\ StorageTypeOK /\ "receivables" \in TableName
        /\ r \in DOMAIN owner["receivables"]
        /\ WriteAndCommit("receivables", r, row)
    BY <1>0, <2>1
  <2> HIDE DEF row
  <2>3. /\ owner' = owner
        /\ db'["receivables"] = [db["receivables"] EXCEPT ![r] = row]
        /\ dirty'["receivables"] = [dirty["receivables"] EXCEPT ![r] = row]
        /\ \A other \in TableName \ {"receivables"} :
             dirty'[other] = dirty[other] /\ db'[other] = db[other]
    BY <2>a, SingleWriteEffect
  <2>4. db'.payments = db.payments /\ db'.allocations = db.allocations
    BY <2>3 DEF TableName
  <2>5. \A x \in Receivables : \/ db'.receivables[x] = db.receivables[x]
                               \/ db'.receivables[x] = row
    BY <1>0, <2>3 DEF Tables
  <2>6. row.status # "none"
    BY DEF row, NewReceivable
  <2> QED BY <2>2, <2>4, <2>5, <2>6 DEF OnlyAdvance, WasPosted
<1>2. ASSUME NEW p \in Payments, NEW row,
             WriteAndCommit("payments", p, row), UNCHANGED <<pc, req, todo, line>>,
             db.payments[p].status \in {"none", "draft"}
      PROVE  OnlyAdvance /\ \A u \in Tx : Undisturbed(u)
  <2>2. \A u \in Tx : Undisturbed(u)
    BY <1>0, <1>2, SingleWriteDisturbs
  <2>a. /\ StorageTypeOK /\ "payments" \in TableName
        /\ p \in DOMAIN owner["payments"]
    BY <1>0
  <2>3. /\ owner' = owner
        /\ db'["payments"] = [db["payments"] EXCEPT ![p] = row]
        /\ dirty'["payments"] = [dirty["payments"] EXCEPT ![p] = row]
        /\ \A other \in TableName \ {"payments"} :
             dirty'[other] = dirty[other] /\ db'[other] = db[other]
    BY <1>2, <2>a, SingleWriteEffect
  <2>4. db'.receivables = db.receivables /\ db'.allocations = db.allocations
    BY <2>3 DEF TableName
  <2>5. \A q \in Payments \ {p} : db'.payments[q] = db.payments[q]
    BY <1>0, <2>3 DEF Tables
  <2>6. ~WasPosted(p)
    BY <1>2 DEF WasPosted
  <2> QED BY <2>2, <2>4, <2>5, <2>6 DEF OnlyAdvance, WasPosted
<1>3. ASSUME NEW p \in Payments, NEW a \in Amounts, CreatePayment(p, a)
      PROVE  OnlyAdvance /\ \A u \in Tx : Undisturbed(u)
  BY <1>2, <1>3 DEF CreatePayment
<1>4. ASSUME NEW p \in Payments, PostPayment(p)
      PROVE  OnlyAdvance /\ \A u \in Tx : Undisturbed(u)
  BY <1>2, <1>4 DEF PostPayment
<1> QED BY <1>1, <1>3, <1>4 DEF SingleWrite

\* What a transaction publishes, or takes back, table by table.
LEMMA EndRows ==
  ASSUME TypeOK, NEW t \in Tx, Commit(t) \/ Rollback(t)
  PROVE  /\ pc'[t] = "idle" /\ req'[t] = Nil /\ OnlyMoves(t)
         /\ \A u \in Tx \ {t} : Undisturbed(u)
         /\ \A tab \in TableName : Locked(t, tab)' = {}
         /\ Rollback(t) => \A tab \in TableName : \A id \in DOMAIN owner[tab] :
                             db'[tab][id] = db[tab][id]
         /\ Commit(t) => \A tab \in TableName : \A id \in DOMAIN owner[tab] :
                           db'[tab][id] = IF id \in Locked(t, tab)
                                            THEN dirty[tab][id] ELSE db[tab][id]
<1>0. /\ StorageTypeOK
      /\ pc \in [Tx -> Statement] /\ req \in [Tx -> Request \cup {Nil}]
      /\ todo \in [Tx -> SUBSET Receivables]
      /\ line \in [Tx -> Receivables \cup {Nil}]
  BY TypeOKParts DEF TypeOK
<1>1. /\ EndRequest(t)
      /\ Commit(t) => CommitTx(t)
      /\ Rollback(t) => RollbackTx(t)
      /\ CommitTx(t) \/ RollbackTx(t)
  BY DEF Commit, Rollback
<1>2. pc'[t] = "idle" /\ req'[t] = Nil /\ OnlyMoves(t)
  BY <1>0, <1>1 DEF EndRequest, OnlyMoves
<1>3. \A tab \in TableName :
        /\ DOMAIN owner'[tab] = DOMAIN owner[tab]
        /\ \A id \in DOMAIN owner[tab] :
             /\ owner'[tab][id] =
                  IF owner[tab][id] = t THEN Nil ELSE owner[tab][id]
             /\ CommitTx(t) =>
                  /\ dirty'[tab][id] = dirty[tab][id]
                  /\ db'[tab][id] = IF owner[tab][id] = t
                       THEN dirty[tab][id] ELSE db[tab][id]
             /\ RollbackTx(t) =>
                  /\ db'[tab][id] = db[tab][id]
                  /\ dirty'[tab][id] = IF owner[tab][id] = t
                       THEN db[tab][id] ELSE dirty[tab][id]
  BY <1>0, <1>1, EndEffect
<1>4. \A tab \in TableName : Locked(t, tab)' = {}
  BY <1>3, NilAssumption DEF Locked
<1>5. ASSUME NEW u \in Tx \ {t} PROVE Undisturbed(u)
  <2>1. ASSUME NEW tab \in TableName
        PROVE  /\ Locked(u, tab)' = Locked(u, tab)
               /\ \A id \in Locked(u, tab) :
                    dirty'[tab][id] = dirty[tab][id] /\ db'[tab][id] = db[tab][id]
    <3>1. Locked(u, tab)' = Locked(u, tab)
      BY <1>3, NilAssumption DEF Locked
    <3>2. \A id \in Locked(u, tab) :
            id \in DOMAIN owner[tab] /\ owner[tab][id] # t
      BY DEF Locked
    <3> QED BY <1>1, <1>3, <3>1, <3>2
  <2> QED BY <1>2, <2>1 DEF Undisturbed, OnlyMoves
<1>6. Rollback(t) => \A tab \in TableName : \A id \in DOMAIN owner[tab] :
                       db'[tab][id] = db[tab][id]
  BY <1>1, <1>3
<1>7. Commit(t) => \A tab \in TableName : \A id \in DOMAIN owner[tab] :
                     db'[tab][id] = IF id \in Locked(t, tab)
                                      THEN dirty[tab][id] ELSE db[tab][id]
  BY <1>1, <1>3 DEF Locked
<1> QED BY <1>2, <1>4, <1>5, <1>6, <1>7

LEMMA EndAdvances ==
  ASSUME TypeOK, AllocationsMatchLocks, LocksAreOperations, NEW t \in Tx,
         Commit(t) \/ Rollback(t)
  PROVE  OnlyAdvance
<1>0. /\ owner \in Locks /\ db \in Tables
      /\ DOMAIN owner["receivables"] = Receivables
      /\ DOMAIN owner["payments"] = Payments
      /\ DOMAIN owner["allocations"] = Payments \X Receivables
      /\ "receivables" \in TableName /\ "payments" \in TableName
      /\ "allocations" \in TableName
      /\ PaymentLocks /\ AllocationLocks /\ AllocationsPending(t)
  BY DEF TypeOK, Locks, TableName, AllocationsMatchLocks
<1>1. \A tab \in TableName : \A id \in DOMAIN owner[tab] :
        \/ db'[tab][id] = db[tab][id]
        \/ id \in Locked(t, tab) /\ db'[tab][id] = dirty[tab][id]
  BY EndRows
<1>2. ASSUME NEW r \in Receivables, db.receivables[r].status # "none"
      PROVE  db'.receivables[r].status # "none"
  BY <1>0, <1>1, <1>2, LockedExists
<1>3. ASSUME NEW p \in Payments, WasPosted(p) PROVE WasPosted(p)'
  <2>1. owner.payments[p] = t =>
          dirty.payments[p].status \in {db.payments[p].status, "voided"}
    <3>1. db.payments[p] \in PaymentRow
      BY <1>0 DEF Tables
    <3>2. owner.payments[p] = t =>
            \/ \E n : dirty.payments[p] =
                       [db.payments[p] EXCEPT !.unapplied = n]
            \/ dirty.payments[p] = [db.payments[p] EXCEPT !.status = "voided"]
      BY <1>0 DEF PaymentLocks
    <3> QED BY <3>1, <3>2 DEF PaymentRow
  <2> QED BY <1>0, <1>1, <1>3, <2>1 DEF WasPosted, Locked
<1>4. ASSUME NEW pr \in Payments \X Receivables, db.allocations[pr] > 0
      PROVE  db'.allocations[pr] = db.allocations[pr]
  <2>1. PICK p \in Payments, r \in Receivables : pr = <<p, r>>
    OBVIOUS
  <2>2. owner.allocations[pr] # t
    BY <1>0, <1>4, <2>1 DEF AllocationLocks, AllocationsPending
  <2> QED BY <1>0, <1>1, <2>2 DEF Locked
<1> QED BY <1>2, <1>3, <1>4 DEF OnlyAdvance

LEMMA EndOperationStep ==
  ASSUME TypeOK, TypeOK', AllocationsMatchLocks, LocksAreOperations,
         NEW t \in Tx, Commit(t) \/ Rollback(t)
  PROVE  LocksAreOperations'
<1>1. /\ req'[t] = Nil /\ DOMAIN owner' = TableName
      /\ \A tab \in TableName : Locked(t, tab)' = {}
      /\ \A u \in Tx \ {t} : Undisturbed(u)
  BY EndRows DEF TypeOK, Locks, TableName
<1>2. req'[t] \notin Request
  BY <1>1, NilIsNothing
<1>3. Operation(t)'
  BY <1>1, <1>2 DEF Operation, Request, AllocateOperation,
     VoidPaymentOperation, CreditOperation, IssueBillOperation,
     VoidBillOperation
<1> QED BY <1>1, <1>3, EndAdvances, OwnOperation

-----------------------------------------------------------------------------
(***************************************************************************)
(* LocksAreOperations holds at first and is kept by every step.            *)
(***************************************************************************)
LEMMA InitOperation == Init => LocksAreOperations
<1> SUFFICES ASSUME Init, NEW t \in Tx PROVE Operation(t)
  BY DEF LocksAreOperations
<1>1. req[t] \notin Request
  BY NilIsNothing DEF Init
<1>2. \A tab \in DOMAIN owner : Locked(t, tab) = {}
  BY NilAssumption DEF Init, Locked
<1> QED BY <1>1, <1>2 DEF Operation, Request, AllocateOperation,
           VoidPaymentOperation, CreditOperation, IssueBillOperation,
           VoidBillOperation

LEMMA NextOperation ==
  ASSUME TypeOK, TypeOK', AllocationsMatchLocks, LocksAreOperations,
         [Next]_vars
  PROVE  LocksAreOperations'
<1>1. CASE SingleWrite
  <2>1. OnlyAdvance /\ \A u \in Tx : Undisturbed(u)
    BY <1>1, SingleWriteAdvances
  <2>2. ASSUME NEW u \in Tx PROVE Operation(u)'
    BY <2>1, UndisturbedKeep DEF LocksAreOperations
  <2> QED BY <2>2 DEF LocksAreOperations
<1>2. ASSUME NEW t \in Tx, Start(t) PROVE LocksAreOperations'
  BY <1>2, StartOperationStep
<1>3. ASSUME NEW t \in Tx, Step(t) PROVE LocksAreOperations'
  <2>1. CASE \/ \E r \in Receivables : AllocateGetReceivable(t, r)
             \/ CreatePaymentAllocation(t)
             \/ AllocateUpdatePaid(t)
             \/ UpdatePaymentUnapplied(t)
    BY <2>1, AllocateOperationStep
  <2>2. CASE \/ VoidListAllocations(t)
             \/ \E r \in Receivables : VoidReverse(t, r)
             \/ VoidPaymentRow(t)
    BY <2>2, VoidPaymentOperationStep
  <2>3. CASE CreditGetReceivable(t) \/ CreditUse(t) \/ CreditUpdateCredited(t)
    BY <2>3, CreditOperationStep
  <2>4. CASE IssueCreateReceivable(t)
    BY <2>4, IssueOperationStep
  <2>5. CASE VoidBillGetReceivable(t) \/ VoidReceivable(t) \/ VoidBillRow(t)
    BY <2>5, VoidBillOperationStep
  <2>6. CASE Commit(t) \/ Rollback(t)
    BY <2>6, EndOperationStep
  <2> QED BY <1>3, <2>1, <2>2, <2>3, <2>4, <2>5, <2>6 DEF Step
<1>4. CASE UNCHANGED vars
  <2>1. OnlyAdvance /\ \A u \in Tx : Undisturbed(u)
    BY <1>4 DEF vars, OnlyAdvance, Undisturbed, WasPosted, Locked
  <2>2. ASSUME NEW u \in Tx PROVE Operation(u)'
    BY <2>1, UndisturbedKeep DEF LocksAreOperations
  <2> QED BY <2>2 DEF LocksAreOperations
<1> QED BY <1>1, <1>2, <1>3, <1>4 DEF Next

\* What a transaction has written and not committed is always one whole
\* operation of the books, applied to rows nobody else can change before the
\* transaction ends: no other handler's statement comes in between.
THEOREM LocksMakeOperations == Spec => []LocksAreOperations
<1>1. Init => TypeOK /\ AllocationsMatchLocks /\ LocksAreOperations
  BY InitTypeOK, InitMatch, InitOperation
<1>2. TypeOK /\ AllocationsMatchLocks /\ LocksAreOperations /\ [Next]_vars
        => TypeOK' /\ AllocationsMatchLocks' /\ LocksAreOperations'
  BY NextTypeOK, NextMatch, NextOperation
<1> QED BY <1>1, <1>2, PTL DEF Spec

-----------------------------------------------------------------------------
(***************************************************************************)
(* Every step is an operation of Ledger.                                   *)
(***************************************************************************)

\* Ledger's rows and statements are those of the finance tables.
LEMMA KeptTables ==
  /\ Kept!Lines = Lines
  /\ Kept!NoReceivable = NoReceivable /\ Kept!NoPayment = NoPayment
  /\ \A lines : Kept!Rows(lines) = Rows(lines)
  /\ \A f, S : Kept!Total(f, S) = Total(f, S)
  /\ \A n : /\ Kept!NewReceivable(n) = NewReceivable(n)
            /\ Kept!NewPayment(n) = NewPayment(n)
            /\ Kept!NewBill(n) = NewBill(n)
  /\ \A row, n :
       /\ Kept!UpdateReceivablePaidAmount(row, n)
            = UpdateReceivablePaidAmount(row, n)
       /\ Kept!UpdateReceivableCreditedAmount(row, n)
            = UpdateReceivableCreditedAmount(row, n)
       /\ Kept!ApplyCreditBalance(row, n) = ApplyCreditBalance(row, n)
<1>1. /\ Kept!Lines = Lines
      /\ Kept!NoReceivable = NoReceivable /\ Kept!NoPayment = NoPayment
  BY DEF Kept!Lines, Lines, Kept!NoReceivable, NoReceivable, Kept!NoPayment,
         NoPayment
<1>2. \A lines : Kept!Rows(lines) = Rows(lines)
  BY DEF Kept!Rows, Rows
<1>3. \A f, S : Kept!Total(f, S) = Total(f, S)
  BY DEF Kept!Total, Total, Kept!Cents, Cents, Kept!Cardinality, Cardinality
<1>4. \A n : /\ Kept!NewReceivable(n) = NewReceivable(n)
             /\ Kept!NewPayment(n) = NewPayment(n)
             /\ Kept!NewBill(n) = NewBill(n)
  BY DEF Kept!NewReceivable, NewReceivable, Kept!NewPayment, NewPayment,
         Kept!NewBill, NewBill
<1>5. \A row, n :
        /\ Kept!UpdateReceivablePaidAmount(row, n)
             = UpdateReceivablePaidAmount(row, n)
        /\ Kept!UpdateReceivableCreditedAmount(row, n)
             = UpdateReceivableCreditedAmount(row, n)
        /\ Kept!ApplyCreditBalance(row, n) = ApplyCreditBalance(row, n)
  BY DEF Kept!UpdateReceivablePaidAmount, UpdateReceivablePaidAmount,
         Kept!UpdateReceivableCreditedAmount, UpdateReceivableCreditedAmount,
         Kept!ApplyCreditBalance, ApplyCreditBalance
<1> QED BY <1>1, <1>2, <1>3, <1>4, <1>5

\* What a table becomes when t commits.
Published(t, tab, ids) ==
  [id \in ids |-> IF id \in Locked(t, tab) THEN dirty[tab][id] ELSE db[tab][id]]

\* The tables a commit publishes.
LEMMA CommitTables ==
  ASSUME TypeOK, TypeOK', NEW t \in Tx, Commit(t)
  PROVE  /\ db'.receivables = Published(t, "receivables", Receivables)
         /\ db'.payments = Published(t, "payments", Payments)
         /\ db'.allocations = Published(t, "allocations", Payments \X Receivables)
         /\ db'.credit_balances = Published(t, "credit_balances", Credits)
         /\ db'.lease_bills = Published(t, "lease_bills", Bills)
<1>1. \A tab \in TableName : \A id \in DOMAIN owner[tab] :
        db'[tab][id] = Published(t, tab, DOMAIN owner[tab])[id]
  BY EndRows DEF Published
<1>2. /\ DOMAIN owner["receivables"] = Receivables
      /\ DOMAIN owner["payments"] = Payments
      /\ DOMAIN owner["allocations"] = Payments \X Receivables
      /\ DOMAIN owner["credit_balances"] = Credits
      /\ DOMAIN owner["lease_bills"] = Bills
      /\ db'["receivables"] \in [Receivables -> ReceivableRow]
      /\ db'["payments"] \in [Payments -> PaymentRow]
      /\ db'["allocations"] \in [Payments \X Receivables -> Nat]
      /\ db'["credit_balances"] \in [Credits -> CreditRow]
      /\ db'["lease_bills"] \in [Bills -> BillRow]
  BY DEF TypeOK, Locks, Tables
<1>3. \A tab \in TableName :
        /\ DOMAIN db'[tab] = DOMAIN owner[tab]
        /\ db'[tab] = [id \in DOMAIN db'[tab] |-> db'[tab][id]]
  BY <1>2 DEF TableName
<1>4. \A tab \in TableName : db'[tab] = Published(t, tab, DOMAIN owner[tab])
  BY <1>1, <1>3 DEF Published
<1> QED BY <1>2, <1>4 DEF TableName

\* A committed AllocatePayment is Ledger's Allocate.
LEMMA CommitAllocates ==
  ASSUME TypeOK, TypeOK', AllocationsMatchLocks, LocksAreOperations,
         NEW t \in Tx, Commit(t), req[t] \in AllocateRequest
  PROVE  Kept!Allocate(req[t].payment, req[t].lines)
<1>0. /\ pc[t] = "commit" /\ AllocateOperation(t) /\ AllocationsPending(t)
      /\ AllocationLocks /\ PaymentLocks /\ db \in Tables
  BY DEF Commit, LocksAreOperations, Operation, AllocationsMatchLocks, TypeOK
<1>c. /\ db'.receivables = Published(t, "receivables", Receivables)
      /\ db'.payments = Published(t, "payments", Payments)
      /\ db'.allocations = Published(t, "allocations", Payments \X Receivables)
      /\ db'.credit_balances = Published(t, "credit_balances", Credits)
      /\ db'.lease_bills = Published(t, "lease_bills", Bills)
  BY CommitTables
<1>1. PICK p \in Payments, lines \in Lines :
        p = req[t].payment /\ lines = req[t].lines
  BY RequestParts
<1>2. /\ \A r \in Receivables : Paid(t, r) <=> r \in Rows(lines)
      /\ \A r \in Receivables : Inserted(t, r) <=> r \in Rows(lines)
      /\ Rows(lines) # {} /\ WasPosted(p)
      /\ \A r \in Rows(lines) : db.receivables[r].status # "none"
      /\ \A r \in Rows(lines) : /\ db.allocations[<<p, r>>] = 0
                                /\ dirty.allocations[<<p, r>>] = lines[r]
      /\ Rows(lines) \subseteq Receivables
  <2>1. todo[t] = {}
    BY <1>0 DEF AllocationsPending
  <2>2. \A r \in Receivables : /\ Paid(t, r) <=> r \in Rows(lines)
                               /\ Inserted(t, r) <=> r \in Rows(lines)
    BY <1>0, <1>1, <2>1 DEF Paid, Inserted
  <2>3. /\ Rows(lines) # {} /\ WasPosted(p)
        /\ \A r \in Rows(lines) : db.receivables[r].status # "none"
    BY <1>0, <1>1, <2>1 DEF AllocateOperation
  <2>4. Rows(lines) \subseteq Receivables
    BY DEF Rows
  <2>5. \A r \in Rows(lines) : /\ db.allocations[<<p, r>>] = 0
                               /\ dirty.allocations[<<p, r>>] = lines[r]
    BY <1>0, <1>1, <2>2, <2>4 DEF AllocationsPending
  <2> QED BY <2>2, <2>3, <2>4, <2>5
<1>3. /\ Locked(t, "receivables") = Rows(lines)
      /\ Locked(t, "credit_balances") = {} /\ Locked(t, "lease_bills") = {}
      /\ \A r \in Rows(lines) :
           dirty.receivables[r] =
             UpdateReceivablePaidAmount(db.receivables[r], lines[r])
  BY <1>0, <1>1, <1>2 DEF AllocateOperation
<1>4. /\ \A q \in Payments : q \in Locked(t, "payments") <=> q = p
      /\ dirty.payments[p] =
           [db.payments[p] EXCEPT !.unapplied = @ - Total(lines, Receivables)]
  <2>1. DOMAIN owner["payments"] = Payments
    BY DEF TypeOK, Locks
  <2>2. req[t] \notin VoidPaymentRequest
    BY KindsDiffer
  <2>3. \A q \in Payments : owner.payments[q] = t <=> q = p
    BY <1>0, <1>1, <2>2 DEF PaymentLocks
  <2>4. owner.payments[p] = t
    BY <2>3
  <2>5. dirty.payments[p] =
          [db.payments[p] EXCEPT !.unapplied = @ - Total(req[t].lines, Receivables)]
    BY <1>0, <2>2, <2>4 DEF PaymentLocks
  <2>6. \A q \in Payments : q \in Locked(t, "payments") <=> q = p
    BY <2>1, <2>3 DEF Locked
  <2> QED BY <1>1, <2>5, <2>6
<1>5. \A q \in Payments, r \in Receivables :
        <<q, r>> \in Locked(t, "allocations") <=> q = p /\ r \in Rows(lines)
  <2>1. DOMAIN owner["allocations"] = Payments \X Receivables
    BY DEF TypeOK, Locks
  <2>2. \A q \in Payments, r \in Receivables :
          owner.allocations[<<q, r>>] = t <=> q = p /\ r \in Rows(lines)
    BY <1>0, <1>1, <1>2 DEF AllocationLocks, AllocationsPending
  <2> QED BY <2>1, <2>2 DEF Locked
<1>6. db'.receivables =
        [r \in Receivables |->
           IF r \in Rows(lines)
             THEN UpdateReceivablePaidAmount(db.receivables[r], lines[r])
             ELSE db.receivables[r]]
  BY <1>3, <1>c DEF Published
<1>7. db'.payments = [db.payments EXCEPT ![p] =
        [db.payments[p] EXCEPT !.unapplied = @ - Total(lines, Receivables)]]
  <2> DEFINE row == [db.payments[p] EXCEPT !.unapplied = @ - Total(lines, Receivables)]
  <2>0. row = dirty.payments[p]
    BY <1>4
  <2> HIDE DEF row
  <2>1. db'.payments = [q \in Payments |-> IF q = p THEN row ELSE db.payments[q]]
    BY <1>4, <2>0, <1>c DEF Published
  <2>2. db.payments \in [Payments -> PaymentRow]
    BY <1>0 DEF Tables
  <2>3. db'.payments = [db.payments EXCEPT ![p] = row]
    BY <2>1, <2>2
  <2> QED BY <2>3 DEF row
<1>8. db'.allocations =
        [pr \in DOMAIN db.allocations |->
           IF pr[1] = p THEN db.allocations[pr] + lines[pr[2]]
                        ELSE db.allocations[pr]]
  <2>1. db.allocations \in [Payments \X Receivables -> Nat]
    BY <1>0 DEF Tables
  <2>2. db'.allocations =
          [pr \in Payments \X Receivables |-> IF pr \in Locked(t, "allocations")
             THEN dirty.allocations[pr] ELSE db.allocations[pr]]
    BY <1>c DEF Published
  <2>3. ASSUME NEW pr \in Payments \X Receivables
        PROVE  (IF pr \in Locked(t, "allocations")
                  THEN dirty.allocations[pr] ELSE db.allocations[pr])
                 = IF pr[1] = p THEN db.allocations[pr] + lines[pr[2]]
                                ELSE db.allocations[pr]
    <3>1. PICK q \in Payments, r \in Receivables : pr = <<q, r>>
      OBVIOUS
    <3>2. lines[r] \in Nat /\ db.allocations[pr] \in Nat
      BY <2>1, LinesTotalType
    <3>3. r \notin Rows(lines) => lines[r] = 0
      BY <3>2 DEF Rows
    <3> QED BY <1>2, <1>5, <3>1, <3>2, <3>3
  <2> QED BY <2>1, <2>2, <2>3
<1>9. db'.credit_balances = db.credit_balances
      /\ db'.lease_bills = db.lease_bills
  BY <1>0, <1>3, <1>c DEF Tables, Published
<1>10. Kept!Allocate(p, lines)
  BY <1>2, <1>6, <1>7, <1>8, <1>9, KeptTables
     DEF Kept!Allocate, WasPosted
<1> QED BY <1>1, <1>10

\* A committed VoidPayment is Ledger's VoidPayment of the receivables that the
\* request has reversed.
LEMMA CommitVoids ==
  ASSUME TypeOK, TypeOK', AllocationsMatchLocks, LocksAreOperations,
         NEW t \in Tx, Commit(t), req[t] \in VoidPaymentRequest
  PROVE  /\ Locked(t, "receivables") \in SUBSET Receivables
         /\ Kept!VoidPayment(req[t].payment, Locked(t, "receivables"))
<1>0. /\ pc[t] = "commit" /\ VoidPaymentOperation(t)
      /\ AllocationLocks /\ PaymentLocks /\ db \in Tables
  BY DEF Commit, LocksAreOperations, Operation, AllocationsMatchLocks, TypeOK
<1>c. /\ db'.receivables = Published(t, "receivables", Receivables)
      /\ db'.payments = Published(t, "payments", Payments)
      /\ db'.allocations = Published(t, "allocations", Payments \X Receivables)
      /\ db'.credit_balances = Published(t, "credit_balances", Credits)
      /\ db'.lease_bills = Published(t, "lease_bills", Bills)
  BY CommitTables
<1>1. PICK p \in Payments : p = req[t].payment
  BY RequestParts
<1>2. PICK reversed \in SUBSET Receivables :
        /\ Locked(t, "receivables") = reversed
        /\ reversed \subseteq Allocated(p)
        /\ \A r \in reversed :
             dirty.receivables[r] =
               UpdateReceivablePaidAmount(db.receivables[r],
                                          -db.allocations[<<p, r>>])
  <2>1. Locked(t, "receivables") \subseteq Allocated(p)
    BY <1>0, <1>1 DEF VoidPaymentOperation, IfAt
  <2>2. Allocated(p) \subseteq Receivables
    BY DEF Allocated
  <2> QED BY <1>0, <1>1, <2>1, <2>2 DEF VoidPaymentOperation
<1>3. /\ Locked(t, "payments") = {p}
      /\ Locked(t, "credit_balances") = {} /\ Locked(t, "lease_bills") = {}
      /\ db.payments[p].status = "posted"
      /\ dirty.payments[p] = [db.payments[p] EXCEPT !.status = "voided"]
  <2>1. /\ Locked(t, "payments") = {p}
        /\ Locked(t, "credit_balances") = {} /\ Locked(t, "lease_bills") = {}
        /\ db.payments[p].status = "posted"
    BY <1>0, <1>1 DEF VoidPaymentOperation, IfAt
  <2>2. owner.payments[p] = t
    BY <2>1 DEF Locked
  <2>3. req[t] \notin AllocateRequest
    BY KindsDiffer
  <2>4. dirty.payments[p] = [db.payments[p] EXCEPT !.status = "voided"]
    BY <1>0, <2>2, <2>3 DEF PaymentLocks
  <2> QED BY <2>1, <2>4
<1>4. \A pr \in Payments \X Receivables : pr \notin Locked(t, "allocations")
  <2>1. req[t] \notin AllocateRequest
    BY KindsDiffer
  <2>2. \A q \in Payments, r \in Receivables : owner.allocations[<<q, r>>] # t
    BY <1>0, <2>1 DEF AllocationLocks
  <2> QED BY <2>2 DEF Locked
<1>5. db'.receivables =
        [r \in Receivables |->
           IF r \in reversed
             THEN UpdateReceivablePaidAmount(db.receivables[r],
                                             -db.allocations[<<p, r>>])
             ELSE db.receivables[r]]
  BY <1>2, <1>c DEF Published
<1>6. db'.payments = [db.payments EXCEPT ![p] =
                        [db.payments[p] EXCEPT !.status = "voided"]]
  <2> DEFINE row == [db.payments[p] EXCEPT !.status = "voided"]
  <2>0. row = dirty.payments[p]
    BY <1>3
  <2> HIDE DEF row
  <2>1. db'.payments = [q \in Payments |-> IF q = p THEN row ELSE db.payments[q]]
    BY <1>3, <2>0, <1>c DEF Published
  <2>2. db.payments \in [Payments -> PaymentRow]
    BY <1>0 DEF Tables
  <2>3. db'.payments = [db.payments EXCEPT ![p] = row]
    BY <2>1, <2>2
  <2> QED BY <2>3 DEF row
<1>7. db'.allocations = db.allocations
  BY <1>0, <1>4, <1>c DEF Tables, Published
<1>8. db'.credit_balances = db.credit_balances
      /\ db'.lease_bills = db.lease_bills
  BY <1>0, <1>3, <1>c DEF Tables, Published
<1>9. Kept!VoidPayment(p, reversed)
  BY <1>2, <1>3, <1>5, <1>6, <1>7, <1>8, KeptTables
     DEF Kept!VoidPayment, Allocated
<1> QED BY <1>1, <1>2, <1>9

\* A committed ApplyCreditBalance is Ledger's ApplyCredit.
LEMMA CommitCredits ==
  ASSUME TypeOK, TypeOK', AllocationsMatchLocks, LocksAreOperations,
         NEW t \in Tx, Commit(t), req[t] \in CreditRequest
  PROVE  Kept!ApplyCredit(req[t].credit, req[t].receivable, req[t].amount)
<1>0. /\ pc[t] = "commit" /\ CreditOperation(t)
      /\ AllocationLocks /\ PaymentLocks /\ db \in Tables
  BY DEF Commit, LocksAreOperations, Operation, AllocationsMatchLocks, TypeOK
<1>c. /\ db'.receivables = Published(t, "receivables", Receivables)
      /\ db'.payments = Published(t, "payments", Payments)
      /\ db'.allocations = Published(t, "allocations", Payments \X Receivables)
      /\ db'.credit_balances = Published(t, "credit_balances", Credits)
      /\ db'.lease_bills = Published(t, "lease_bills", Bills)
  BY CommitTables
<1>1. PICK c \in Credits, r \in Receivables, amount \in Amounts :
        c = req[t].credit /\ r = req[t].receivable /\ amount = req[t].amount
  BY RequestParts
<1> DEFINE used == ApplyCreditBalance(db.credit_balances[c], amount)
           credited == UpdateReceivableCreditedAmount(db.receivables[r], amount)
<1>2. /\ Locked(t, "receivables") = {r} /\ Locked(t, "credit_balances") = {c}
      /\ Locked(t, "lease_bills") = {}
      /\ db.receivables[r].status # "none"
      /\ db.credit_balances[c].status = "available"
      /\ dirty.credit_balances[c] = used
      /\ dirty.receivables[r] = credited
  BY <1>0, <1>1 DEF CreditOperation, IfAt
<1>3. /\ \A p \in Payments : p \notin Locked(t, "payments")
      /\ \A pr \in Payments \X Receivables : pr \notin Locked(t, "allocations")
  <2>1. req[t] \notin AllocateRequest /\ req[t] \notin VoidPaymentRequest
    BY KindsDiffer
  <2>2. /\ \A p \in Payments : owner.payments[p] # t
        /\ \A p \in Payments, x \in Receivables : owner.allocations[<<p, x>>] # t
    BY <1>0, <2>1 DEF AllocationLocks, PaymentLocks
  <2> QED BY <2>2 DEF Locked
<1> HIDE DEF used, credited
<1>4. db'.receivables = [db.receivables EXCEPT ![r] = credited]
  BY <1>0, <1>2, <1>c DEF Tables, Published
<1>5. db'.credit_balances = [db.credit_balances EXCEPT ![c] = used]
  BY <1>0, <1>2, <1>c DEF Tables, Published
<1>6. db'.payments = db.payments /\ db'.allocations = db.allocations
  BY <1>0, <1>3, <1>c DEF Tables, Published
<1>7. db'.lease_bills = db.lease_bills
  BY <1>0, <1>2, <1>c DEF Tables, Published
<1>8. Kept!ApplyCredit(c, r, amount)
  BY <1>2, <1>4, <1>5, <1>6, <1>7, KeptTables
     DEF Kept!ApplyCredit, used, credited
<1> QED BY <1>1, <1>8

\* A committed IssueLeaseBill is Ledger's IssueBill, a committed VoidLeaseBill
\* its VoidBill.
LEMMA CommitBills ==
  ASSUME TypeOK, TypeOK', AllocationsMatchLocks, LocksAreOperations,
         NEW t \in Tx, Commit(t), req[t] \in IssueBillRequest \cup VoidBillRequest
  PROVE  /\ req[t] \in IssueBillRequest => Kept!IssueBill(req[t].bill)
         /\ req[t] \in VoidBillRequest =>
              /\ Kept!VoidBill(req[t].bill)
              /\ Locked(t, "receivables") = {req[t].bill} =>
                   /\ db.receivables[req[t].bill].status = "open"
                   /\ db'.receivables = [db.receivables EXCEPT
                                           ![req[t].bill].status = "voided"]
<1>0. /\ pc[t] = "commit" /\ IssueBillOperation(t) /\ VoidBillOperation(t)
      /\ AllocationLocks /\ PaymentLocks /\ db \in Tables
  BY DEF Commit, LocksAreOperations, Operation, AllocationsMatchLocks, TypeOK
<1>c. /\ db'.receivables = Published(t, "receivables", Receivables)
      /\ db'.payments = Published(t, "payments", Payments)
      /\ db'.allocations = Published(t, "allocations", Payments \X Receivables)
      /\ db'.credit_balances = Published(t, "credit_balances", Credits)
      /\ db'.lease_bills = Published(t, "lease_bills", Bills)
  BY CommitTables
<1>1. PICK b \in Bills : b = req[t].bill /\ b \in Receivables
  BY RequestParts
<1>2. db'.payments = db.payments /\ db'.allocations = db.allocations
  <2>1. req[t] \notin AllocateRequest /\ req[t] \notin VoidPaymentRequest
    BY KindsDiffer
  <2>2. /\ \A p \in Payments : owner.payments[p] # t
        /\ \A p \in Payments, x \in Receivables : owner.allocations[<<p, x>>] # t
    BY <1>0, <2>1 DEF AllocationLocks, PaymentLocks
  <2>3. /\ \A p \in Payments : p \notin Locked(t, "payments")
        /\ \A pr \in Payments \X Receivables : pr \notin Locked(t, "allocations")
    BY <2>2 DEF Locked
  <2> QED BY <1>0, <1>c, <2>3 DEF Tables, Published
<1>3. Locked(t, "credit_balances") = {}
  BY <1>0 DEF IssueBillOperation, VoidBillOperation
<1>4. db'.credit_balances = db.credit_balances
  BY <1>0, <1>3, <1>c DEF Tables, Published
<1>5. CASE req[t] \in IssueBillRequest
  <2> DEFINE issued == [db.lease_bills[b] EXCEPT !.status = "issued"]
             new == NewReceivable(db.lease_bills[b].billed)
  <2>1. /\ Locked(t, "receivables") = {b} /\ Locked(t, "lease_bills") = {b}
        /\ db.lease_bills[b].status = "draft"
        /\ db.receivables[b].status = "none"
        /\ dirty.lease_bills[b] = issued
        /\ dirty.receivables[b] = new
    BY <1>0, <1>1, <1>5 DEF IssueBillOperation, IfAt
  <2> HIDE DEF issued, new
  <2>2. db'.receivables = [db.receivables EXCEPT ![b] = new]
    BY <1>0, <1>1, <2>1, <1>c DEF Tables, Published
  <2>3. db'.lease_bills = [db.lease_bills EXCEPT ![b] = issued]
    BY <1>0, <1>1, <2>1, <1>c DEF Tables, Published
  <2>4. Kept!IssueBill(b)
    BY <1>2, <1>4, <2>1, <2>2, <2>3, KeptTables DEF Kept!IssueBill, issued, new
  <2>5. req[t] \notin VoidBillRequest
    BY <1>5, KindsDiffer
  <2> QED BY <1>1, <2>4, <2>5
<1>6. CASE req[t] \in VoidBillRequest
  <2> DEFINE voided == [db.lease_bills[b] EXCEPT !.status = "voided"]
             gone == [db.receivables[b] EXCEPT !.status = "voided"]
  <2>1. /\ Locked(t, "receivables") = {} \/ Locked(t, "receivables") = {b}
        /\ Locked(t, "lease_bills") = {b}
        /\ db.lease_bills[b].status \in {"draft", "issued"}
        /\ dirty.lease_bills[b] = voided
        /\ Locked(t, "receivables") = {b} =>
             /\ db.receivables[b].status = "open"
             /\ dirty.receivables[b] = gone
    BY <1>0, <1>1, <1>6 DEF VoidBillOperation, IfAt
  <2> HIDE DEF voided, gone
  <2>2. IF Locked(t, "receivables") = {b}
          THEN /\ db.receivables[b].status = "open"
               /\ db'.receivables = [db.receivables EXCEPT ![b] = gone]
          ELSE db'.receivables = db.receivables
    <3>1. CASE Locked(t, "receivables") = {}
      BY <1>0, <3>1, <1>c DEF Tables, Published
    <3>2. CASE Locked(t, "receivables") = {b}
      BY <1>0, <1>1, <2>1, <3>2, <1>c DEF Tables, Published
    <3> QED BY <2>1, <3>1, <3>2
  <2>3. db'.lease_bills = [db.lease_bills EXCEPT ![b] = voided]
    BY <1>0, <1>1, <2>1, <1>c DEF Tables, Published
  <2>4. Kept!VoidBill(b)
    BY <1>2, <1>4, <2>1, <2>2, <2>3 DEF Kept!VoidBill, voided, gone
  <2>5. Locked(t, "receivables") = {b} =>
          db'.receivables = [db.receivables EXCEPT ![b].status = "voided"]
    BY <2>2 DEF gone
  <2>6. req[t] \notin IssueBillRequest
    BY <1>6, KindsDiffer
  <2> QED BY <1>1, <2>2, <2>4, <2>5, <2>6
<1> QED BY <1>5, <1>6

\* A commit is an operation of Ledger.
LEMMA CommitKept ==
  ASSUME TypeOK, TypeOK', AllocationsMatchLocks, LocksAreOperations,
         NEW t \in Tx, Commit(t)
  PROVE  Kept!Next
<1>1. req[t] \in Request
  BY DEF Commit, At, TypeOK, RequestOK
<1>2. CASE req[t] \in AllocateRequest
  BY <1>2, CommitAllocates, RequestParts, KeptTables DEF Kept!Next
<1>3. CASE req[t] \in VoidPaymentRequest
  BY <1>3, CommitVoids, RequestParts DEF Kept!Next
<1>4. CASE req[t] \in CreditRequest
  BY <1>4, CommitCredits, RequestParts DEF Kept!Next
<1>5. CASE req[t] \in IssueBillRequest \cup VoidBillRequest
  BY <1>5, CommitBills, RequestParts DEF Kept!Next
<1> QED BY <1>1, <1>2, <1>3, <1>4, <1>5 DEF Request

\* The handlers of one write are the operations of the same names.
LEMMA SingleWriteOperation ==
  ASSUME TypeOK, SingleWrite
  PROVE  \/ \E r \in Receivables \ Bills, a \in Amounts :
              Kept!CreateReceivable(r, a)
         \/ \E p \in Payments, a \in Amounts : Kept!CreatePayment(p, a)
         \/ \E p \in Payments : Kept!PostPayment(p)
<1>0. /\ StorageTypeOK /\ owner \in Locks /\ db \in Tables
      /\ "receivables" \in TableName /\ "payments" \in TableName
  BY TypeOKParts DEF StorageTypeOK, TableName
<1>1. ASSUME NEW r \in Receivables \ Bills, NEW a \in Amounts,
             CreateReceivable(r, a)
      PROVE  Kept!CreateReceivable(r, a)
  <2> DEFINE row == NewReceivable(a)
  <2>1. /\ StorageTypeOK /\ "receivables" \in TableName
        /\ r \in DOMAIN owner["receivables"]
        /\ WriteAndCommit("receivables", r, row)
        /\ db.receivables[r].status = "none"
    BY <1>0, <1>1 DEF CreateReceivable, Locks
  <2> HIDE DEF row
  <2>2. /\ owner' = owner
        /\ db'["receivables"] = [db["receivables"] EXCEPT ![r] = row]
        /\ dirty'["receivables"] = [dirty["receivables"] EXCEPT ![r] = row]
        /\ \A other \in TableName \ {"receivables"} :
             dirty'[other] = dirty[other] /\ db'[other] = db[other]
    BY <2>1, SingleWriteEffect
  <2> QED BY <2>1, <2>2, KeptTables DEF Kept!CreateReceivable, TableName, row
<1>2. ASSUME NEW p \in Payments, NEW row, WriteAndCommit("payments", p, row)
      PROVE  /\ db'.payments = [db.payments EXCEPT ![p] = row]
             /\ db'.receivables = db.receivables
             /\ db'.allocations = db.allocations
             /\ db'.credit_balances = db.credit_balances
             /\ db'.lease_bills = db.lease_bills
  <2>1. /\ StorageTypeOK /\ "payments" \in TableName
        /\ p \in DOMAIN owner["payments"]
    BY <1>0 DEF Locks
  <2>2. /\ owner' = owner
        /\ db'["payments"] = [db["payments"] EXCEPT ![p] = row]
        /\ dirty'["payments"] = [dirty["payments"] EXCEPT ![p] = row]
        /\ \A other \in TableName \ {"payments"} :
             dirty'[other] = dirty[other] /\ db'[other] = db[other]
    BY <1>2, <2>1, SingleWriteEffect
  <2> QED BY <2>2 DEF TableName
<1>3. ASSUME NEW p \in Payments, NEW a \in Amounts, CreatePayment(p, a)
      PROVE  Kept!CreatePayment(p, a)
  BY <1>2, <1>3, KeptTables DEF CreatePayment, Kept!CreatePayment
<1>4. ASSUME NEW p \in Payments, PostPayment(p) PROVE Kept!PostPayment(p)
  BY <1>2, <1>4 DEF PostPayment, Kept!PostPayment
<1> QED BY <1>1, <1>3, <1>4 DEF SingleWrite

LEMMA SingleWriteKept == TypeOK /\ SingleWrite => Kept!Next
BY SingleWriteOperation DEF Kept!Next

\* No other step changes a committed table.
LEMMA StepKept ==
  ASSUME TypeOK, TypeOK', AllocationsMatchLocks, LocksAreOperations,
         NEW t \in Tx, Start(t) \/ Step(t)
  PROVE  Kept!Next \/ db' = db
<1>1. CASE Start(t)
  BY <1>1, StartKinds DEF storage
<1>2. CASE Commit(t)
  BY <1>2, CommitKept
<1>3. CASE Step(t) /\ ~Commit(t)
  BY <1>3
     DEF Step, AllocateGetReceivable, CreatePaymentAllocation,
         AllocateUpdatePaid, UpdatePaymentUnapplied, VoidListAllocations,
         VoidReverse, VoidPaymentRow, CreditGetReceivable, CreditUse,
         CreditUpdateCredited, IssueCreateReceivable, VoidBillGetReceivable,
         VoidReceivable, VoidBillRow, Rollback, RollbackTx, Write, storage
<1> QED BY <1>1, <1>2, <1>3

LEMMA NextKept ==
  ASSUME TypeOK, TypeOK', AllocationsMatchLocks, LocksAreOperations,
         [Next]_vars
  PROVE  [Kept!Next]_(Kept!ledger)
<1>1. db' = db => UNCHANGED Kept!ledger
  BY DEF Kept!ledger
<1>2. CASE SingleWrite
  BY <1>2, SingleWriteKept
<1>3. CASE \E t \in Tx : Start(t) \/ Step(t)
  BY <1>1, <1>3, StepKept
<1>4. CASE UNCHANGED vars
  BY <1>1, <1>4 DEF vars
<1> QED BY <1>2, <1>3, <1>4 DEF Next

LEMMA InitKept == Init => Kept!Init
<1> SUFFICES ASSUME Init PROVE Kept!Init
  OBVIOUS
<1>1. PICK totals \in [Credits -> Amounts], billed \in [Bills -> Amounts] :
        db = [receivables |-> [r \in Receivables |-> NoReceivable],
              payments |-> [p \in Payments |-> NoPayment],
              allocations |-> [pr \in Payments \X Receivables |-> 0],
              credit_balances |->
                [c \in Credits |-> [status |-> "available",
                                    total |-> totals[c], used |-> 0]],
              lease_bills |-> [b \in Bills |-> NewBill(billed[b])]]
  BY DEF Init
<1>2. /\ db.receivables = [r \in Receivables |-> NoReceivable]
      /\ db.payments = [p \in Payments |-> NoPayment]
      /\ db.allocations = [pr \in Payments \X Receivables |-> 0]
  BY <1>1
<1>3. db.credit_balances \in
        [Credits -> {[status |-> "available", total |-> a, used |-> 0] :
                       a \in Amounts}]
  BY <1>1
<1>4. db.lease_bills \in [Bills -> {NewBill(a) : a \in Amounts}]
  BY <1>1
<1>5. {Kept!NewBill(a) : a \in Amounts} = {NewBill(a) : a \in Amounts}
  BY KeptTables
<1> QED BY <1>2, <1>3, <1>4, <1>5, KeptTables DEF Kept!Init

\* However many requests interleave their statements and wherever they fail,
\* the committed finance tables change by whole operations only: what leaves
\* one table arrives in another, a payment is reversed once, a bill is issued
\* with its receivable.
THEOREM BooksAreKept == Spec => KeepsTheBooks
<1>1. Init => Kept!Init
  BY InitKept
<1>2. TypeOK /\ TypeOK' /\ AllocationsMatchLocks /\ LocksAreOperations
        /\ [Next]_vars => [Kept!Next]_(Kept!ledger)
  BY NextKept
<1> QED BY <1>1, <1>2, TypeCorrect, LocksMatch, LocksMakeOperations, PTL
        DEF Spec, KeepsTheBooks, Kept!Spec

-----------------------------------------------------------------------------
(***************************************************************************)
(* What every operation of Ledger keeps, whatever its check had read, the  *)
(* handlers keep too.                                                      *)
(***************************************************************************)

\* One of the amounts, counted apart from the others.
LEMMA TotalWithout ==
  ASSUME NEW S, IsFiniteSet(S), NEW f, \A x \in S : f[x] \in Nat, NEW p \in S
  PROVE  Total(f, S) = Total(f, S \ {p}) + f[p]
<1> DEFINE rest == Cents(f, S \ {p})
           own == {p} \X (1 .. f[p])
<1>1. Cents(f, S) = rest \cup own /\ rest \cap own = {}
  BY DEF Cents
<1>2. IsFiniteSet(S \ {p})
  BY FS_Subset
<1>3. IsFiniteSet(rest) /\ Cardinality(rest) \in Nat
  BY <1>2, TotalType DEF Total
<1>4. /\ IsFiniteSet(1 .. f[p]) /\ Cardinality(1 .. f[p]) = f[p]
      /\ f[p] \in Nat
  <2>1. f[p] \in Nat /\ f[p] \in Int /\ 1 \in Int
    OBVIOUS
  <2>2. /\ IsFiniteSet(1 .. f[p])
        /\ Cardinality(1 .. f[p]) = IF 1 > f[p] THEN 0 ELSE f[p] - 1 + 1
    BY <2>1, FS_Interval
  <2> QED BY <2>1, <2>2
<1>5. IsFiniteSet({p}) /\ Cardinality({p}) = 1
  BY FS_Singleton
<1>6. IsFiniteSet(own) /\ Cardinality(own) = 1 * f[p]
  BY <1>4, <1>5, FS_Product
<1> HIDE DEF rest, own
<1>7. Cardinality(rest \cup own) =
        Cardinality(rest) + Cardinality(own) - Cardinality(rest \cap own)
  BY <1>3, <1>6, FS_Union
<1>8. Cardinality({}) = 0
  BY FS_EmptySet
<1>9. Total(f, S) = Cardinality(rest) + f[p]
  <2>1. Cardinality(rest \cup own) = Cardinality(rest) + f[p]
    <3>1. Cardinality(rest \cap own) = 0
      BY <1>1, <1>8, Zenon
    <3>2. 1 * f[p] = f[p]
      BY <1>4
    <3>3. Cardinality(own) = f[p]
      BY <1>6, <3>2
    <3> QED BY <1>3, <1>4, <1>7, <3>1, <3>3
  <2> QED BY <1>1, <2>1 DEF Total
<1> QED BY <1>9 DEF Total, rest

LEMMA PaymentsFinite ==
  /\ IsFiniteSet(Payments) /\ IsFiniteSet(Live) /\ Live \subseteq Payments
  /\ \A p : IsFiniteSet(Live \ {p}) /\ IsFiniteSet(Payments \ {p})
<1>1. IsFiniteSet(Payments) /\ Live \subseteq Payments
  BY TablesAssumption DEF Live
<1>2. \A S : S \subseteq Payments => IsFiniteSet(S)
  BY <1>1, FS_Subset
<1>3. \A p : Live \ {p} \subseteq Payments /\ Payments \ {p} \subseteq Payments
  BY <1>1
<1> QED BY <1>1, <1>2, <1>3

\* The totals a receivable's paid_amount lies between are amounts.
LEMMA AllocationTotals ==
  ASSUME TypeOK, NEW r \in Receivables, NEW S \in SUBSET Payments
  PROVE  /\ IsFiniteSet(S) /\ Total(AllocationsTo(r), S) \in Nat
         /\ \A p \in Payments :
              /\ AllocationsTo(r)[p] = db.allocations[<<p, r>>]
              /\ db.allocations[<<p, r>>] \in Nat
         /\ \A p \in S : Total(AllocationsTo(r), S) =
              Total(AllocationsTo(r), S \ {p}) + db.allocations[<<p, r>>]
<1>1. IsFiniteSet(S)
  BY PaymentsFinite, FS_Subset
<1>2. \A p \in Payments : /\ AllocationsTo(r)[p] = db.allocations[<<p, r>>]
                          /\ db.allocations[<<p, r>>] \in Nat
  BY DEF TypeOK, Tables, AllocationsTo
<1>3. Total(AllocationsTo(r), S) \in Nat
  BY <1>1, <1>2, TotalType
<1>4. ASSUME NEW p \in S
      PROVE  Total(AllocationsTo(r), S) =
               Total(AllocationsTo(r), S \ {p}) + db.allocations[<<p, r>>]
  <2> DEFINE f == AllocationsTo(r)
  <2>1. /\ IsFiniteSet(S) /\ \A x \in S : f[x] \in Nat
        /\ f[p] = db.allocations[<<p, r>>]
    BY <1>1, <1>2
  <2> HIDE DEF f
  <2>2. Total(f, S) = Total(f, S \ {p}) + f[p]
    BY <2>1, TotalWithout
  <2> QED BY <2>1, <2>2 DEF f
<1> QED BY <1>1, <1>2, <1>3, <1>4

LEMMA InitBounded == Init => PaidIsBounded
<1> SUFFICES ASSUME Init PROVE PaidIsBounded
  OBVIOUS
<1>1. /\ \A r \in Receivables : db.receivables[r] = NoReceivable
      /\ \A p \in Payments, r \in Receivables : db.allocations[<<p, r>>] = 0
  BY DEF Init
<1>2. ASSUME NEW r \in Receivables, NEW S \in SUBSET Payments
      PROVE  Total(AllocationsTo(r), S) = 0
  <2>1. \A p \in S : 1 .. AllocationsTo(r)[p] = {}
    BY <1>1 DEF AllocationsTo
  <2>2. Cents(AllocationsTo(r), S) = {}
    BY <2>1 DEF Cents
  <2> QED BY <2>2, FS_EmptySet DEF Total
<1>3. Live \subseteq Payments
  BY DEF Live
<1> QED BY <1>1, <1>2, <1>3 DEF PaidIsBounded, ReceivablePaidBounds, NoReceivable

-----------------------------------------------------------------------------
\* What one operation of Ledger makes of one receivable.
LEMMA ReceivableOperations ==
  ASSUME TypeOK, Kept!Next, NEW r \in Receivables
  PROVE  LET row == db.receivables[r]
             new == db'.receivables[r]
         IN \/ new = row
            \/ row.status = "none" /\ \E a \in Amounts : new = NewReceivable(a)
            \/ \E n \in Int : new = UpdateReceivablePaidAmount(row, n)
            \/ \E n \in Amounts : new = UpdateReceivableCreditedAmount(row, n)
            \/ row.status = "open" /\ new = [row EXCEPT !.status = "voided"]
<1>1. /\ db.receivables \in [Receivables -> ReceivableRow]
      /\ db.allocations \in [Payments \X Receivables -> Nat]
      /\ db.lease_bills \in [Bills -> BillRow]
      /\ Bills \subseteq Receivables /\ Amounts \subseteq Nat \ {0}
  BY TablesAssumption DEF TypeOK, Tables
<1>2. CASE \E s \in Receivables \ Bills, a \in Amounts :
             Kept!CreateReceivable(s, a)
  BY <1>1, <1>2, KeptTables DEF Kept!CreateReceivable
<1>3. CASE \/ \E p \in Payments, a \in Amounts : Kept!CreatePayment(p, a)
           \/ \E p \in Payments : Kept!PostPayment(p)
  BY <1>3 DEF Kept!CreatePayment, Kept!PostPayment
<1>4. CASE \E p \in Payments, lines \in Kept!Lines : Kept!Allocate(p, lines)
  <2>1. PICK p \in Payments, lines \in Lines : Kept!Allocate(p, lines)
    BY <1>4, KeptTables
  <2>2. lines[r] \in Int
    <3>1. lines[r] \in Amounts \/ lines[r] = 0
      BY DEF Lines
    <3>2. \A a \in Amounts : a \in Int
      BY <1>1
    <3> QED BY <3>1, <3>2
  <2>3. \/ db'.receivables[r] = db.receivables[r]
        \/ db'.receivables[r] =
             UpdateReceivablePaidAmount(db.receivables[r], lines[r])
    BY <2>1, KeptTables DEF Kept!Allocate
  <2> QED BY <2>2, <2>3
<1>5. CASE \E p \in Payments, reversed \in SUBSET Receivables :
             Kept!VoidPayment(p, reversed)
  <2>1. PICK p \in Payments, reversed \in SUBSET Receivables :
          Kept!VoidPayment(p, reversed)
    BY <1>5
  <2>2. -db.allocations[<<p, r>>] \in Int
    BY <1>1
  <2>3. \/ db'.receivables[r] = db.receivables[r]
        \/ db'.receivables[r] = UpdateReceivablePaidAmount(
             db.receivables[r], -db.allocations[<<p, r>>])
    BY <2>1, KeptTables DEF Kept!VoidPayment
  <2> QED BY <2>2, <2>3
<1>6. CASE \E c \in Credits, s \in Receivables, a \in Amounts :
             Kept!ApplyCredit(c, s, a)
  BY <1>1, <1>6, KeptTables DEF Kept!ApplyCredit
<1>7. CASE \E b \in Bills : Kept!IssueBill(b)
  <2>1. PICK b \in Bills : Kept!IssueBill(b)
    BY <1>7
  <2>2. db.lease_bills[b].billed \in Amounts
    BY <1>1 DEF BillRow
  <2>3. \/ db'.receivables[r] = db.receivables[r]
        \/ /\ db.receivables[r].status = "none"
           /\ db'.receivables[r] = NewReceivable(db.lease_bills[b].billed)
    BY <1>1, <2>1, KeptTables DEF Kept!IssueBill
  <2> QED BY <2>2, <2>3
<1>8. CASE \E b \in Bills : Kept!VoidBill(b)
  BY <1>1, <1>8 DEF Kept!VoidBill
<1> QED BY <1>2, <1>3, <1>4, <1>5, <1>6, <1>7, <1>8 DEF Kept!Next

\* A receivable's status agrees with its amounts after each operation.
LEMMA ReceivableStatusKept ==
  ASSUME TypeOK, TypeOK', StatusMatchesAmounts, Kept!Next,
         NEW r \in Receivables
  PROVE  LET row == db'.receivables[r]
             moved == row.paid > 0 \/ row.credited > 0
         IN /\ row.status \in {"none", "open", "voided"} => ~moved
            /\ row.status = "partially_paid" => moved /\ Outstanding(row) > 0
            /\ row.status = "paid" => Outstanding(row) <= 0
            /\ row.status = "open" => Outstanding(row) > 0
<1> DEFINE row == db.receivables[r]
           new == db'.receivables[r]
           Agrees(x) ==
             LET moved == x.paid > 0 \/ x.credited > 0
             IN /\ x.status \in {"none", "open", "voided"} => ~moved
                /\ x.status = "partially_paid" => moved /\ Outstanding(x) > 0
                /\ x.status = "paid" => Outstanding(x) <= 0
                /\ x.status = "open" => Outstanding(x) > 0
<1>1. /\ row \in ReceivableRow /\ new \in ReceivableRow /\ Agrees(row)
      /\ Amounts \subseteq Nat \ {0}
  BY TablesAssumption DEF TypeOK, Tables, StatusMatchesAmounts
<1>2. \/ new = row
      \/ row.status = "none" /\ \E a \in Amounts : new = NewReceivable(a)
      \/ \E n \in Int : new = UpdateReceivablePaidAmount(row, n)
      \/ \E n \in Amounts : new = UpdateReceivableCreditedAmount(row, n)
      \/ row.status = "open" /\ new = [row EXCEPT !.status = "voided"]
  BY ReceivableOperations
<1> SUFFICES Agrees(new)
  OBVIOUS
<1> HIDE DEF row, new
<1>f. row.original \in Nat /\ row.paid \in Int /\ row.credited \in Nat
  BY <1>1 DEF ReceivableRow
<1>3. CASE new = row
  BY <1>1, <1>3
<1>4. CASE \E a \in Amounts : new = NewReceivable(a)
  BY <1>1, <1>4 DEF NewReceivable, Outstanding
<1>5. CASE \E n \in Int : new = UpdateReceivablePaidAmount(row, n)
  BY <1>f, <1>5 DEF UpdateReceivablePaidAmount, Outstanding
<1>6. CASE \E n \in Amounts : new = UpdateReceivableCreditedAmount(row, n)
  <2>1. PICK n \in Amounts : new = UpdateReceivableCreditedAmount(row, n)
    BY <1>6
  <2>2. n \in Nat /\ n > 0
    BY <1>1
  <2> QED BY <1>f, <2>1, <2>2 DEF UpdateReceivableCreditedAmount, Outstanding
<1>7. CASE row.status = "open" /\ new = [row EXCEPT !.status = "voided"]
  <2>1. new.status = "voided" /\ new.paid = row.paid /\ new.credited = row.credited
    BY <1>1, <1>7 DEF ReceivableRow
  <2> QED BY <1>1, <1>7, <2>1
<1> QED BY <1>2, <1>3, <1>4, <1>5, <1>6, <1>7

\* A credit balance is exhausted exactly when nothing remains of it, after
\* each operation.
LEMMA CreditStatusKept ==
  ASSUME TypeOK, TypeOK', StatusMatchesAmounts, Kept!Next, NEW c \in Credits
  PROVE  db'.credit_balances[c].status = "exhausted"
           <=> Remaining(db'.credit_balances[c]) <= 0
<1> DEFINE row == db.credit_balances[c]
           new == db'.credit_balances[c]
<1>1. /\ row \in CreditRow /\ db.credit_balances \in [Credits -> CreditRow]
      /\ row.status = "exhausted" <=> Remaining(row) <= 0
      /\ Amounts \subseteq Nat \ {0}
  BY TablesAssumption DEF TypeOK, Tables, StatusMatchesAmounts
<1>2. \/ new = row
      \/ row.status = "available"
           /\ \E n \in Amounts : new = ApplyCreditBalance(row, n)
  <2>1. CASE \E d \in Credits, s \in Receivables, a \in Amounts :
               Kept!ApplyCredit(d, s, a)
    BY <1>1, <2>1, KeptTables DEF Kept!ApplyCredit
  <2>2. CASE ~ \E d \in Credits, s \in Receivables, a \in Amounts :
                 Kept!ApplyCredit(d, s, a)
    BY <2>2
       DEF Kept!Next, Kept!CreateReceivable, Kept!CreatePayment,
           Kept!PostPayment, Kept!Allocate, Kept!VoidPayment, Kept!IssueBill,
           Kept!VoidBill
  <2> QED BY <2>1, <2>2
<1> HIDE DEF row, new
<1>3. CASE new = row
  BY <1>1, <1>3 DEF new
<1>4. CASE row.status = "available"
             /\ \E n \in Amounts : new = ApplyCreditBalance(row, n)
  <2>1. PICK n \in Amounts : new = ApplyCreditBalance(row, n)
    BY <1>4
  <2>2. row.total \in Nat /\ row.used \in Nat /\ n \in Nat
    BY <1>1 DEF CreditRow
  <2>3. new.status = "exhausted" <=> Remaining(new) <= 0
    BY <1>4, <2>1, <2>2 DEF ApplyCreditBalance, Remaining
  <2> QED BY <2>3 DEF new
<1> QED BY <1>2, <1>3, <1>4

\* Initially nothing is paid and every credit balance has an amount left.
LEMMA InitStatus == Init => StatusMatchesAmounts
<1> SUFFICES ASSUME Init PROVE StatusMatchesAmounts
  OBVIOUS
<1>1. /\ \A r \in Receivables : db.receivables[r] = NoReceivable
      /\ \A c \in Credits : \E a \in Amounts : db.credit_balances[c] =
           [status |-> "available", total |-> a, used |-> 0]
      /\ Amounts \subseteq Nat \ {0}
  <2>1. /\ Kept!Init /\ db.receivables = [r \in Receivables |-> NoReceivable]
    BY InitKept, KeptTables DEF Kept!Init
  <2>2. db.credit_balances \in
          [Credits -> {[status |-> "available", total |-> a, used |-> 0] :
                         a \in Amounts}]
    BY <2>1 DEF Kept!Init
  <2> QED BY <2>1, <2>2, TablesAssumption
<1>2. \A c \in Credits : LET row == db.credit_balances[c]
                         IN row.status = "exhausted" <=> Remaining(row) <= 0
  <2> SUFFICES ASSUME NEW c \in Credits
               PROVE  db.credit_balances[c].status = "exhausted"
                        <=> Remaining(db.credit_balances[c]) <= 0
    OBVIOUS
  <2>1. PICK a \in Amounts : db.credit_balances[c] =
          [status |-> "available", total |-> a, used |-> 0]
    BY <1>1
  <2>2. a \in Nat /\ a > 0
    BY <1>1
  <2> QED BY <2>1, <2>2 DEF Remaining
<1>3. /\ NoReceivable.status = "none" /\ NoReceivable.paid = 0
      /\ NoReceivable.credited = 0
  BY DEF NoReceivable
<1> QED BY <1>1, <1>2, <1>3 DEF StatusMatchesAmounts

LEMMA StatusKept ==
  TypeOK /\ TypeOK' /\ StatusMatchesAmounts /\ [Kept!Next]_(Kept!ledger)
    => StatusMatchesAmounts'
<1> SUFFICES ASSUME TypeOK, TypeOK', StatusMatchesAmounts,
                    [Kept!Next]_(Kept!ledger)
             PROVE  StatusMatchesAmounts'
  OBVIOUS
<1>1. CASE Kept!Next
  BY <1>1, ReceivableStatusKept, CreditStatusKept, Zenon
     DEF StatusMatchesAmounts, Outstanding, Remaining
<1>2. CASE UNCHANGED Kept!ledger
  <2>1. db'.receivables = db.receivables
        /\ db'.credit_balances = db.credit_balances
    BY <1>2 DEF Kept!ledger
  <2> QED BY <2>1 DEF StatusMatchesAmounts
<1> QED BY <1>1, <1>2

\* Every UPDATE computes the status it writes from the amounts it finds, so
\* however requests interleave no committed receivable or credit balance has
\* a status its amounts contradict, and no voided receivable holds money.
THEOREM StatusAgrees == Spec => []StatusMatchesAmounts
<1>1. Init => StatusMatchesAmounts
  BY InitStatus
<1>2. TypeOK /\ TypeOK' /\ AllocationsMatchLocks /\ LocksAreOperations
        /\ StatusMatchesAmounts /\ [Next]_vars => StatusMatchesAmounts'
  BY NextKept, StatusKept
<1> QED BY <1>1, <1>2, TypeCorrect, LocksMatch, LocksMakeOperations, PTL
        DEF Spec

-----------------------------------------------------------------------------
\* Where a receivable and its allocations stay as they are, its paid_amount
\* stays between the totals if the payments voided do.
LEMMA SameAllocations ==
  ASSUME NEW r \in Receivables, ReceivablePaidBounds,
         \A p \in Payments : db'.allocations[<<p, r>>] = db.allocations[<<p, r>>],
         db'.receivables[r].paid = db.receivables[r].paid,
         Live' = Live
  PROVE  /\ Total(AllocationsTo(r), Live)' <= db'.receivables[r].paid
         /\ db'.receivables[r].paid <= Total(AllocationsTo(r), Payments)'
<1>1. AllocationsTo(r)' = AllocationsTo(r)
  BY DEF AllocationsTo
<1>2. /\ Total(AllocationsTo(r), Live)' = Total(AllocationsTo(r), Live)
      /\ Total(AllocationsTo(r), Payments)' = Total(AllocationsTo(r), Payments)
  BY <1>1 DEF Total, Cents
<1> QED BY <1>2 DEF ReceivablePaidBounds

\* A new allocation of p to r adds to both totals, if p is not voided, what it
\* adds to the receivable's paid_amount, and to the second one otherwise.
LEMMA NewAllocation ==
  ASSUME TypeOK, TypeOK', ReceivablePaidBounds, NEW r \in Receivables,
         NEW p \in Payments, NEW n \in Nat,
         db.allocations[<<p, r>>] = 0, db'.allocations[<<p, r>>] = n,
         \A q \in Payments \ {p} :
           db'.allocations[<<q, r>>] = db.allocations[<<q, r>>],
         db'.receivables[r].paid = db.receivables[r].paid + n,
         Live' = Live
  PROVE  /\ Total(AllocationsTo(r), Live)' <= db'.receivables[r].paid
         /\ db'.receivables[r].paid <= Total(AllocationsTo(r), Payments)'
<1> DEFINE f == AllocationsTo(r)
           g == AllocationsTo(r)'
<1>1. /\ \A q \in Payments : f[q] \in Nat /\ g[q] \in Nat
      /\ \A q \in Payments \ {p} : g[q] = f[q]
      /\ f[p] = 0 /\ g[p] = n
  BY DEF TypeOK, Tables, AllocationsTo
<1>2. /\ Total(f, Live) <= db.receivables[r].paid
      /\ db.receivables[r].paid <= Total(f, Payments)
      /\ db.receivables[r].paid \in Int
  BY DEF ReceivablePaidBounds, TypeOK, Tables, ReceivableRow
<1>3. Total(AllocationsTo(r), Live)' = Total(g, Live)
      /\ Total(AllocationsTo(r), Payments)' = Total(g, Payments)
  BY DEF Total, Cents
<1> HIDE DEF f, g
<1>4. ASSUME NEW S \in SUBSET Payments, p \in S
      PROVE  Total(g, S) = Total(f, S) + n /\ Total(f, S) \in Nat
  <2>1. IsFiniteSet(S) /\ IsFiniteSet(S \ {p})
    BY PaymentsFinite, FS_Subset
  <2>2. \A x \in S : f[x] \in Nat /\ g[x] \in Nat
    BY <1>1
  <2>3. Total(f, S) = Total(f, S \ {p}) + f[p]
    BY <1>4, <2>1, <2>2, TotalWithout
  <2>4. Total(g, S) = Total(g, S \ {p}) + g[p]
    BY <1>4, <2>1, <2>2, TotalWithout
  <2>5. \A x \in S \ {p} : g[x] = f[x]
    BY <1>1
  <2>6. Total(g, S \ {p}) = Total(f, S \ {p})
    BY <2>5, TotalEqual
  <2>7. Total(f, S \ {p}) \in Nat
    BY <2>1, <2>2, TotalType
  <2> QED BY <1>1, <2>3, <2>4, <2>6, <2>7
<1>5. Total(g, Payments) = Total(f, Payments) + n /\ Total(f, Payments) \in Nat
  BY <1>4
<1>6. CASE p \in Live
  <2>1. Total(g, Live) = Total(f, Live) + n /\ Total(f, Live) \in Nat
    BY <1>4, <1>6, PaymentsFinite
  <2> QED BY <1>2, <1>3, <1>5, <2>1
<1>7. CASE p \notin Live
  <2>1. \A x \in Live : g[x] = f[x]
    BY <1>1, <1>7, PaymentsFinite
  <2>2. Total(g, Live) = Total(f, Live)
    BY <2>1, TotalEqual
  <2>3. Total(f, Live) \in Nat
    <3>1. IsFiniteSet(Live) /\ \A x \in Live : f[x] \in Nat
      BY <1>1, PaymentsFinite
    <3> QED BY <3>1, TotalType
  <2> QED BY <1>2, <1>3, <1>5, <2>2, <2>3
<1> QED BY <1>6, <1>7

\* Voiding p takes its allocation to r out of the first total, and out of
\* the receivable's paid_amount if it listed the allocation.
LEMMA VoidedAllocation ==
  ASSUME TypeOK, ReceivablePaidBounds, NEW r \in Receivables,
         NEW p \in Payments, p \in Live, Live' = Live \ {p},
         \A q \in Payments : db'.allocations[<<q, r>>] = db.allocations[<<q, r>>],
         \/ db'.receivables[r].paid = db.receivables[r].paid
         \/ db'.receivables[r].paid =
              db.receivables[r].paid - db.allocations[<<p, r>>]
  PROVE  /\ Total(AllocationsTo(r), Live)' <= db'.receivables[r].paid
         /\ db'.receivables[r].paid <= Total(AllocationsTo(r), Payments)'
<1> DEFINE f == AllocationsTo(r)
<1>1. AllocationsTo(r)' = f
  BY DEF AllocationsTo
<1>2. /\ Total(AllocationsTo(r), Live)' = Total(f, Live \ {p})
      /\ Total(AllocationsTo(r), Payments)' = Total(f, Payments)
  BY <1>1 DEF Total, Cents
<1>3. /\ Total(f, Live) <= db.receivables[r].paid
      /\ db.receivables[r].paid <= Total(f, Payments)
      /\ db.receivables[r].paid \in Int /\ db.allocations[<<p, r>>] \in Nat
  BY DEF ReceivablePaidBounds, TypeOK, Tables, ReceivableRow
<1>4. /\ Total(f, Live) = Total(f, Live \ {p}) + db.allocations[<<p, r>>]
      /\ Total(f, Payments) \in Nat
  BY AllocationTotals, PaymentsFinite
<1>5. Total(f, Live \ {p}) \in Nat
  BY AllocationTotals, PaymentsFinite
<1> HIDE DEF f
<1> QED BY <1>2, <1>3, <1>4, <1>5

\* The payments not voided stay so where no status changes to it.
LEMMA SameLive ==
  ASSUME \A p \in Payments : db'.payments[p].status = "voided"
                               <=> db.payments[p].status = "voided"
  PROVE  Live' = Live
BY DEF Live

\* What keeps the bounds of every receivable, one operation at a time.
LEMMA BoundsKept ==
  ASSUME TypeOK, TypeOK', PaidIsBounded, Kept!Next
  PROVE  ReceivablePaidBounds'
<1> DEFINE Bounded(r) ==
             /\ Total(AllocationsTo(r), Live)' <= db'.receivables[r].paid
             /\ db'.receivables[r].paid <= Total(AllocationsTo(r), Payments)'
<1> SUFFICES ASSUME NEW r \in Receivables
             PROVE  Bounded(r)
  BY Zenon DEF ReceivablePaidBounds
<1>1. /\ db.receivables \in [Receivables -> ReceivableRow]
      /\ db.payments \in [Payments -> PaymentRow]
      /\ db.allocations \in [Payments \X Receivables -> Nat]
      /\ Bills \subseteq Receivables /\ ReceivablePaidBounds
      /\ \A s \in Receivables : db.receivables[s].status = "none"
                                  => db.receivables[s].paid = 0
  BY TablesAssumption DEF TypeOK, Tables, PaidIsBounded, NoReceivable
<1>e. ASSUME db'.allocations = db.allocations,
             db'.receivables[r].paid = db.receivables[r].paid,
             \A p \in Payments : db'.payments[p].status = "voided"
                                   <=> db.payments[p].status = "voided"
      PROVE  Bounded(r)
  BY <1>1, <1>e, SameLive, SameAllocations
<1> HIDE DEF Bounded
<1>2. CASE \E s \in Receivables \ Bills, a \in Amounts :
             Kept!CreateReceivable(s, a)
  <2>1. PICK s \in Receivables \ Bills, a \in Amounts :
          Kept!CreateReceivable(s, a)
    BY <1>2
  <2>2. /\ db'.allocations = db.allocations /\ db'.payments = db.payments
        /\ db.receivables[s].status = "none"
        /\ db'.receivables = [db.receivables EXCEPT ![s] = NewReceivable(a)]
    BY <2>1, KeptTables DEF Kept!CreateReceivable
  <2>3. db'.receivables[r].paid = db.receivables[r].paid
    BY <1>1, <2>2 DEF NewReceivable
  <2> QED BY <1>e, <2>2, <2>3
<1>3. CASE \E p \in Payments, a \in Amounts : Kept!CreatePayment(p, a)
  <2>1. PICK p \in Payments, a \in Amounts : Kept!CreatePayment(p, a)
    BY <1>3
  <2>2. /\ db'.allocations = db.allocations /\ db'.receivables = db.receivables
        /\ db.payments[p].status = "none"
        /\ db'.payments = [db.payments EXCEPT ![p] = NewPayment(a)]
    BY <2>1, KeptTables DEF Kept!CreatePayment
  <2>3. \A q \in Payments : db'.payments[q].status = "voided"
                              <=> db.payments[q].status = "voided"
    BY <1>1, <2>2 DEF NewPayment
  <2> QED BY <1>e, <2>2, <2>3
<1>4. CASE \E p \in Payments : Kept!PostPayment(p)
  <2>1. PICK p \in Payments : Kept!PostPayment(p)
    BY <1>4
  <2>2. /\ db'.allocations = db.allocations /\ db'.receivables = db.receivables
        /\ db.payments[p].status = "draft"
        /\ db'.payments = [db.payments EXCEPT ![p].status = "posted"]
    BY <2>1 DEF Kept!PostPayment
  <2>3. \A q \in Payments : db'.payments[q].status = "voided"
                              <=> db.payments[q].status = "voided"
    BY <1>1, <2>2 DEF PaymentRow
  <2> QED BY <1>e, <2>2, <2>3
<1>5. CASE \E p \in Payments, lines \in Kept!Lines : Kept!Allocate(p, lines)
  <2>1. PICK p \in Payments, lines \in Lines : Kept!Allocate(p, lines)
    BY <1>5, KeptTables
  <2>2. /\ db'.payments = [db.payments EXCEPT ![p].unapplied =
                                     @ - Total(lines, Receivables)]
        /\ db'.allocations = [pr \in DOMAIN db.allocations |->
                                IF pr[1] = p
                                  THEN db.allocations[pr] + lines[pr[2]]
                                  ELSE db.allocations[pr]]
        /\ \A s \in Rows(lines) : db.allocations[<<p, s>>] = 0
        /\ db'.receivables[r] =
             IF r \in Rows(lines)
               THEN UpdateReceivablePaidAmount(db.receivables[r], lines[r])
               ELSE db.receivables[r]
    BY <2>1, KeptTables DEF Kept!Allocate
  <2>3. Live' = Live
    <3>1. \A q \in Payments : db'.payments[q].status = db.payments[q].status
      BY <1>1, <2>2 DEF PaymentRow
    <3> QED BY <3>1, SameLive
  <2>4. /\ lines[r] \in Nat
        /\ \A q \in Payments : db'.allocations[<<q, r>>] =
             IF q = p THEN db.allocations[<<q, r>>] + lines[r]
                      ELSE db.allocations[<<q, r>>]
    <3>1. lines[r] \in Amounts \/ lines[r] = 0
      BY DEF Lines
    <3>2. \A a \in Amounts : a \in Nat
      BY TablesAssumption
    <3>3. \A q \in Payments : <<q, r>> \in DOMAIN db.allocations
      BY <1>1
    <3> QED BY <2>2, <3>1, <3>2, <3>3
  <2>5. CASE r \in Rows(lines)
    <3>1. /\ db.allocations[<<p, r>>] = 0
          /\ db'.allocations[<<p, r>>] = lines[r]
          /\ \A q \in Payments \ {p} :
               db'.allocations[<<q, r>>] = db.allocations[<<q, r>>]
          /\ db'.receivables[r].paid = db.receivables[r].paid + lines[r]
      BY <2>2, <2>4, <2>5 DEF UpdateReceivablePaidAmount
    <3> QED BY <1>1, <2>3, <2>4, <3>1, NewAllocation DEF Bounded
  <2>6. CASE r \notin Rows(lines)
    <3>1. lines[r] = 0 /\ db'.receivables[r].paid = db.receivables[r].paid
      BY <2>2, <2>4, <2>6 DEF Rows
    <3>2. \A q \in Payments :
            db'.allocations[<<q, r>>] = db.allocations[<<q, r>>]
      BY <1>1, <2>4, <3>1
    <3> QED BY <1>1, <2>3, <3>1, <3>2, SameAllocations DEF Bounded
  <2> QED BY <2>5, <2>6
<1>6. CASE \E p \in Payments, reversed \in SUBSET Receivables :
             Kept!VoidPayment(p, reversed)
  <2>1. PICK p \in Payments, reversed \in SUBSET Receivables :
          Kept!VoidPayment(p, reversed)
    BY <1>6
  <2>2. /\ db.payments[p].status = "posted"
        /\ db'.payments = [db.payments EXCEPT ![p].status = "voided"]
        /\ db'.allocations = db.allocations
        /\ db'.receivables[r] =
             IF r \in reversed
               THEN UpdateReceivablePaidAmount(db.receivables[r],
                                               -db.allocations[<<p, r>>])
               ELSE db.receivables[r]
    BY <2>1, KeptTables DEF Kept!VoidPayment
  <2>3. p \in Live /\ Live' = Live \ {p}
    BY <1>1, <2>2 DEF Live, PaymentRow
  <2>4. db.receivables[r].paid \in Int /\ db.allocations[<<p, r>>] \in Int
    BY <1>1 DEF ReceivableRow
  <2>5. \/ db'.receivables[r].paid = db.receivables[r].paid
        \/ db'.receivables[r].paid =
             db.receivables[r].paid - db.allocations[<<p, r>>]
    BY <2>2, <2>4 DEF UpdateReceivablePaidAmount
  <2>6. \A q \in Payments : db'.allocations[<<q, r>>] = db.allocations[<<q, r>>]
    BY <2>2
  <2> QED BY <1>1, <2>3, <2>5, <2>6, VoidedAllocation DEF Bounded
<1>7. CASE \E c \in Credits, s \in Receivables, a \in Amounts :
             Kept!ApplyCredit(c, s, a)
  <2>1. PICK c \in Credits, s \in Receivables, a \in Amounts :
          Kept!ApplyCredit(c, s, a)
    BY <1>7
  <2>2. /\ db'.allocations = db.allocations /\ db'.payments = db.payments
        /\ db'.receivables =
             [db.receivables EXCEPT ![s] = UpdateReceivableCreditedAmount(@, a)]
    BY <2>1, KeptTables DEF Kept!ApplyCredit
  <2>3. db'.receivables[r].paid = db.receivables[r].paid
    BY <1>1, <2>2 DEF UpdateReceivableCreditedAmount
  <2> QED BY <1>e, <2>2, <2>3
<1>8. CASE \E b \in Bills : Kept!IssueBill(b)
  <2>1. PICK b \in Bills : Kept!IssueBill(b)
    BY <1>8
  <2>2. /\ db'.allocations = db.allocations /\ db'.payments = db.payments
        /\ db.receivables[b].status = "none"
        /\ db'.receivables = [db.receivables EXCEPT ![b] =
                                NewReceivable(db.lease_bills[b].billed)]
    BY <2>1, KeptTables DEF Kept!IssueBill
  <2>3. db'.receivables[r].paid = db.receivables[r].paid
    BY <1>1, <2>2 DEF NewReceivable
  <2> QED BY <1>e, <2>2, <2>3
<1>9. CASE \E b \in Bills : Kept!VoidBill(b)
  <2>1. PICK b \in Bills : Kept!VoidBill(b)
    BY <1>9
  <2>2. /\ db'.allocations = db.allocations /\ db'.payments = db.payments
        /\ \/ db'.receivables = [db.receivables EXCEPT ![b].status = "voided"]
           \/ db'.receivables = db.receivables
    BY <2>1 DEF Kept!VoidBill
  <2>3. db'.receivables[r].paid = db.receivables[r].paid
    BY <1>1, <2>2 DEF ReceivableRow
  <2> QED BY <1>e, <2>2, <2>3
<1> QED BY <1>2, <1>3, <1>4, <1>5, <1>6, <1>7, <1>8, <1>9 DEF Kept!Next

\* A receivable not yet created has no amounts.
LEMMA AbsentKept ==
  ASSUME TypeOK, PaidIsBounded, Kept!Next, NEW r \in Receivables,
         db'.receivables[r].status = "none"
  PROVE  db'.receivables[r] = NoReceivable
<1> DEFINE row == db.receivables[r]
           new == db'.receivables[r]
<1>r. row \in ReceivableRow
  BY DEF TypeOK, Tables
<1>1. /\ row.status = "none" => row = NoReceivable
      /\ Amounts \subseteq Nat \ {0}
  BY TablesAssumption DEF PaidIsBounded
<1>2. \/ new = row
      \/ row.status = "none" /\ \E a \in Amounts : new = NewReceivable(a)
      \/ \E n \in Int : new = UpdateReceivablePaidAmount(row, n)
      \/ \E n \in Amounts : new = UpdateReceivableCreditedAmount(row, n)
      \/ row.status = "open" /\ new = [row EXCEPT !.status = "voided"]
  BY ReceivableOperations
<1>3. new.status = "none"
  OBVIOUS
<1> HIDE DEF row, new
<1>4. new = row
  <2>1. ~ \E a \in Amounts : new = NewReceivable(a)
    BY <1>3 DEF NewReceivable
  <2>2. ~ \E n \in Int : new = UpdateReceivablePaidAmount(row, n)
    BY <1>3 DEF UpdateReceivablePaidAmount
  <2>3. ~ \E n \in Amounts : new = UpdateReceivableCreditedAmount(row, n)
    <3> SUFFICES ASSUME NEW n \in Amounts,
                        new = UpdateReceivableCreditedAmount(row, n)
                 PROVE  FALSE
      OBVIOUS
    <3>1. n \in Nat /\ n > 0 /\ row.credited \in Nat
      BY <1>1, <1>r DEF ReceivableRow
    <3>2. row.credited + n > 0
      BY <3>1
    <3>3. new.status = IF row.original - row.paid - (row.credited + n) <= 0
                         THEN "paid" ELSE "partially_paid"
      BY <3>2 DEF UpdateReceivableCreditedAmount
    <3> QED BY <1>3, <3>3
  <2>4. ~ (row.status = "open" /\ new = [row EXCEPT !.status = "voided"])
    <3> SUFFICES ASSUME new = [row EXCEPT !.status = "voided"] PROVE FALSE
      OBVIOUS
    <3>1. new.status = "voided"
      BY <1>r DEF ReceivableRow
    <3> QED BY <1>3, <3>1
  <2> QED BY <1>2, <2>1, <2>2, <2>3, <2>4
<1> QED BY <1>1, <1>3, <1>4 DEF new, row

LEMMA PaidKept ==
  TypeOK /\ TypeOK' /\ PaidIsBounded /\ [Kept!Next]_(Kept!ledger)
    => PaidIsBounded'
<1> SUFFICES ASSUME TypeOK, TypeOK', PaidIsBounded, [Kept!Next]_(Kept!ledger)
             PROVE  PaidIsBounded'
  OBVIOUS
<1>1. CASE Kept!Next
  <2>1. ReceivablePaidBounds'
    BY <1>1, BoundsKept
  <2>2. \A r \in Receivables : db'.receivables[r].status = "none"
                                 => db'.receivables[r] = NoReceivable
    BY <1>1, AbsentKept
  <2> QED BY <2>1, <2>2 DEF PaidIsBounded, NoReceivable
<1>2. CASE UNCHANGED Kept!ledger
  <2>1. /\ db'.receivables = db.receivables /\ db'.payments = db.payments
        /\ db'.allocations = db.allocations
    BY <1>2 DEF Kept!ledger
  <2>2. Live' = Live /\ ReceivablePaidBounds
    BY <2>1 DEF Live, PaidIsBounded
  <2>3. ReceivablePaidBounds'
    BY <2>1, <2>2, SameAllocations, Zenon DEF ReceivablePaidBounds
  <2> QED BY <2>1, <2>3 DEF PaidIsBounded, NoReceivable
<1> QED BY <1>1, <1>2

\* However requests interleave, what the operations of Ledger keep.
THEOREM BoundsStand == Spec => []PaidIsBounded
<1>1. Init => PaidIsBounded
  BY InitBounded
<1>2. TypeOK /\ TypeOK' /\ AllocationsMatchLocks /\ LocksAreOperations
        /\ PaidIsBounded /\ [Next]_vars => PaidIsBounded'
  BY NextKept, PaidKept
<1> QED BY <1>1, <1>2, TypeCorrect, LocksMatch, LocksMakeOperations, PTL
        DEF Spec

\* However requests interleave, a committed receivable's paid_amount lies
\* between the allocations of the payments not voided and those of all
\* payments: no racing request loses an update or reverses one twice.
THEOREM PaidBetweenAllocations == Spec => []ReceivablePaidBounds
<1>1. PaidIsBounded => ReceivablePaidBounds
  BY DEF PaidIsBounded
<1> QED BY <1>1, BoundsStand, PTL

-----------------------------------------------------------------------------
(***************************************************************************)
(* One request at a time: what a handler has checked still holds.          *)
(***************************************************************************)

\* Who has no request has checked nothing.
LEMMA NothingChecked ==
  ASSUME NEW u \in Tx, req'[u] \notin Request
  PROVE  Checked(u)'
BY DEF Checked, AllocateChecked, VoidPaymentChecked, CreditChecked,
       VoidBillChecked, Request

\* A request that begins has checked the row it has read.
LEMMA StartChecks ==
  ASSUME TypeOK, NEW t \in Tx, Start(t)
  PROVE  Checked(t)'
<1>0. /\ pc \in [Tx -> Statement] /\ req \in [Tx -> Request \cup {Nil}]
      /\ todo \in [Tx -> SUBSET Receivables]
  BY DEF TypeOK
<1>b. ASSUME NEW request, NEW rows, NEW stmt, Begin(t, request, rows, stmt)
      PROVE  /\ req'[t] = request /\ todo'[t] = rows /\ pc'[t] = stmt
             /\ db' = db
  BY <1>0, <1>b DEF Begin, storage
<1>1. ASSUME NEW p \in Payments, NEW lines \in Lines,
             AllocatePayment(t, p, lines)
      PROVE  Checked(t)'
  <2>1. /\ req'[t] \in AllocateRequest /\ db' = db
        /\ req'[t].payment = p /\ req'[t].lines = lines
        /\ todo'[t] = Rows(lines)
        /\ db.payments[p].status = "posted"
        /\ Total(lines, Receivables) <= db.payments[p].unapplied
    BY <1>b, <1>1 DEF AllocatePayment, AllocateRequest
  <2>2. AllocateChecked(t)'
    BY <2>1 DEF AllocateChecked
  <2> QED BY <2>1, <2>2, KindsDiffer
          DEF Checked, VoidPaymentChecked, CreditChecked, VoidBillChecked
<1>2. ASSUME NEW p \in Payments, VoidPayment(t, p) PROVE Checked(t)'
  <2>1. req'[t] \in VoidPaymentRequest /\ pc'[t] = "list_allocations"
    BY <1>b, <1>2 DEF VoidPayment, VoidPaymentRequest
  <2> QED BY <2>1, KindsDiffer
          DEF Checked, AllocateChecked, VoidPaymentChecked, CreditChecked,
              VoidBillChecked
<1>3. ASSUME NEW c \in Credits, NEW r \in Receivables, NEW a \in Amounts,
             ApplyCredit(t, c, r, a)
      PROVE  Checked(t)'
  <2>1. /\ req'[t] \in CreditRequest /\ pc'[t] = "get_credit_receivable"
        /\ req'[t].credit = c /\ req'[t].amount = a /\ db' = db
        /\ a <= Remaining(db.credit_balances[c])
    BY <1>b, <1>3 DEF ApplyCredit, CreditRequest
  <2>2. CreditChecked(t)'
    BY <2>1 DEF CreditChecked
  <2> QED BY <2>1, <2>2, KindsDiffer
          DEF Checked, AllocateChecked, VoidPaymentChecked, VoidBillChecked
<1>4. ASSUME NEW b \in Bills, IssueLeaseBill(t, b) PROVE Checked(t)'
  <2>1. req'[t] \in IssueBillRequest
    BY <1>b, <1>4 DEF IssueLeaseBill, IssueBillRequest
  <2> QED BY <2>1, KindsDiffer
          DEF Checked, AllocateChecked, VoidPaymentChecked, CreditChecked,
              VoidBillChecked
<1>5. ASSUME NEW b \in Bills, VoidLeaseBill(t, b) PROVE Checked(t)'
  <2>1. /\ req'[t] \in VoidBillRequest /\ req'[t].bill = b /\ db' = db
        /\ pc'[t] = IF db.lease_bills[b].status = "draft"
                      THEN "void_bill" ELSE "get_bill_receivable"
    BY <1>b, <1>5 DEF VoidLeaseBill, VoidBillRequest
  <2>2. VoidBillChecked(t)'
    BY <2>1 DEF VoidBillChecked
  <2> QED BY <2>1, <2>2, KindsDiffer
          DEF Checked, AllocateChecked, VoidPaymentChecked, CreditChecked
<1> QED BY <1>1, <1>2, <1>3, <1>4, <1>5 DEF Start

\* The statements of AllocatePayment and ApplyCreditBalance: what is read is
\* checked, and what is written does not commit.
LEMMA ReadingChecks ==
  ASSUME TypeOK, AllocationsMatchLocks, LocksAreOperations, NEW t \in Tx,
         Checked(t), Step(t), ~Commit(t), ~Rollback(t)
  PROVE  /\ db' = db /\ req' = req
         /\ AllocateChecked(t)' /\ CreditChecked(t)'
<1>0. /\ pc \in [Tx -> Statement] /\ req \in [Tx -> Request \cup {Nil}]
      /\ todo \in [Tx -> SUBSET Receivables] /\ RequestOK(t)
      /\ AllocateChecked(t) /\ CreditChecked(t) /\ AllocationsPending(t)
      /\ CreditOperation(t)
  BY DEF TypeOK, Checked, AllocationsMatchLocks, LocksAreOperations, Operation
<1>1. db' = db /\ req' = req
  BY DEF Step, AllocateGetReceivable, CreatePaymentAllocation,
         AllocateUpdatePaid, UpdatePaymentUnapplied, VoidListAllocations,
         VoidReverse, VoidPaymentRow, CreditGetReceivable, CreditUse,
         CreditUpdateCredited, IssueCreateReceivable, VoidBillGetReceivable,
         VoidReceivable, VoidBillRow, Write, storage, UnchangedRequest
<1>2. ASSUME req[t] \in AllocateRequest PROVE AllocateChecked(t)'
  <2> DEFINE p == req[t].payment
             lines == req[t].lines
  <2>1. /\ db.payments[p].status = "posted"
        /\ Total(lines, Receivables) <= db.payments[p].unapplied
        /\ \A r \in Rows(lines) \ todo[t] : Payable(r, lines[r])
        /\ pc[t] \in AllocateStatement \cup {"commit"}
    BY <1>0, <1>2 DEF AllocateChecked, AllocationsPending
  <2>2. \/ \E r \in Receivables : AllocateGetReceivable(t, r)
        \/ CreatePaymentAllocation(t) \/ AllocateUpdatePaid(t)
        \/ UpdatePaymentUnapplied(t)
    BY <2>1 DEF Step, AllocateStatement,
         VoidListAllocations,
         VoidReverse, VoidPaymentRow, CreditGetReceivable, CreditUse,
         CreditUpdateCredited, IssueCreateReceivable, VoidBillGetReceivable,
         VoidReceivable, VoidBillRow, Commit
  <2>3. \A r \in Rows(lines) \ todo'[t] : Payable(r, lines[r])
    <3>1. ASSUME NEW r \in Receivables, AllocateGetReceivable(t, r)
          PROVE  Payable(r, lines[r]) /\ todo'[t] = todo[t] \ {r}
      BY <1>0, <3>1 DEF AllocateGetReceivable, Payable
    <3>2. ASSUME \/ CreatePaymentAllocation(t) \/ AllocateUpdatePaid(t)
                 \/ UpdatePaymentUnapplied(t)
          PROVE  todo' = todo
      BY <3>2 DEF CreatePaymentAllocation, AllocateUpdatePaid,
           UpdatePaymentUnapplied, UnchangedRequest
    <3> QED BY <2>1, <2>2, <3>1, <3>2
  <2> QED BY <1>1, <2>1, <2>3 DEF AllocateChecked, Payable
<1>3. ASSUME req[t] \in CreditRequest PROVE CreditChecked(t)'
  <2> DEFINE amount == req[t].amount
             r == req[t].receivable
  <2>1. /\ amount <= Remaining(db.credit_balances[req[t].credit])
        /\ pc[t] # "get_credit_receivable" => Payable(r, amount)
        /\ pc[t] \in CreditStatement \cup {"commit"}
    BY <1>0, <1>3 DEF CreditChecked, CreditOperation
  <2>2. CreditGetReceivable(t) => Payable(r, amount)
    BY <1>0 DEF CreditGetReceivable, Payable
  <2>3. pc[t] = "get_credit_receivable" => CreditGetReceivable(t)
    BY DEF Step, AllocateGetReceivable, CreatePaymentAllocation,
         AllocateUpdatePaid, UpdatePaymentUnapplied, VoidListAllocations,
         VoidReverse, VoidPaymentRow, CreditUse,
         CreditUpdateCredited, IssueCreateReceivable, VoidBillGetReceivable,
         VoidReceivable, VoidBillRow, Commit
  <2>4. Payable(r, amount)
    BY <2>1, <2>2, <2>3
  <2> QED BY <1>1, <2>1, <2>4 DEF CreditChecked, Payable
<1> QED BY <1>1, <1>2, <1>3 DEF AllocateChecked, CreditChecked

\* What a void has locked, after each of its statements.
LEMMA VoidingChecks ==
  ASSUME TypeOK, AllocationsMatchLocks, LocksAreOperations, NEW t \in Tx,
         Checked(t), Step(t), ~Commit(t), ~Rollback(t)
  PROVE  VoidPaymentChecked(t)' /\ VoidBillChecked(t)'
<1>0. /\ pc \in [Tx -> Statement] /\ req \in [Tx -> Request \cup {Nil}]
      /\ todo \in [Tx -> SUBSET Receivables] /\ owner \in Locks
      /\ VoidPaymentChecked(t) /\ VoidBillChecked(t)
      /\ VoidPaymentOperation(t) /\ VoidBillOperation(t)
      /\ "receivables" \in TableName /\ "payments" \in TableName
      /\ "lease_bills" \in TableName
      /\ DOMAIN owner["receivables"] = Receivables
      /\ DOMAIN owner["payments"] = Payments
      /\ DOMAIN owner["lease_bills"] = Bills
  BY DEF TypeOK, Checked, LocksAreOperations, Operation, TableName, Locks
<1>1. db' = db /\ req' = req
  BY ReadingChecks
<1>2. ASSUME req[t] \in VoidPaymentRequest PROVE VoidPaymentChecked(t)'
  <2> DEFINE p == req[t].payment
  <2>1. /\ Locked(t, "receivables") \subseteq
             IfAt(t, {"reverse", "void_payment", "commit"},
                  Allocated(p) \ todo[t])
        /\ todo[t] \subseteq IfAt(t, {"reverse"}, Allocated(p))
        /\ pc[t] \in VoidPaymentStatement \cup {"commit"}
        /\ pc[t] # "list_allocations" =>
             Locked(t, "receivables") = Allocated(p) \ todo[t]
        /\ p \in Payments
    BY <1>0, <1>2, RequestParts DEF VoidPaymentOperation, VoidPaymentChecked
  <2>2. \/ VoidListAllocations(t)
        \/ \E r \in Receivables : VoidReverse(t, r)
        \/ VoidPaymentRow(t)
    BY <2>1 DEF Step, VoidPaymentStatement, AllocateGetReceivable,
         CreatePaymentAllocation, AllocateUpdatePaid, UpdatePaymentUnapplied,
         CreditGetReceivable, CreditUse, CreditUpdateCredited,
         IssueCreateReceivable, VoidBillGetReceivable, VoidReceivable,
         VoidBillRow, Commit
  <2>3. OnlyMoves(t)
    BY <1>0, <2>2 DEF VoidListAllocations, VoidReverse, VoidPaymentRow,
         OnlyMoves, UnchangedRequest
  <2>4. Allocated(p)' = Allocated(p)
    BY <1>1 DEF Allocated
  <2>5. CASE VoidListAllocations(t)
    <3>1. /\ UNCHANGED storage /\ pc[t] = "list_allocations"
          /\ todo'[t] = Allocated(p)
      BY <1>0, <2>5 DEF VoidListAllocations
    <3>2. Locked(t, "receivables")' = {}
      BY <2>1, <2>3, <3>1, ReadDisturbs DEF IfAt
    <3> QED BY <1>1, <2>4, <3>1, <3>2 DEF VoidPaymentChecked
  <2>6. ASSUME NEW r \in Receivables, VoidReverse(t, r)
        PROVE  VoidPaymentChecked(t)'
    <3> DEFINE row == UpdateReceivablePaidAmount(dirty.receivables[r],
                                                 -db.allocations[<<p, r>>])
    <3>1. /\ Write(t, "receivables", r, row) /\ pc[t] = "reverse"
          /\ r \in todo[t] /\ todo'[t] = todo[t] \ {r}
      BY <1>0, <2>6 DEF VoidReverse
    <3> HIDE DEF row
    <3>2. Locked(t, "receivables")' = Locked(t, "receivables") \cup {r}
      BY <1>0, <2>3, <3>1, WriteDisturbs
    <3>3. /\ Locked(t, "receivables") = Allocated(p) \ todo[t]
          /\ todo[t] \subseteq Allocated(p)
      BY <2>1, <3>1 DEF IfAt
    <3>4. Locked(t, "receivables")' = Allocated(p) \ todo'[t]
      BY <3>1, <3>2, <3>3
    <3> QED BY <1>1, <2>4, <3>4 DEF VoidPaymentChecked
  <2>7. CASE VoidPaymentRow(t)
    <3> DEFINE row == [dirty.payments[p] EXCEPT !.status = "voided"]
    <3>1. /\ Write(t, "payments", p, row) /\ pc[t] = "void_payment"
          /\ todo' = todo
      BY <1>0, <2>7 DEF VoidPaymentRow, UnchangedRequest
    <3> HIDE DEF row
    <3>2. Locked(t, "receivables")' = Locked(t, "receivables")
      BY <1>0, <2>1, <2>3, <3>1, WriteDisturbs
    <3> QED BY <1>1, <2>1, <2>4, <3>1, <3>2 DEF VoidPaymentChecked
  <2> QED BY <2>2, <2>5, <2>6, <2>7
<1>3. ASSUME req[t] \in VoidBillRequest PROVE VoidBillChecked(t)'
  <2> DEFINE b == req[t].bill
  <2>1. /\ Locked(t, "receivables") \subseteq
             IfAt(t, {"void_bill", "commit"}, {b})
        /\ pc[t] \in VoidBillStatement \cup {"commit"}
        /\ pc[t] \in {"void_bill", "commit"} =>
             \/ db.lease_bills[b].status = "draft"
             \/ Locked(t, "receivables") = {b}
        /\ b \in Bills /\ b \in Receivables
    BY <1>0, <1>3, RequestParts DEF VoidBillOperation, VoidBillChecked
  <2>2. VoidBillGetReceivable(t) \/ VoidReceivable(t) \/ VoidBillRow(t)
    BY <2>1 DEF Step, VoidBillStatement, AllocateGetReceivable,
         CreatePaymentAllocation, AllocateUpdatePaid, UpdatePaymentUnapplied,
         CreditGetReceivable, CreditUse, CreditUpdateCredited,
         IssueCreateReceivable, VoidListAllocations, VoidReverse,
         VoidPaymentRow, Commit
  <2>3. OnlyMoves(t)
    BY <1>0, <2>2 DEF VoidBillGetReceivable, VoidReceivable, VoidBillRow,
         OnlyMoves, UnchangedRequest
  <2>4. CASE VoidBillGetReceivable(t)
    <3>1. pc'[t] = "void_receivable"
      BY <1>0, <2>4 DEF VoidBillGetReceivable
    <3> QED BY <3>1 DEF VoidBillChecked
  <2>5. CASE VoidReceivable(t)
    <3> DEFINE row == [dirty.receivables[b] EXCEPT !.status = "voided"]
    <3>1. Write(t, "receivables", b, row) /\ pc[t] = "void_receivable"
      BY <1>0, <2>5 DEF VoidReceivable
    <3> HIDE DEF row
    <3>2. Locked(t, "receivables")' = Locked(t, "receivables") \cup {b}
      BY <1>0, <2>1, <2>3, <3>1, WriteDisturbs
    <3>3. Locked(t, "receivables")' = {b}
      BY <2>1, <3>1, <3>2 DEF IfAt
    <3> QED BY <1>1, <3>3 DEF VoidBillChecked
  <2>6. CASE VoidBillRow(t)
    <3> DEFINE row == [dirty.lease_bills[b] EXCEPT !.status = "voided"]
    <3>1. Write(t, "lease_bills", b, row) /\ pc[t] = "void_bill"
      BY <1>0, <2>6 DEF VoidBillRow
    <3> HIDE DEF row
    <3>2. Locked(t, "receivables")' = Locked(t, "receivables")
      BY <1>0, <2>1, <2>3, <3>1, WriteDisturbs
    <3> QED BY <1>1, <2>1, <3>1, <3>2 DEF VoidBillChecked
  <2> QED BY <2>2, <2>4, <2>5, <2>6
<1> QED BY <1>1, <1>2, <1>3 DEF VoidPaymentChecked, VoidBillChecked

\* A handler of one write leaves alone the rows others have found payable,
\* posted or allocated.
LEMMA SingleWriteLeaves ==
  ASSUME TypeOK, SingleWrite
  PROVE  /\ \A r \in Receivables : db.receivables[r].status # "none"
                                     => db'.receivables[r] = db.receivables[r]
         /\ \A p \in Payments : db.payments[p].status = "posted"
                                  => db'.payments[p] = db.payments[p]
         /\ db'.allocations = db.allocations
         /\ db'.credit_balances = db.credit_balances
         /\ db'.lease_bills = db.lease_bills
         /\ UNCHANGED <<pc, req, todo, line>>
<1>1. /\ UNCHANGED <<pc, req, todo, line>>
      /\ db.receivables \in [Receivables -> ReceivableRow]
      /\ db.payments \in [Payments -> PaymentRow]
  BY DEF SingleWrite, CreateReceivable, CreatePayment, PostPayment, TypeOK, Tables
<1>2. CASE \E r \in Receivables \ Bills, a \in Amounts :
             Kept!CreateReceivable(r, a)
  BY <1>1, <1>2, Zenon DEF Kept!CreateReceivable
<1>3. CASE \/ \E p \in Payments, a \in Amounts : Kept!CreatePayment(p, a)
           \/ \E p \in Payments : Kept!PostPayment(p)
  BY <1>1, <1>3, Zenon DEF Kept!CreatePayment, Kept!PostPayment
<1> QED BY <1>2, <1>3, SingleWriteOperation

\* What a request has checked survives a handler of one write.
LEMMA SingleWriteChecks ==
  ASSUME TypeOK, SingleWrite, LocksAreOperations, NEW u \in Tx, Checked(u)
  PROVE  Checked(u)'
<1>1. /\ \A r \in Receivables : db.receivables[r].status # "none"
                                  => db'.receivables[r] = db.receivables[r]
      /\ \A p \in Payments : db.payments[p].status = "posted"
                               => db'.payments[p] = db.payments[p]
      /\ db'.allocations = db.allocations
      /\ db'.credit_balances = db.credit_balances
      /\ db'.lease_bills = db.lease_bills
      /\ UNCHANGED <<pc, req, todo, line>>
  BY SingleWriteLeaves
<1>2. Locked(u, "receivables")' = Locked(u, "receivables")
  <2>1. Undisturbed(u) /\ "receivables" \in TableName
    BY SingleWriteAdvances DEF TableName
  <2> QED BY <2>1 DEF Undisturbed
<1>3. \A r \in Receivables : \A n : Payable(r, n) => Payable(r, n)'
  BY <1>1 DEF Payable, AcceptsMoney
<1>4. AllocateChecked(u)'
  BY <1>1, <1>3, RequestParts DEF Checked, AllocateChecked, Rows
<1>5. VoidPaymentChecked(u)'
  BY <1>1, <1>2 DEF Checked, VoidPaymentChecked, Allocated
<1>6. CreditChecked(u)'
  BY <1>1, <1>3, RequestParts DEF Checked, CreditChecked
<1>7. VoidBillChecked(u)'
  BY <1>1, <1>2 DEF Checked, VoidBillChecked
<1> QED BY <1>4, <1>5, <1>6, <1>7 DEF Checked

\* A step moves one request.
LEMMA OthersWait ==
  ASSUME TypeOK, NEW t \in Tx, Start(t) \/ Step(t), NEW u \in Tx \ {t}
  PROVE  pc'[u] = pc[u]
<1>1. CASE Start(t)
  BY <1>1, StartKinds DEF OnlyMoves
<1>2. CASE Commit(t) \/ Rollback(t)
  BY <1>2, EndRows DEF OnlyMoves
<1>3. CASE Step(t) /\ ~Commit(t) /\ ~Rollback(t)
  <2>1. pc \in [Tx -> Statement]
    BY DEF TypeOK
  <2> QED BY <1>3, <2>1
     DEF Step, AllocateGetReceivable, CreatePaymentAllocation,
       AllocateUpdatePaid, UpdatePaymentUnapplied, VoidListAllocations,
       VoidReverse, VoidPaymentRow, CreditGetReceivable, CreditUse,
       CreditUpdateCredited, IssueCreateReceivable, VoidBillGetReceivable,
       VoidReceivable, VoidBillRow
<1> QED BY <1>1, <1>2, <1>3

\* While one request runs, its checks hold until it ends.
LEMMA NextChecks ==
  ASSUME TypeOK, TypeOK', AllocationsMatchLocks, LocksAreOperations,
         OneRunning, OneRunning', ChecksHold, [Next]_vars
  PROVE  ChecksHold'
<1>r. /\ req \in [Tx -> Request \cup {Nil}] /\ pc \in [Tx -> Statement]
      /\ \A u \in Tx : RequestOK(u)
      /\ \A u \in Tx : RequestOK(u)'
  BY DEF TypeOK
<1>1. CASE SingleWrite
  BY <1>1, SingleWriteChecks DEF ChecksHold
<1>2. CASE UNCHANGED vars
  BY <1>2 DEF vars, ChecksHold, Checked, AllocateChecked, VoidPaymentChecked,
     CreditChecked, VoidBillChecked, Payable, Locked, Allocated
<1>3. ASSUME NEW t \in Tx, Start(t) \/ Step(t) PROVE ChecksHold'
  <2>1. Checked(t)'
    <3>1. CASE Start(t)
      BY <3>1, StartChecks
    <3>2. CASE Commit(t) \/ Rollback(t)
      <4>1. req'[t] \notin Request
        BY <3>2, EndRows, NilIsNothing
      <4> QED BY <4>1, NothingChecked
    <3>3. CASE Step(t) /\ ~Commit(t) /\ ~Rollback(t)
      BY <3>3, ReadingChecks, VoidingChecks DEF ChecksHold, Checked
    <3> QED BY <1>3, <3>1, <3>2, <3>3
  <2>2. ASSUME NEW u \in Tx \ {t} PROVE Checked(u)'
    <3>1. pc'[u] = pc[u]
      BY <1>3, OthersWait
    <3>2. pc[t] # "idle" \/ pc'[t] # "idle"
      <4>1. CASE Step(t)
        BY <4>1
           DEF Step, AllocateGetReceivable, CreatePaymentAllocation,
             AllocateUpdatePaid, UpdatePaymentUnapplied, VoidListAllocations,
             VoidReverse, VoidPaymentRow, CreditGetReceivable, CreditUse,
             CreditUpdateCredited, IssueCreateReceivable, VoidBillGetReceivable,
             VoidReceivable, VoidBillRow, Commit, Rollback
      <4>2. CASE Start(t)
        BY <1>r, <4>2 DEF Start, AllocatePayment, VoidPayment, ApplyCredit,
           IssueLeaseBill, VoidLeaseBill, Begin
      <4> QED BY <1>3, <4>1, <4>2
    <3>3. pc'[u] = "idle"
      BY <3>1, <3>2 DEF OneRunning
    <3>4. req'[u] \notin Request
      BY <1>r, <3>3, NilIsNothing DEF RequestOK
    <3> QED BY <3>4, NothingChecked
  <2> QED BY <2>1, <2>2 DEF ChecksHold
<1> QED BY <1>1, <1>2, <1>3 DEF Next

-----------------------------------------------------------------------------
(***************************************************************************)
(* An operation whose checks hold is one of the strict Ledger.             *)
(***************************************************************************)
\* The strict Ledger has the same rows and statements.
LEMMA PromisedTables ==
  /\ Promised!Lines = Kept!Lines
  /\ Promised!NoReceivable = Kept!NoReceivable
  /\ Promised!NoPayment = Kept!NoPayment
  /\ \A lines : Promised!Rows(lines) = Kept!Rows(lines)
  /\ \A f, S : Promised!Total(f, S) = Kept!Total(f, S)
  /\ \A n : /\ Promised!NewReceivable(n) = Kept!NewReceivable(n)
            /\ Promised!NewPayment(n) = Kept!NewPayment(n)
            /\ Promised!NewBill(n) = Kept!NewBill(n)
  /\ \A row : /\ Promised!AcceptsMoney(row) <=> AcceptsMoney(row)
              /\ Promised!Outstanding(row) = Outstanding(row)
              /\ Promised!Remaining(row) = Remaining(row)
  /\ \A row, n :
       /\ Promised!UpdateReceivablePaidAmount(row, n)
            = Kept!UpdateReceivablePaidAmount(row, n)
       /\ Promised!UpdateReceivableCreditedAmount(row, n)
            = Kept!UpdateReceivableCreditedAmount(row, n)
       /\ Promised!ApplyCreditBalance(row, n) = Kept!ApplyCreditBalance(row, n)
<1>1. /\ Promised!Lines = Kept!Lines
      /\ Promised!NoReceivable = Kept!NoReceivable
      /\ Promised!NoPayment = Kept!NoPayment
  BY DEF Kept!Lines, Promised!Lines, Kept!NoReceivable, Promised!NoReceivable,
         Kept!NoPayment, Promised!NoPayment
<1>2. \A lines : Promised!Rows(lines) = Kept!Rows(lines)
  BY DEF Kept!Rows, Promised!Rows
<1>3. \A f, S : Promised!Total(f, S) = Kept!Total(f, S)
  BY DEF Kept!Total, Promised!Total, Kept!Cents, Promised!Cents,
         Kept!Cardinality, Promised!Cardinality
<1>4. \A n : /\ Promised!NewReceivable(n) = Kept!NewReceivable(n)
             /\ Promised!NewPayment(n) = Kept!NewPayment(n)
             /\ Promised!NewBill(n) = Kept!NewBill(n)
  BY DEF Kept!NewReceivable, Promised!NewReceivable, Kept!NewPayment,
         Promised!NewPayment, Kept!NewBill, Promised!NewBill
<1>5. \A row : /\ Promised!AcceptsMoney(row) <=> AcceptsMoney(row)
               /\ Promised!Outstanding(row) = Outstanding(row)
               /\ Promised!Remaining(row) = Remaining(row)
  BY DEF Promised!AcceptsMoney, AcceptsMoney, Promised!Outstanding, Outstanding,
         Promised!Remaining, Remaining
<1>6. \A row, n :
        /\ Promised!UpdateReceivablePaidAmount(row, n)
             = Kept!UpdateReceivablePaidAmount(row, n)
        /\ Promised!UpdateReceivableCreditedAmount(row, n)
             = Kept!UpdateReceivableCreditedAmount(row, n)
        /\ Promised!ApplyCreditBalance(row, n) = Kept!ApplyCreditBalance(row, n)
  BY DEF Promised!UpdateReceivablePaidAmount, Kept!UpdateReceivablePaidAmount,
         Promised!UpdateReceivableCreditedAmount,
         Kept!UpdateReceivableCreditedAmount,
         Promised!ApplyCreditBalance, Kept!ApplyCreditBalance
<1> QED BY <1>1, <1>2, <1>3, <1>4, <1>5, <1>6

\* What makes a strict operation of each of the four that check.
LEMMA StrictOperations ==
  /\ \A p \in Payments, lines \in Lines :
       /\ Kept!Allocate(p, lines)
       /\ db.payments[p].status = "posted"
       /\ Total(lines, Receivables) <= db.payments[p].unapplied
       /\ \A r \in Rows(lines) : Payable(r, lines[r])
       => Promised!Allocate(p, lines)
  /\ \A p \in Payments :
       Kept!VoidPayment(p, Allocated(p)) => Promised!VoidPayment(p, Allocated(p))
  /\ \A c \in Credits, r \in Receivables, a \in Amounts :
       /\ Kept!ApplyCredit(c, r, a)
       /\ a <= Remaining(db.credit_balances[c]) /\ Payable(r, a)
       => Promised!ApplyCredit(c, r, a)
  /\ \A b \in Bills :
       /\ Kept!VoidBill(b)
       /\ \/ db.lease_bills[b].status = "draft"
          \/ /\ db.receivables[b].status = "open"
             /\ db'.receivables = [db.receivables EXCEPT ![b].status = "voided"]
       => Promised!VoidBill(b)
<1>1. ASSUME NEW p \in Payments, NEW lines \in Lines, Kept!Allocate(p, lines),
             db.payments[p].status = "posted",
             Total(lines, Receivables) <= db.payments[p].unapplied,
             \A r \in Rows(lines) : Payable(r, lines[r])
      PROVE  Promised!Allocate(p, lines)
  BY <1>1, KeptTables, PromisedTables
     DEF Kept!Allocate, Promised!Allocate, Payable
<1>2. ASSUME NEW p \in Payments, Kept!VoidPayment(p, Allocated(p))
      PROVE  Promised!VoidPayment(p, Allocated(p))
  BY <1>2, PromisedTables DEF Kept!VoidPayment, Promised!VoidPayment, Allocated
<1>3. ASSUME NEW c \in Credits, NEW r \in Receivables, NEW a \in Amounts,
             Kept!ApplyCredit(c, r, a),
             a <= Remaining(db.credit_balances[c]), Payable(r, a)
      PROVE  Promised!ApplyCredit(c, r, a)
  BY <1>3, PromisedTables DEF Kept!ApplyCredit, Promised!ApplyCredit, Payable
<1>4. ASSUME NEW b \in Bills, Kept!VoidBill(b),
             \/ db.lease_bills[b].status = "draft"
             \/ /\ db.receivables[b].status = "open"
                /\ db'.receivables = [db.receivables EXCEPT ![b].status = "voided"]
      PROVE  Promised!VoidBill(b)
  BY <1>4 DEF Kept!VoidBill, Promised!VoidBill
<1> QED BY <1>1, <1>2, <1>3, <1>4

\* A commit is then a strict operation.
LEMMA CommitPromised ==
  ASSUME TypeOK, TypeOK', AllocationsMatchLocks, LocksAreOperations,
         ChecksHold, NEW t \in Tx, Commit(t)
  PROVE  Promised!Next
<1>0. /\ req[t] \in Request /\ pc[t] = "commit" /\ Checked(t)
      /\ AllocationsPending(t) /\ VoidPaymentOperation(t)
  BY DEF Commit, TypeOK, RequestOK, ChecksHold, AllocationsMatchLocks,
         LocksAreOperations, Operation
<1>1. CASE req[t] \in AllocateRequest
  <2>1. PICK p \in Payments, lines \in Lines :
          p = req[t].payment /\ lines = req[t].lines
    BY <1>1, RequestParts
  <2>2. Kept!Allocate(p, lines)
    BY <1>1, <2>1, CommitAllocates
  <2>3. /\ db.payments[p].status = "posted"
        /\ Total(lines, Receivables) <= db.payments[p].unapplied
        /\ \A r \in Rows(lines) : Payable(r, lines[r])
    BY <1>0, <1>1, <2>1 DEF Checked, AllocateChecked, AllocationsPending
  <2>4. Promised!Allocate(p, lines)
    BY <2>2, <2>3, StrictOperations
  <2> QED BY <2>4, KeptTables, PromisedTables DEF Promised!Next
<1>2. CASE req[t] \in VoidPaymentRequest
  <2>1. PICK p \in Payments : p = req[t].payment
    BY <1>2, RequestParts
  <2>2. Locked(t, "receivables") = Allocated(p)
    BY <1>0, <1>2, <2>1
       DEF Checked, VoidPaymentChecked, VoidPaymentOperation, IfAt
  <2>3. Kept!VoidPayment(p, Allocated(p)) /\ Allocated(p) \in SUBSET Receivables
    BY <1>2, <2>1, <2>2, CommitVoids
  <2> QED BY <2>3, StrictOperations DEF Promised!Next
<1>3. CASE req[t] \in CreditRequest
  <2>1. PICK c \in Credits, r \in Receivables, a \in Amounts :
          c = req[t].credit /\ r = req[t].receivable /\ a = req[t].amount
    BY <1>3, RequestParts
  <2>2. Kept!ApplyCredit(c, r, a)
    BY <1>3, <2>1, CommitCredits
  <2>3. a <= Remaining(db.credit_balances[c]) /\ Payable(r, a)
    BY <1>0, <1>3, <2>1 DEF Checked, CreditChecked
  <2>4. Promised!ApplyCredit(c, r, a)
    BY <2>2, <2>3, StrictOperations
  <2> QED BY <2>4 DEF Promised!Next
<1>4. CASE req[t] \in IssueBillRequest
  <2>1. PICK b \in Bills : b = req[t].bill
    BY <1>4, RequestParts
  <2>2. Kept!IssueBill(b)
    BY <1>4, <2>1, CommitBills
  <2>3. Promised!IssueBill(b)
    BY <2>2, PromisedTables DEF Kept!IssueBill, Promised!IssueBill
  <2> QED BY <2>3 DEF Promised!Next
<1>5. CASE req[t] \in VoidBillRequest
  <2>1. PICK b \in Bills : b = req[t].bill
    BY <1>5, RequestParts
  <2>2. /\ Kept!VoidBill(b)
        /\ \/ db.lease_bills[b].status = "draft"
           \/ /\ db.receivables[b].status = "open"
              /\ db'.receivables = [db.receivables EXCEPT ![b].status = "voided"]
    BY <1>0, <1>5, <2>1, CommitBills DEF Checked, VoidBillChecked
  <2>3. Promised!VoidBill(b)
    BY <2>2, StrictOperations
  <2> QED BY <2>3 DEF Promised!Next
<1> QED BY <1>0, <1>1, <1>2, <1>3, <1>4, <1>5 DEF Request

\* So is a handler of one write, which checks the row it replaces.
LEMMA SingleWritePromised ==
  ASSUME TypeOK, SingleWrite
  PROVE  Promised!Next
<1>1. ASSUME NEW r \in Receivables \ Bills, NEW a \in Amounts,
             Kept!CreateReceivable(r, a)
      PROVE  Promised!CreateReceivable(r, a)
  BY <1>1, PromisedTables DEF Kept!CreateReceivable, Promised!CreateReceivable
<1>2. ASSUME NEW p \in Payments, NEW a \in Amounts, Kept!CreatePayment(p, a)
      PROVE  Promised!CreatePayment(p, a)
  BY <1>2, PromisedTables DEF Kept!CreatePayment, Promised!CreatePayment
<1>3. ASSUME NEW p \in Payments, Kept!PostPayment(p)
      PROVE  Promised!PostPayment(p)
  BY <1>3 DEF Kept!PostPayment, Promised!PostPayment
<1> QED BY <1>1, <1>2, <1>3, SingleWriteOperation DEF Promised!Next

\* No other step changes a committed table.
LEMMA NextPromised ==
  ASSUME TypeOK, TypeOK', AllocationsMatchLocks, LocksAreOperations,
         ChecksHold, [Next]_vars
  PROVE  Promised!Next \/ db' = db
<1>1. ASSUME NEW t \in Tx, Start(t) PROVE db' = db
  BY <1>1, StartKinds DEF storage
<1>2. ASSUME NEW t \in Tx, Step(t), ~Commit(t) PROVE db' = db
  BY <1>2
     DEF Step, AllocateGetReceivable, CreatePaymentAllocation,
         AllocateUpdatePaid, UpdatePaymentUnapplied, VoidListAllocations,
         VoidReverse, VoidPaymentRow, CreditGetReceivable, CreditUse,
         CreditUpdateCredited, IssueCreateReceivable, VoidBillGetReceivable,
         VoidReceivable, VoidBillRow, Rollback, RollbackTx, Write, storage
<1>3. CASE UNCHANGED vars
  BY <1>3 DEF vars
<1> QED BY <1>1, <1>2, <1>3, CommitPromised, SingleWritePromised DEF Next

\* No request has begun.
LEMMA InitChecks == Init => ChecksHold /\ Promised!Init
<1> SUFFICES ASSUME Init PROVE ChecksHold /\ Promised!Init
  OBVIOUS
<1>1. \A t \in Tx : req[t] \notin Request
  BY NilIsNothing DEF Init
<1>2. ChecksHold
  BY <1>1 DEF ChecksHold, Checked, AllocateChecked, VoidPaymentChecked,
              CreditChecked, VoidBillChecked, Request
<1>3. {Promised!NewBill(a) : a \in Amounts} = {Kept!NewBill(a) : a \in Amounts}
  BY PromisedTables
<1>4. Promised!Init
  BY <1>3, InitKept, PromisedTables DEF Kept!Init, Promised!Init
<1> QED BY <1>2, <1>4

\* While one request is handled at a time, no handler commits what its checks
\* no longer allow.
THEOREM ChecksStand == Spec /\ []OneRunning => []ChecksHold
<1>1. Init => ChecksHold
  BY InitChecks
<1>2. TypeOK /\ TypeOK' /\ AllocationsMatchLocks /\ LocksAreOperations
        /\ OneRunning /\ OneRunning' /\ ChecksHold /\ [Next]_vars
        => ChecksHold'
  BY NextChecks
<1> QED BY <1>1, <1>2, TypeCorrect, LocksMatch, LocksMakeOperations, PTL
        DEF Spec

\* While one request is handled at a time, the committed finance tables change
\* by whole operations whose checks hold at the moment they take effect,
\* whatever statement a failure cuts short.
THEOREM PromiseIsKept == Spec /\ []OneRunning => KeepsThePromise
<1>1. Init => Promised!Init
  BY InitChecks
<1>2. TypeOK /\ TypeOK' /\ AllocationsMatchLocks /\ LocksAreOperations
        /\ ChecksHold /\ [Next]_vars => [Promised!Next]_(Promised!ledger)
  <2>1. db' = db => UNCHANGED Promised!ledger
    BY DEF Promised!ledger
  <2> QED BY <2>1, NextPromised
<1> QED BY <1>1, <1>2, TypeCorrect, LocksMatch, LocksMakeOperations,
           ChecksStand, PTL DEF Spec, KeepsThePromise, Promised!Spec

-----------------------------------------------------------------------------
(***************************************************************************)
(* What every strict operation of Ledger keeps.                            *)
(***************************************************************************)

\* The rows of the tables, field by field.
LEMMA RowFields ==
  ASSUME TypeOK
  PROVE  /\ db.receivables \in [Receivables -> ReceivableRow]
         /\ db.payments \in [Payments -> PaymentRow]
         /\ db.allocations \in [Payments \X Receivables -> Nat]
         /\ db.credit_balances \in [Credits -> CreditRow]
         /\ db.lease_bills \in [Bills -> BillRow]
         /\ Bills \subseteq Receivables /\ Amounts \subseteq Nat \ {0}
         /\ \A r \in Receivables :
              /\ db.receivables[r].original \in Nat
              /\ db.receivables[r].paid \in Int
              /\ db.receivables[r].credited \in Nat
         /\ \A p \in Payments : db.payments[p].unapplied \in Int
         /\ \A c \in Credits : /\ db.credit_balances[c].total \in Nat
                               /\ db.credit_balances[c].used \in Nat
         /\ \A p \in Payments, r \in Receivables :
              db.allocations[<<p, r>>] \in Nat
         /\ \A b \in Bills : db.lease_bills[b].billed \in Amounts
BY TablesAssumption
   DEF TypeOK, Tables, ReceivableRow, PaymentRow, CreditRow, BillRow

\* No payment gives out more than it has.
LEMMA PaymentsLast ==
  ASSUME TypeOK, PaymentNotOverApplied, Promised!Next
  PROVE  PaymentNotOverApplied'
<1> SUFFICES ASSUME NEW q \in Payments PROVE db'.payments[q].unapplied >= 0
  BY DEF PaymentNotOverApplied
<1>0. /\ db.payments \in [Payments -> PaymentRow]
      /\ db.payments[q].unapplied >= 0 /\ db.payments[q].unapplied \in Int
      /\ Amounts \subseteq Nat \ {0}
  BY RowFields DEF PaymentNotOverApplied
<1>1. CASE \E p \in Payments, a \in Amounts : Promised!CreatePayment(p, a)
  <2>1. PICK p \in Payments, a \in Amounts : Promised!CreatePayment(p, a)
    BY <1>1
  <2>2. db'.payments = [db.payments EXCEPT ![p] = NewPayment(a)]
    BY <2>1, KeptTables, PromisedTables DEF Promised!CreatePayment
  <2> QED BY <1>0, <2>2 DEF NewPayment
<1>2. CASE \E p \in Payments : Promised!PostPayment(p)
  BY <1>0, <1>2 DEF Promised!PostPayment, PaymentRow
<1>3. CASE \E p \in Payments, lines \in Promised!Lines :
             Promised!Allocate(p, lines)
  <2>1. PICK p \in Payments, lines \in Lines : Promised!Allocate(p, lines)
    BY <1>3, KeptTables, PromisedTables
  <2>2. /\ Total(lines, Receivables) <= db.payments[p].unapplied
        /\ db'.payments = [db.payments EXCEPT ![p].unapplied =
                                        @ - Total(lines, Receivables)]
        /\ Total(lines, Receivables) \in Nat /\ db.payments[p].unapplied \in Int
    BY <2>1, KeptTables, PromisedTables, LinesTotalType, RowFields
       DEF Promised!Allocate
  <2>3. CASE p = q
    <3>1. db'.payments[q].unapplied =
            db.payments[q].unapplied - Total(lines, Receivables)
      BY <1>0, <2>2, <2>3 DEF PaymentRow
    <3> QED BY <2>2, <2>3, <3>1
  <2>4. CASE p # q
    BY <1>0, <2>2, <2>4
  <2> QED BY <2>3, <2>4
<1>4. CASE \E p \in Payments, reversed \in SUBSET Receivables :
             Promised!VoidPayment(p, reversed)
  BY <1>0, <1>4 DEF Promised!VoidPayment, PaymentRow
<1>5. CASE db'.payments = db.payments
  BY <1>0, <1>5
<1> QED BY <1>1, <1>2, <1>3, <1>4, <1>5
        DEF Promised!Next, Promised!CreateReceivable, Promised!ApplyCredit,
            Promised!IssueBill, Promised!VoidBill

\* No credit balance is used beyond its amount.
LEMMA CreditsLast ==
  ASSUME TypeOK, CreditNotOverdrawn, Promised!Next
  PROVE  CreditNotOverdrawn'
<1> SUFFICES ASSUME NEW d \in Credits
             PROVE  Remaining(db'.credit_balances[d]) >= 0
  BY DEF CreditNotOverdrawn, Remaining
<1>0. /\ db.credit_balances \in [Credits -> CreditRow]
      /\ Remaining(db.credit_balances[d]) >= 0
  BY RowFields DEF CreditNotOverdrawn
<1>1. CASE \E c \in Credits, r \in Receivables, a \in Amounts :
             Promised!ApplyCredit(c, r, a)
  <2>1. PICK c \in Credits, r \in Receivables, a \in Amounts :
          Promised!ApplyCredit(c, r, a)
    BY <1>1
  <2> DEFINE row == db.credit_balances[c]
  <2>2. /\ a <= Remaining(row)
        /\ db'.credit_balances =
             [db.credit_balances EXCEPT ![c] = ApplyCreditBalance(row, a)]
        /\ row.total \in Nat /\ row.used \in Nat /\ a \in Nat
    BY <2>1, KeptTables, PromisedTables, RowFields DEF Promised!ApplyCredit
  <2>3. Remaining(ApplyCreditBalance(row, a)) >= 0
    BY <2>2 DEF ApplyCreditBalance, Remaining
  <2> QED BY <1>0, <2>2, <2>3
<1>2. CASE db'.credit_balances = db.credit_balances
  BY <1>0, <1>2
<1> QED BY <1>1, <1>2
        DEF Promised!Next, Promised!CreateReceivable, Promised!CreatePayment,
            Promised!PostPayment, Promised!Allocate, Promised!VoidPayment,
            Promised!IssueBill, Promised!VoidBill

\* What the strict operations that move money make of one receivable.
LEMMA MoneyMoves ==
  ASSUME TypeOK, NEW r \in Receivables,
         \/ \E p \in Payments, lines \in Promised!Lines :
              Promised!Allocate(p, lines)
         \/ \E p \in Payments, reversed \in SUBSET Receivables :
              Promised!VoidPayment(p, reversed)
         \/ \E c \in Credits, s \in Receivables, a \in Amounts :
              Promised!ApplyCredit(c, s, a)
  PROVE  LET row == db.receivables[r]
             new == db'.receivables[r]
         IN \/ new = row
            \/ \E n \in Nat : Payable(r, n)
                 /\ \/ new = UpdateReceivablePaidAmount(row, n)
                    \/ new = UpdateReceivableCreditedAmount(row, n)
            \/ \E p \in Live : db.allocations[<<p, r>>] > 0
                 /\ new = UpdateReceivablePaidAmount(row,
                            -db.allocations[<<p, r>>])
<1>0. /\ db.receivables \in [Receivables -> ReceivableRow]
      /\ Amounts \subseteq Nat \ {0}
  BY RowFields
<1>1. CASE \E p \in Payments, lines \in Promised!Lines :
             Promised!Allocate(p, lines)
  <2>1. PICK p \in Payments, lines \in Lines : Promised!Allocate(p, lines)
    BY <1>1, KeptTables, PromisedTables
  <2>2. /\ r \in Rows(lines) =>
             /\ Payable(r, lines[r])
             /\ db'.receivables[r] =
                  UpdateReceivablePaidAmount(db.receivables[r], lines[r])
        /\ r \notin Rows(lines) => db'.receivables[r] = db.receivables[r]
        /\ lines[r] \in Nat
    BY <2>1, KeptTables, PromisedTables, LinesTotalType
       DEF Promised!Allocate, Payable
  <2> QED BY <2>2
<1>2. CASE \E p \in Payments, reversed \in SUBSET Receivables :
             Promised!VoidPayment(p, reversed)
  <2>1. PICK p \in Payments, reversed \in SUBSET Receivables :
          Promised!VoidPayment(p, reversed)
    BY <1>2
  <2>2. /\ p \in Live
        /\ r \in reversed => db.allocations[<<p, r>>] > 0
        /\ db'.receivables[r] =
             IF r \in reversed
               THEN UpdateReceivablePaidAmount(db.receivables[r],
                                               -db.allocations[<<p, r>>])
               ELSE db.receivables[r]
    BY <2>1, KeptTables, PromisedTables DEF Promised!VoidPayment, Live
  <2> QED BY <2>2
<1>3. CASE \E c \in Credits, s \in Receivables, a \in Amounts :
             Promised!ApplyCredit(c, s, a)
  <2>1. PICK c \in Credits, s \in Receivables, a \in Amounts :
          Promised!ApplyCredit(c, s, a)
    BY <1>3
  <2>2. /\ Payable(s, a) /\ a \in Nat
        /\ db'.receivables = [db.receivables EXCEPT ![s] =
             UpdateReceivableCreditedAmount(db.receivables[s], a)]
    BY <1>0, <2>1, KeptTables, PromisedTables DEF Promised!ApplyCredit, Payable
  <2> QED BY <1>0, <2>2
<1> QED BY <1>1, <1>2, <1>3

\* What one strict operation makes of one receivable.
LEMMA StrictReceivable ==
  ASSUME TypeOK, Promised!Next, NEW r \in Receivables
  PROVE  LET row == db.receivables[r]
             new == db'.receivables[r]
         IN \/ new = row
            \/ row.status = "none" /\ \E a \in Amounts : new = NewReceivable(a)
            \/ \E n \in Nat : Payable(r, n)
                 /\ \/ new = UpdateReceivablePaidAmount(row, n)
                    \/ new = UpdateReceivableCreditedAmount(row, n)
            \/ \E p \in Live : db.allocations[<<p, r>>] > 0
                 /\ new = UpdateReceivablePaidAmount(row,
                            -db.allocations[<<p, r>>])
            \/ row.status = "open" /\ new = [row EXCEPT !.status = "voided"]
<1>0. /\ db.receivables \in [Receivables -> ReceivableRow]
      /\ Bills \subseteq Receivables /\ Amounts \subseteq Nat \ {0}
  BY RowFields
<1>1. CASE \E s \in Receivables \ Bills, a \in Amounts :
             Promised!CreateReceivable(s, a)
  BY <1>0, <1>1, KeptTables, PromisedTables DEF Promised!CreateReceivable
<1>2. CASE \E b \in Bills : Promised!IssueBill(b)
  <2>1. PICK b \in Bills : Promised!IssueBill(b)
    BY <1>2
  <2>2. /\ db.receivables[b].status = "none"
        /\ db'.receivables = [db.receivables EXCEPT ![b] =
                                NewReceivable(db.lease_bills[b].billed)]
        /\ db.lease_bills[b].billed \in Amounts
    BY <2>1, KeptTables, PromisedTables, RowFields DEF Promised!IssueBill
  <2> QED BY <1>0, <2>2
<1>3. CASE \E b \in Bills : Promised!VoidBill(b)
  BY <1>0, <1>3 DEF Promised!VoidBill
<1>4. CASE db'.receivables = db.receivables
  BY <1>4
<1> QED BY <1>1, <1>2, <1>3, <1>4, MoneyMoves
        DEF Promised!Next, Promised!CreatePayment, Promised!PostPayment

\* No receivable is paid and credited more than it asks for.
LEMMA ReceivablesLast ==
  ASSUME TypeOK, ReceivableNotOverpaid, Promised!Next
  PROVE  ReceivableNotOverpaid'
<1> SUFFICES ASSUME NEW r \in Receivables
             PROVE  Outstanding(db'.receivables[r]) >= 0
  BY DEF ReceivableNotOverpaid, Outstanding
<1> DEFINE row == db.receivables[r]
           new == db'.receivables[r]
<1>0. /\ row \in ReceivableRow /\ Outstanding(row) >= 0
      /\ row.original \in Nat /\ row.paid \in Int /\ row.credited \in Nat
      /\ Amounts \subseteq Nat \ {0}
  BY RowFields DEF ReceivableNotOverpaid
<1>1. CASE \E a \in Amounts : new = NewReceivable(a)
  BY <1>0, <1>1 DEF NewReceivable, Outstanding
<1>2. CASE \E n \in Nat : Payable(r, n)
             /\ \/ new = UpdateReceivablePaidAmount(row, n)
                \/ new = UpdateReceivableCreditedAmount(row, n)
  <2>1. PICK n \in Nat :
          /\ n <= Outstanding(row)
          /\ \/ new = UpdateReceivablePaidAmount(row, n)
             \/ new = UpdateReceivableCreditedAmount(row, n)
    BY <1>2 DEF Payable
  <2> HIDE DEF row, new
  <2>2. Outstanding(new) = Outstanding(row) - n
    BY <1>0, <2>1 DEF UpdateReceivablePaidAmount,
                      UpdateReceivableCreditedAmount, Outstanding
  <2>3. Outstanding(row) \in Int
    BY <1>0 DEF Outstanding
  <2> QED BY <2>1, <2>2, <2>3 DEF new
<1>3. CASE \E p \in Live :
             new = UpdateReceivablePaidAmount(row, -db.allocations[<<p, r>>])
  <2>1. PICK p \in Live :
          new = UpdateReceivablePaidAmount(row, -db.allocations[<<p, r>>])
    BY <1>3
  <2>2. db.allocations[<<p, r>>] \in Nat
    BY RowFields DEF Live
  <2>3. new.original = row.original /\ new.credited = row.credited
        /\ new.paid = row.paid + (-db.allocations[<<p, r>>])
    BY <2>1 DEF UpdateReceivablePaidAmount
  <2> QED BY <1>0, <2>2, <2>3 DEF Outstanding
<1>4. CASE new = row \/ new = [row EXCEPT !.status = "voided"]
  <2>1. /\ new.original = row.original /\ new.paid = row.paid
        /\ new.credited = row.credited
    BY <1>0, <1>4 DEF ReceivableRow
  <2> QED BY <1>0, <2>1 DEF Outstanding
<1> QED BY <1>1, <1>2, <1>3, <1>4, StrictReceivable

\* A total in which one amount changes.
LEMMA TotalChanged ==
  ASSUME NEW S, IsFiniteSet(S), NEW f, NEW g, NEW p \in S,
         \A x \in S : f[x] \in Nat /\ g[x] \in Nat,
         \A x \in S \ {p} : g[x] = f[x]
  PROVE  Total(g, S) - g[p] = Total(f, S) - f[p]
<1>1. Total(f, S) = Total(f, S \ {p}) + f[p]
  BY TotalWithout
<1>2. Total(g, S) = Total(g, S \ {p}) + g[p]
  BY TotalWithout
<1>3. Total(g, S \ {p}) = Total(f, S \ {p})
  BY TotalEqual
<1>4. IsFiniteSet(S \ {p})
  BY FS_Subset
<1>5. Total(f, S \ {p}) \in Nat
  BY <1>4, TotalType
<1> QED BY <1>1, <1>2, <1>3, <1>5

\* A receivable whose allocations stay as they are, of the same payments.
LEMMA SamePaid ==
  ASSUME PaidIsAllocated, NEW r \in Receivables,
         db'.allocations = db.allocations, Live' = Live,
         db'.receivables[r].paid = db.receivables[r].paid
  PROVE  db'.receivables[r].paid = Total(AllocationsTo(r), Live)'
<1>1. AllocationsTo(r)' = AllocationsTo(r)
  BY DEF AllocationsTo
<1>2. Total(AllocationsTo(r), Live)' = Total(AllocationsTo(r), Live)
  BY <1>1 DEF Total, Cents
<1> QED BY <1>2 DEF PaidIsAllocated

\* A payment pays a receivable what it allocates to it.
LEMMA AllocatedPaid ==
  ASSUME TypeOK, TypeOK', PaidIsAllocated, NEW r \in Receivables,
         NEW q \in Payments, NEW lines \in Lines, Promised!Allocate(q, lines)
  PROVE  db'.receivables[r].paid = Total(AllocationsTo(r), Live)'
<1>1. /\ db.payments[q].status = "posted"
      /\ db'.payments = [db.payments EXCEPT ![q].unapplied =
                                   @ - Total(lines, Receivables)]
      /\ db'.allocations = [pr \in DOMAIN db.allocations |->
                              IF pr[1] = q
                                THEN db.allocations[pr] + lines[pr[2]]
                                ELSE db.allocations[pr]]
      /\ db'.receivables[r] =
           IF r \in Rows(lines)
             THEN UpdateReceivablePaidAmount(db.receivables[r], lines[r])
             ELSE db.receivables[r]
  BY KeptTables, PromisedTables DEF Promised!Allocate
<1>2. lines[r] \in Nat
  BY LinesTotalType
<1>3. q \in Live /\ Live' = Live
  <2>1. \A p \in Payments : db'.payments[p].status = db.payments[p].status
    BY <1>1, RowFields DEF PaymentRow
  <2> QED BY <1>1, <2>1, SameLive DEF Live
<1>4. db'.receivables[r].paid = db.receivables[r].paid + lines[r]
  <2>1. r \notin Rows(lines) => lines[r] = 0
    BY <1>2 DEF Rows
  <2> QED BY <1>1, <1>2, <2>1, RowFields DEF UpdateReceivablePaidAmount
<1> DEFINE f == AllocationsTo(r)
           g == AllocationsTo(r)'
<1>5. /\ \A p \in Payments : f[p] \in Nat /\ g[p] \in Nat
      /\ \A p \in Payments \ {q} : g[p] = f[p]
      /\ g[q] = f[q] + lines[r]
  <2>1. \A p \in Payments : <<p, r>> \in DOMAIN db.allocations
    BY RowFields
  <2>2. \A p \in Payments : f[p] = db.allocations[<<p, r>>]
                            /\ g[p] = db'.allocations[<<p, r>>]
    BY DEF AllocationsTo
  <2>3. \A p \in Payments : f[p] \in Nat
    BY <2>2, RowFields
  <2>4. \A p \in Payments : db'.allocations[<<p, r>>] =
          IF p = q THEN db.allocations[<<p, r>>] + lines[r]
                   ELSE db.allocations[<<p, r>>]
    BY <1>1, <2>1
  <2> HIDE DEF f, g
  <2>5. \A p \in Payments : g[p] = IF p = q THEN f[p] + lines[r] ELSE f[p]
    BY <2>2, <2>4
  <2> QED BY <1>2, <2>3, <2>5
<1>6. Total(AllocationsTo(r), Live)' = Total(g, Live)
  BY <1>3 DEF Total, Cents
<1>7. db.receivables[r].paid = Total(f, Live)
  BY DEF PaidIsAllocated
<1> HIDE DEF f, g
<1>8. /\ IsFiniteSet(Live)
      /\ \A p \in Live : f[p] \in Nat /\ g[p] \in Nat
      /\ \A p \in Live \ {q} : g[p] = f[p]
  BY <1>5, PaymentsFinite
<1>9. Total(g, Live) - g[q] = Total(f, Live) - f[q]
  BY <1>3, <1>8, TotalChanged
<1>10. /\ Total(g, Live) \in Nat /\ Total(f, Live) \in Nat
       /\ f[q] \in Nat /\ g[q] \in Nat
  BY <1>3, <1>8, TotalType
<1> QED BY <1>2, <1>4, <1>5, <1>6, <1>7, <1>9, <1>10

\* A voided payment takes back what it had allocated.
LEMMA VoidedPaid ==
  ASSUME TypeOK, PaidIsAllocated, NEW r \in Receivables, NEW q \in Payments,
         NEW reversed, Promised!VoidPayment(q, reversed)
  PROVE  db'.receivables[r].paid = Total(AllocationsTo(r), Live)'
<1>1. /\ db.payments[q].status = "posted"
      /\ db'.payments = [db.payments EXCEPT ![q].status = "voided"]
      /\ db'.allocations = db.allocations
      /\ db'.receivables[r] =
           IF db.allocations[<<q, r>>] > 0
             THEN UpdateReceivablePaidAmount(db.receivables[r],
                                             -db.allocations[<<q, r>>])
             ELSE db.receivables[r]
  BY KeptTables, PromisedTables DEF Promised!VoidPayment
<1>2. q \in Live /\ Live' = Live \ {q}
  BY <1>1, RowFields DEF Live, PaymentRow
<1>3. /\ db.allocations[<<q, r>>] \in Nat /\ db.receivables[r].paid \in Int
      /\ db'.receivables[r].paid =
           db.receivables[r].paid - db.allocations[<<q, r>>]
  <2>1. db.allocations[<<q, r>>] \in Nat /\ db.receivables[r].paid \in Int
    BY RowFields
  <2>2. db.allocations[<<q, r>>] > 0 =>
          db'.receivables[r].paid =
            db.receivables[r].paid + (-db.allocations[<<q, r>>])
    BY <1>1 DEF UpdateReceivablePaidAmount
  <2>3. ~ (db.allocations[<<q, r>>] > 0) =>
          db'.receivables[r].paid = db.receivables[r].paid
    BY <1>1
  <2> QED BY <2>1, <2>2, <2>3
<1>4. AllocationsTo(r)' = AllocationsTo(r)
  BY <1>1 DEF AllocationsTo
<1>5. Total(AllocationsTo(r), Live)' = Total(AllocationsTo(r), Live \ {q})
  BY <1>2, <1>4 DEF Total, Cents
<1>6. /\ Total(AllocationsTo(r), Live) =
           Total(AllocationsTo(r), Live \ {q}) + db.allocations[<<q, r>>]
      /\ Total(AllocationsTo(r), Live \ {q}) \in Nat
  BY <1>2, AllocationTotals, PaymentsFinite
<1> QED BY <1>3, <1>5, <1>6 DEF PaidIsAllocated

\* A receivable's paid_amount stays what is allocated to it.
LEMMA PaidStays ==
  ASSUME TypeOK, TypeOK', PaidIsBounded, PaidIsAllocated, Promised!Next
  PROVE  PaidIsAllocated'
<1> SUFFICES ASSUME NEW r \in Receivables
             PROVE  db'.receivables[r].paid = Total(AllocationsTo(r), Live)'
  BY Zenon DEF PaidIsAllocated
<1>0. /\ db.receivables \in [Receivables -> ReceivableRow]
      /\ db.payments \in [Payments -> PaymentRow]
      /\ Bills \subseteq Receivables
      /\ \A s \in Receivables : db.receivables[s].status = "none"
                                  => db.receivables[s].paid = 0
  BY RowFields DEF PaidIsBounded, NoReceivable
<1>1. CASE \E q \in Payments, lines \in Promised!Lines :
             Promised!Allocate(q, lines)
  BY <1>1, KeptTables, PromisedTables, AllocatedPaid
<1>2. CASE \E q \in Payments, reversed \in SUBSET Receivables :
             Promised!VoidPayment(q, reversed)
  BY <1>2, VoidedPaid
<1>3. ASSUME db'.allocations = db.allocations,
             \/ db'.payments = db.payments
             \/ \E p \in Payments, row \in PaymentRow :
                  /\ db.payments[p].status # "voided"
                  /\ row.status # "voided"
                  /\ db'.payments = [db.payments EXCEPT ![p] = row],
             db'.receivables[r].paid = db.receivables[r].paid
      PROVE  db'.receivables[r].paid = Total(AllocationsTo(r), Live)'
  <2>1. \A p \in Payments : db'.payments[p].status = "voided"
                              <=> db.payments[p].status = "voided"
    BY <1>0, <1>3
  <2> QED BY <1>3, <2>1, SameLive, SamePaid
<1>4. CASE \E p \in Payments, a \in Amounts : Promised!CreatePayment(p, a)
  <2>1. PICK p \in Payments, a \in Amounts : Promised!CreatePayment(p, a)
    BY <1>4
  <2>2. /\ db'.payments = [db.payments EXCEPT ![p] = NewPayment(a)]
        /\ db.payments[p].status # "voided"
        /\ db'.allocations = db.allocations
        /\ db'.receivables = db.receivables
    BY <2>1, KeptTables, PromisedTables DEF Promised!CreatePayment
  <2>3. NewPayment(a) \in PaymentRow /\ NewPayment(a).status # "voided"
    BY RowFields DEF NewPayment, PaymentRow
  <2> QED BY <1>3, <2>2, <2>3
<1>5. CASE \E p \in Payments : Promised!PostPayment(p)
  <2>1. PICK p \in Payments : Promised!PostPayment(p)
    BY <1>5
  <2> DEFINE row == [db.payments[p] EXCEPT !.status = "posted"]
  <2>2. /\ db'.payments = [db.payments EXCEPT ![p] = row]
        /\ db.payments[p].status # "voided"
        /\ db'.allocations = db.allocations
        /\ db'.receivables = db.receivables
    BY <2>1 DEF Promised!PostPayment
  <2>3. row \in PaymentRow /\ row.status # "voided"
    BY <1>0 DEF PaymentRow
  <2> HIDE DEF row
  <2> QED BY <1>3, <2>2, <2>3
<1>6. CASE \/ \E s \in Receivables \ Bills, a \in Amounts :
                Promised!CreateReceivable(s, a)
           \/ \E b \in Bills : Promised!IssueBill(b)
  <2>1. ASSUME NEW s \in Receivables, NEW a, db.receivables[s].status = "none",
               db'.receivables = [db.receivables EXCEPT ![s] = NewReceivable(a)]
        PROVE  db'.receivables[r].paid = db.receivables[r].paid
    BY <1>0, <2>1 DEF NewReceivable
  <2>2. CASE \E s \in Receivables \ Bills, a \in Amounts :
               Promised!CreateReceivable(s, a)
    <3>1. PICK s \in Receivables \ Bills, a \in Amounts :
            Promised!CreateReceivable(s, a)
      BY <2>2
    <3> QED BY <1>3, <2>1, <3>1, KeptTables, PromisedTables
            DEF Promised!CreateReceivable
  <2>3. CASE \E b \in Bills : Promised!IssueBill(b)
    <3>1. PICK b \in Bills : Promised!IssueBill(b)
      BY <2>3
    <3> QED BY <1>0, <1>3, <2>1, <3>1, KeptTables, PromisedTables
            DEF Promised!IssueBill
  <2> QED BY <1>6, <2>2, <2>3
<1>7. CASE \E c \in Credits, s \in Receivables, a \in Amounts :
             Promised!ApplyCredit(c, s, a)
  <2>1. /\ db'.allocations = db.allocations /\ db'.payments = db.payments
        /\ \E s \in Receivables : \E a : db'.receivables =
             [db.receivables EXCEPT
                ![s] = UpdateReceivableCreditedAmount(db.receivables[s], a)]
    BY <1>0, <1>7, KeptTables, PromisedTables DEF Promised!ApplyCredit
  <2>2. db'.receivables[r].paid = db.receivables[r].paid
    BY <1>0, <2>1 DEF UpdateReceivableCreditedAmount
  <2> QED BY <1>3, <2>1, <2>2
<1>8. CASE \E b \in Bills : Promised!VoidBill(b)
  <2>1. PICK b \in Bills : Promised!VoidBill(b)
    BY <1>8
  <2>2. /\ db'.allocations = db.allocations /\ db'.payments = db.payments
        /\ \/ db'.receivables = db.receivables
           \/ db'.receivables = [db.receivables EXCEPT ![b].status = "voided"]
    BY <2>1 DEF Promised!VoidBill
  <2>3. db'.receivables[r].paid = db.receivables[r].paid
    BY <1>0, <2>2 DEF ReceivableRow
  <2> QED BY <1>3, <2>2, <2>3
<1> QED BY <1>1, <1>2, <1>4, <1>5, <1>6, <1>7, <1>8 DEF Promised!Next

\* A bill and its receivable stand or fall together.
LEMMA BillsStay ==
  ASSUME TypeOK, StatusMatchesAmounts, PaidIsAllocated, BillAndReceivableAgree,
         Promised!Next
  PROVE  BillAndReceivableAgree'
<1> DEFINE Agree(bill, receivable) ==
             /\ bill = "draft" => receivable = "none"
             /\ bill = "voided" => receivable \in {"none", "voided"}
             /\ bill = "issued" => receivable \notin {"none", "voided"}
<1> SUFFICES ASSUME NEW b \in Bills
             PROVE  Agree(db'.lease_bills[b].status, db'.receivables[b].status)
  BY DEF BillAndReceivableAgree
<1> DEFINE row == db.receivables[b]
           new == db'.receivables[b]
<1>0. /\ db.receivables \in [Receivables -> ReceivableRow]
      /\ db.lease_bills \in [Bills -> BillRow]
      /\ b \in Receivables /\ row \in ReceivableRow
      /\ db.lease_bills[b].status \in {"draft", "issued", "voided"}
      /\ Agree(db.lease_bills[b].status, row.status)
  BY RowFields DEF BillAndReceivableAgree, BillRow
<1>1. CASE \E c \in Bills : Promised!IssueBill(c)
  <2>1. PICK c \in Bills : Promised!IssueBill(c)
    BY <1>1
  <2>2. /\ db'.lease_bills = [db.lease_bills EXCEPT ![c].status = "issued"]
        /\ db'.receivables = [db.receivables EXCEPT ![c] =
                                NewReceivable(db.lease_bills[c].billed)]
    BY <2>1, KeptTables, PromisedTables DEF Promised!IssueBill
  <2> QED BY <1>0, <2>2 DEF NewReceivable, BillRow
<1>2. CASE \E c \in Bills : Promised!VoidBill(c)
  <2>1. PICK c \in Bills : Promised!VoidBill(c)
    BY <1>2
  <2>2. /\ db'.lease_bills = [db.lease_bills EXCEPT ![c].status = "voided"]
        /\ \/ db'.receivables = [db.receivables EXCEPT ![c].status = "voided"]
           \/ db.lease_bills[c].status = "draft"
              /\ db'.receivables = db.receivables
    BY <2>1 DEF Promised!VoidBill
  <2>3. CASE c = b
    BY <1>0, <2>2, <2>3 DEF BillRow, ReceivableRow
  <2>4. CASE c # b
    <3>1. c \in Receivables
      BY RowFields
    <3> QED BY <1>0, <2>2, <2>4, <3>1
  <2> QED BY <2>3, <2>4
<1>3. ASSUME db'.lease_bills = db.lease_bills,
             new = row \/ (row.status \notin {"none", "voided"}
                             /\ new.status \notin {"none", "voided"})
      PROVE  Agree(db'.lease_bills[b].status, new.status)
  BY <1>0, <1>3
<1>4. CASE \E s \in Receivables \ Bills, a \in Amounts :
             Promised!CreateReceivable(s, a)
  BY <1>0, <1>3, <1>4 DEF Promised!CreateReceivable
<1>5. CASE \/ \E p \in Payments, lines \in Promised!Lines :
                Promised!Allocate(p, lines)
           \/ \E p \in Payments, reversed \in SUBSET Receivables :
                Promised!VoidPayment(p, reversed)
           \/ \E c \in Credits, s \in Receivables, a \in Amounts :
                Promised!ApplyCredit(c, s, a)
  <2>1. db'.lease_bills = db.lease_bills
    BY <1>5 DEF Promised!Allocate, Promised!VoidPayment, Promised!ApplyCredit
  <2>2. CASE new = row
    BY <1>3, <2>1, <2>2
  <2>3. CASE \E n \in Nat : Payable(b, n)
               /\ \/ new = UpdateReceivablePaidAmount(row, n)
                  \/ new = UpdateReceivableCreditedAmount(row, n)
    <3>1. /\ row.status \in {"open", "partially_paid"}
          /\ new.status \in {"open", "partially_paid", "paid"}
      BY <2>3 DEF Payable, AcceptsMoney, UpdateReceivablePaidAmount,
                  UpdateReceivableCreditedAmount
    <3> QED BY <1>3, <2>1, <3>1
  <2>4. CASE \E p \in Live : db.allocations[<<p, b>>] > 0
               /\ new = UpdateReceivablePaidAmount(row,
                          -db.allocations[<<p, b>>])
    <3>1. PICK p \in Live : db.allocations[<<p, b>>] > 0
               /\ new = UpdateReceivablePaidAmount(row,
                          -db.allocations[<<p, b>>])
      BY <2>4
    <3>2. /\ Total(AllocationsTo(b), Live) =
               Total(AllocationsTo(b), Live \ {p}) + db.allocations[<<p, b>>]
          /\ Total(AllocationsTo(b), Live \ {p}) \in Nat
          /\ db.allocations[<<p, b>>] \in Nat
      BY <1>0, AllocationTotals, PaymentsFinite
    <3>3. row.paid > 0
      BY <1>0, <3>1, <3>2 DEF PaidIsAllocated
    <3>4. row.status \notin {"none", "voided"}
      BY <1>0, <3>3 DEF StatusMatchesAmounts
    <3>5. new.status \in {"open", "partially_paid", "paid"}
      BY <3>1 DEF UpdateReceivablePaidAmount
    <3> QED BY <1>3, <2>1, <3>4, <3>5
  <2> QED BY <1>0, <1>5, <2>2, <2>3, <2>4, MoneyMoves
<1>6. CASE \/ \E p \in Payments, a \in Amounts : Promised!CreatePayment(p, a)
           \/ \E p \in Payments : Promised!PostPayment(p)
  BY <1>3, <1>6 DEF Promised!CreatePayment, Promised!PostPayment
<1> QED BY <1>1, <1>2, <1>4, <1>5, <1>6 DEF Promised!Next

\* The operations whose checks hold keep the three.
LEMMA ConsistentStays ==
  ASSUME TypeOK, TypeOK', StatusMatchesAmounts, PaidIsBounded, Consistent,
         Promised!Next \/ db' = db
  PROVE  Consistent'
<1>1. CASE Promised!Next
  BY <1>1, PaymentsLast, CreditsLast, ReceivablesLast, PaidStays, BillsStay
     DEF Consistent, NoOverApplication
<1>2. CASE db' = db
  <2>1. Live' = Live
    BY <1>2 DEF Live
  <2>2. PaidIsAllocated'
    BY <1>2, <2>1, SamePaid, Zenon DEF Consistent, PaidIsAllocated
  <2> QED BY <1>2, <2>2
          DEF Consistent, NoOverApplication, PaymentNotOverApplied,
              CreditNotOverdrawn, ReceivableNotOverpaid, BillAndReceivableAgree
<1> QED BY <1>1, <1>2

\* Nothing is spent at first.
LEMMA InitConsistent == Init => Consistent
<1> SUFFICES ASSUME Init PROVE Consistent
  OBVIOUS
<1>1. /\ TypeOK /\ PaidIsBounded
      /\ \A r \in Receivables : db.receivables[r] = NoReceivable
      /\ \A p \in Payments : db.payments[p] = NoPayment
      /\ \A b \in Bills : db.lease_bills[b].status = "draft"
      /\ \A c \in Credits : db.credit_balances[c].used = 0
  <2>1. TypeOK /\ PaidIsBounded
    BY InitTypeOK, InitBounded
  <2>2. PICK totals \in [Credits -> Amounts], billed \in [Bills -> Amounts] :
          db = [receivables |-> [r \in Receivables |-> NoReceivable],
                payments |-> [p \in Payments |-> NoPayment],
                allocations |-> [pr \in Payments \X Receivables |-> 0],
                credit_balances |->
                  [c \in Credits |-> [status |-> "available",
                                      total |-> totals[c], used |-> 0]],
                lease_bills |-> [b \in Bills |-> NewBill(billed[b])]]
    BY DEF Init
  <2>3. /\ db.receivables = [r \in Receivables |-> NoReceivable]
        /\ db.payments = [p \in Payments |-> NoPayment]
        /\ db.credit_balances =
             [c \in Credits |-> [status |-> "available",
                                 total |-> totals[c], used |-> 0]]
        /\ db.lease_bills = [b \in Bills |-> NewBill(billed[b])]
    BY <2>2
  <2> QED BY <2>1, <2>3 DEF NewBill
<1>2. NoOverApplication
  BY <1>1, RowFields
     DEF NoOverApplication, PaymentNotOverApplied, CreditNotOverdrawn,
         ReceivableNotOverpaid, Outstanding, Remaining, NoReceivable, NoPayment
<1>3. PaidIsAllocated
  <2> SUFFICES ASSUME NEW r \in Receivables
               PROVE  db.receivables[r].paid = Total(AllocationsTo(r), Live)
    BY DEF PaidIsAllocated
  <2>1. Total(AllocationsTo(r), Live) \in Nat
    BY <1>1, AllocationTotals, PaymentsFinite
  <2>2. /\ db.receivables[r].paid = 0
        /\ Total(AllocationsTo(r), Live) <= db.receivables[r].paid
    BY <1>1 DEF PaidIsBounded, ReceivablePaidBounds, NoReceivable
  <2> QED BY <2>1, <2>2
<1>4. BillAndReceivableAgree
  BY <1>1, TablesAssumption DEF BillAndReceivableAgree, NoReceivable
<1> QED BY <1>2, <1>3, <1>4 DEF Consistent

\* While one request is handled at a time, no amount is spent twice, a voided
\* payment leaves nothing of it on any receivable, and a bill and its
\* receivable stand or fall together.
THEOREM StaysConsistent == Spec /\ []OneRunning => []Consistent
<1>1. Init => Consistent
  BY InitConsistent
<1>2. TypeOK /\ TypeOK' /\ AllocationsMatchLocks /\ LocksAreOperations
        /\ StatusMatchesAmounts /\ PaidIsBounded /\ ChecksHold /\ Consistent
        /\ [Next]_vars => Consistent'
  BY NextPromised, ConsistentStays
<1> QED BY <1>1, <1>2, TypeCorrect, LocksMatch, LocksMakeOperations,
           StatusAgrees, BoundsStand, ChecksStand, PTL DEF Spec

-----------------------------------------------------------------------------
(***************************************************************************)
(* The workloads of one request at a time.                                 *)
(***************************************************************************)
Running == {t \in Tx : pc[t] # "idle"}

\* As many requests run as the workload has clients.
ClientsBound == /\ IsFiniteSet(Running) /\ Cardinality(Running) <= load.clients
           /\ load.clients \in Nat

\* None run at first.
LEMMA InitClients == MCInit => ClientsBound
<1> SUFFICES ASSUME MCInit PROVE ClientsBound
  OBVIOUS
<1>1. Running = {}
  BY DEF MCInit, Init, Running
<1>2. load.clients \in Nat
  BY DEF MCInit, Loads
<1> QED BY <1>1, <1>2, FS_EmptySet DEF ClientsBound

\* It starts no more requests than it has clients for.
LEMMA NextClients ==
  ASSUME TypeOK, ClientsBound, [MCNext]_<<vars, load>>
  PROVE  ClientsBound' /\ load' = load /\ [Next]_vars
<1>1. [Next]_vars /\ load' = load
  BY DEF MCNext
<1>2. PICK t : \A u \in Tx \ {t} : pc'[u] = pc[u]
  <2>1. CASE \E t \in Tx : Start(t) \/ Step(t)
    BY <2>1, OthersWait
  <2>2. CASE SingleWrite \/ UNCHANGED vars
    BY <2>2 DEF SingleWrite, CreateReceivable, CreatePayment, PostPayment, vars
  <2> QED BY <1>1, <2>1, <2>2 DEF Next
<1>3. Running' \subseteq Running \cup {t}
  BY <1>2 DEF Running
<1>4. IsFiniteSet(Running')
  BY <1>3, FS_AddElement, FS_Subset DEF ClientsBound
<1>5. Cardinality(Running)' <= load'.clients
  <2>1. CASE MCNext
    BY <2>1 DEF MCNext, Within, Running
  <2>2. CASE UNCHANGED <<vars, load>>
    BY <2>2 DEF vars, Running, ClientsBound
  <2> QED BY <2>1, <2>2
<1> QED BY <1>1, <1>4, <1>5 DEF ClientsBound

\* With one client one request runs.
LEMMA OneClient == ClientsBound /\ OneAtATime => OneRunning
BY AtMostOne DEF ClientsBound, OneAtATime, OneRunning, Running

\* A workload of one client runs one request at a time.
THEOREM OneRuns ==
  MCSpec => Spec /\ [](OneAtATime => OneRunning)
                 /\ [][OneAtATime' = OneAtATime]_<<vars, load>>
<1>1. MCInit => Init /\ ClientsBound
  BY InitClients DEF MCInit
<1>2. TypeOK /\ ClientsBound /\ [MCNext]_<<vars, load>> => ClientsBound'
  BY NextClients
<1>3. [MCNext]_<<vars, load>> => [Next]_vars
  BY DEF MCNext
<1>4. [MCNext]_<<vars, load>> => [OneAtATime' = OneAtATime]_<<vars, load>>
  BY DEF MCNext, OneAtATime
<1> QED BY <1>1, <1>2, <1>3, <1>4, OneClient, TypeCorrect, PTL DEF Spec, MCSpec

\* While one request is handled at a time, no amount is spent twice, a voided
\* payment leaves nothing of it on any receivable, and a bill and its
\* receivable stand or fall together.
THEOREM SeriallyStaysConsistent == MCSpec => []SeriallyConsistent
<1>1. [OneAtATime' = OneAtATime]_<<vars, load>> => (OneAtATime <=> OneAtATime')
  BY DEF OneAtATime
<1>2. Consistent => SeriallyConsistent
  BY DEF Consistent, SeriallyConsistent
<1>3. ~OneAtATime => SeriallyConsistent
  BY DEF SeriallyConsistent
<1> QED BY <1>1, <1>2, <1>3, OneRuns, StaysConsistent, PTL

\* While one request is handled at a time, the committed tables change by whole
\* operations whose checks hold at the moment they take effect.
THEOREM SeriallyPromiseIsKept == MCSpec => SeriallyKeepsThePromise
<1>1. [OneAtATime' = OneAtATime]_<<vars, load>> => (OneAtATime <=> OneAtATime')
  BY DEF OneAtATime
<1>2. TypeOK /\ TypeOK' /\ AllocationsMatchLocks /\ LocksAreOperations
        /\ (OneAtATime => ChecksHold) /\ [Next]_vars
        => [UNCHANGED db \/ (OneAtATime => Promised!Next)]_<<vars, load>>
  BY NextPromised
<1> QED BY <1>1, <1>2, OneRuns, ChecksStand, TypeCorrect, LocksMatch,
           LocksMakeOperations, PTL DEF Spec, SeriallyKeepsThePromise

-----------------------------------------------------------------------------
(***************************************************************************)
(* Deadlock.  Each handler locks its rows in the order allocations and     *)
(* credit balances, receivables, payments and bills, except that one with  *)
(* several lines goes back from a receivable to the next allocation.       *)
(***************************************************************************)
\* Statements for which a request waits with the last of its locks.
LastStatement ==
  {"update_unapplied", "void_payment", "create_bill_receivable", "void_bill"}

\* Which row each statement waits for.
LEMMA AwaitedRows ==
  ASSUME NEW t
  PROVE  /\ pc[t] = "create_allocation" =>
              Awaited(t) = {<<"allocations", <<req[t].payment, line[t]>>>>}
         /\ pc[t] = "update_paid" => Awaited(t) = {<<"receivables", line[t]>>}
         /\ pc[t] = "reverse" => Awaited(t) = {<<"receivables", r>> : r \in todo[t]}
         /\ pc[t] = "update_credited" =>
              Awaited(t) = {<<"receivables", req[t].receivable>>}
         /\ pc[t] = "void_receivable" => Awaited(t) = {<<"receivables", req[t].bill>>}
         /\ pc[t] \in {"update_unapplied", "void_payment"} =>
              Awaited(t) = {<<"payments", req[t].payment>>}
         /\ pc[t] = "use_credit" => Awaited(t) = {<<"credit_balances", req[t].credit>>}
         /\ pc[t] \in {"create_bill_receivable", "void_bill"} =>
              Awaited(t) = {<<"lease_bills", req[t].bill>>}
         /\ Awaited(t) # {} =>
              pc[t] \in {"create_allocation", "update_paid", "reverse", "update_credited",
                         "void_receivable", "use_credit"} \cup LastStatement
BY DEF Awaited, LastStatement

\* The payment and the bill are locked last: who has one does not wait.
LEMMA LastLocks ==
  ASSUME TypeOK, AllocationsMatchLocks, LocksAreOperations, NEW t \in Tx,
         Awaited(t) # {}
  PROVE  /\ \A p \in Payments : owner.payments[p] # t
         /\ \A b \in Bills : owner.lease_bills[b] # t
<1>1. pc[t] # "commit"
  BY AwaitedRows DEF LastStatement
<1>2. \A p \in Payments : owner.payments[p] # t
  BY <1>1 DEF AllocationsMatchLocks, PaymentLocks
<1>3. Locked(t, "lease_bills") = {}
  <2>1. Operation(t) /\ "lease_bills" \in DOMAIN owner
    BY DEF LocksAreOperations, TypeOK, Locks
  <2> QED BY <1>1, <2>1 DEF Operation, AllocateOperation, VoidPaymentOperation,
             CreditOperation, IssueBillOperation, VoidBillOperation, IfAt, Request
<1>4. DOMAIN owner["lease_bills"] = Bills
  BY DEF TypeOK, Locks
<1> QED BY <1>2, <1>3, <1>4 DEF Locked

\* A request that has a receivable and waits, but for its last lock, goes
\* through several, and has not come to the others.
LEMMA ReceivableHolders ==
  ASSUME TypeOK, AllocationsMatchLocks, LocksAreOperations, NEW t \in Tx,
         NEW r \in Receivables, owner.receivables[r] = t,
         Awaited(t) # {}, pc[t] \notin LastStatement
  PROVE  /\ SeveralRows(t)
         /\ pc[t] \in {"create_allocation", "update_paid", "reverse"}
         /\ pc[t] # "reverse" => line[t] # r
<1>0. /\ Operation(t) /\ AllocationsPending(t) /\ RequestOK(t)
      /\ DOMAIN owner["receivables"] = Receivables /\ "receivables" \in DOMAIN owner
      /\ todo[t] \subseteq Receivables /\ line[t] \in Receivables \cup {Nil}
      /\ req[t] \in Request \cup {Nil}
  BY DEF LocksAreOperations, AllocationsMatchLocks, TypeOK, Locks
<1>1. r \in Locked(t, "receivables")
  BY <1>0 DEF Locked
<1>2. pc[t] \in {"create_allocation", "update_paid", "reverse", "update_credited",
                 "void_receivable", "use_credit"}
  BY AwaitedRows
<1>3. \E s \in todo[t] \cup ({line[t]} \ {Nil}) :
        /\ s # r
        /\ pc[t] \in {"create_allocation", "update_paid", "reverse"}
        /\ pc[t] # "reverse" => line[t] # r
  <2>1. CASE pc[t] \in {"create_allocation", "update_paid"}
    <3>1. req[t] \in AllocateRequest /\ line[t] \in Receivables /\ line[t] # Nil
      BY <1>0, <2>1, NilIsNothing DEF RequestOK, AllocateStatement
    <3>2. r # line[t]
      BY <1>0, <1>1, <2>1, <3>1 DEF Operation, AllocateOperation, Paid
    <3> QED BY <2>1, <3>1, <3>2
  <2>2. CASE pc[t] = "reverse"
    <3>1. req[t] \in VoidPaymentRequest
      BY <1>0, <2>2 DEF RequestOK, VoidPaymentStatement
    <3>2. r \notin todo[t]
      BY <1>0, <1>1, <3>1 DEF Operation, VoidPaymentOperation, IfAt
    <3>3. todo[t] # {}
      BY <2>2, AwaitedRows
    <3> QED BY <2>2, <3>2, <3>3
  <2>3. CASE pc[t] \in {"update_credited", "use_credit"}
    <3>1. req[t] \in CreditRequest
      BY <1>0, <2>3 DEF RequestOK, CreditStatement
    <3> QED BY <1>0, <1>1, <2>3, <3>1 DEF Operation, CreditOperation, IfAt
  <2>4. CASE pc[t] = "void_receivable"
    <3>1. req[t] \in VoidBillRequest
      BY <1>0, <2>4 DEF RequestOK, VoidBillStatement
    <3> QED BY <1>0, <1>1, <2>4, <3>1 DEF Operation, VoidBillOperation, IfAt
  <2> QED BY <1>2, <2>1, <2>2, <2>3, <2>4
<1>4. PICK s \in todo[t] \cup ({line[t]} \ {Nil}) :
        /\ s # r
        /\ pc[t] \in {"create_allocation", "update_paid", "reverse"}
        /\ pc[t] # "reverse" => line[t] # r
  BY <1>3
<1> DEFINE rows == todo[t] \cup ({line[t]} \ {Nil})
                     \cup {x \in Receivables : owner.receivables[x] = t}
<1>5. IsFiniteSet(rows)
  <2>1. rows \subseteq Receivables
    BY <1>0
  <2> HIDE DEF rows
  <2> QED BY <2>1, FS_Subset, TablesAssumption
<1>6. r \in rows /\ s \in rows
  BY <1>4
<1>7. Cardinality(rows) > 1
  <2> HIDE DEF rows
  <2>1. Cardinality(rows) \in Nat
    BY <1>5, FS_CardinalityType
  <2> QED BY <1>4, <1>5, <1>6, <2>1, AtMostOne
<1> QED BY <1>4, <1>7 DEF SeveralRows

\* Who has an allocation and not yet the receivable waits for that.
LEMMA AllocationHolders ==
  ASSUME TypeOK, AllocationsMatchLocks, LocksAreOperations, NEW t \in Tx,
         NEW p \in Payments, NEW r \in Receivables, owner.allocations[<<p, r>>] = t
  PROVE  \/ owner.receivables[r] = t
         \/ pc[t] = "update_paid" /\ line[t] = r
<1>0. /\ Operation(t) /\ AllocationsPending(t)
      /\ DOMAIN owner["receivables"] = Receivables
  BY DEF LocksAreOperations, AllocationsMatchLocks, TypeOK, Locks
<1>1. req[t] \in AllocateRequest /\ Inserted(t, r)
  BY DEF AllocationsMatchLocks, AllocationLocks
<1>2. Paid(t, r) <=> r \in Locked(t, "receivables")
  BY <1>0, <1>1 DEF Operation, AllocateOperation
<1>3. Paid(t, r) \/ (pc[t] = "update_paid" /\ line[t] = r)
  BY <1>1 DEF Inserted, Paid
<1> QED BY <1>0, <1>2, <1>3 DEF Locked

\* Who has a credit balance and waits, waits for a receivable.
LEMMA CreditHolders ==
  ASSUME TypeOK, LocksAreOperations, NEW t \in Tx, Awaited(t) # {},
         NEW c \in Credits, owner.credit_balances[c] = t
  PROVE  pc[t] = "update_credited" /\ req[t].receivable \in Receivables
<1>1. Operation(t) /\ "credit_balances" \in DOMAIN owner
      /\ DOMAIN owner["credit_balances"] = Credits /\ req[t] \in Request \cup {Nil}
  BY DEF LocksAreOperations, TypeOK, Locks
<1>2. c \in Locked(t, "credit_balances")
  BY <1>1 DEF Locked
<1>3. req[t] \in CreditRequest
  BY <1>1, <1>2 DEF Operation, AllocateOperation, VoidPaymentOperation,
     IssueBillOperation, VoidBillOperation, Request
<1>4. pc[t] \in {"update_credited", "commit"}
  BY <1>1, <1>2, <1>3 DEF Operation, CreditOperation, IfAt
<1>5. pc[t] # "commit"
  BY AwaitedRows DEF LastStatement
<1> QED BY <1>3, <1>4, <1>5, RequestParts

\* A request waits for an allocation, a credit balance or a receivable, if who
\* has the row waits too; and then for a receivable of which line.
LEMMA WaitsFor ==
  ASSUME TypeOK, AllocationsMatchLocks, LocksAreOperations, NEW t \in Tx, NEW u \in Tx,
         Blocks(u, t), Awaited(u) # {}
  PROVE  /\ pc[t] \notin LastStatement
         /\ \/ \E r \in Receivables : owner.receivables[r] = u
            \/ \E c \in Credits :
                 pc[t] = "use_credit" /\ owner.credit_balances[c] = u
            \/ \E p \in Payments :
                 /\ pc[t] = "create_allocation" /\ line[t] \in Receivables
                 /\ owner.allocations[<<p, line[t]>>] = u
<1>0. /\ RequestOK(t) /\ todo[t] \subseteq Receivables
  BY DEF TypeOK
<1>1. PICK row \in Awaited(t) : owner[row[1]][row[2]] = u
  BY DEF Blocks
<1>2. /\ \A p \in Payments : owner["payments"][p] # u
      /\ \A b \in Bills : owner["lease_bills"][b] # u
  BY LastLocks
<1>3. /\ pc[t] = "create_allocation" \/ pc[t] \in {"update_unapplied"} =>
           req[t] \in AllocateRequest
      /\ pc[t] \in {"reverse", "void_payment"} => req[t] \in VoidPaymentRequest
      /\ pc[t] \in {"use_credit", "update_credited"} => req[t] \in CreditRequest
      /\ pc[t] = "create_bill_receivable" => req[t] \in IssueBillRequest
      /\ pc[t] \in {"void_receivable", "void_bill"} => req[t] \in VoidBillRequest
      /\ pc[t] \in {"create_allocation", "update_paid"} => line[t] \in Receivables
  BY <1>0 DEF RequestOK, AllocateStatement, VoidPaymentStatement, CreditStatement,
     IssueBillStatement, VoidBillStatement
<1>4. pc[t] \notin LastStatement
  <2>1. CASE pc[t] \in {"update_unapplied", "void_payment"}
    <3>1. row = <<"payments", req[t].payment>> /\ req[t].payment \in Payments
      BY <1>1, <1>3, <2>1, AwaitedRows, RequestParts
    <3> QED BY <1>1, <1>2, <3>1
  <2>2. CASE pc[t] \in {"create_bill_receivable", "void_bill"}
    <3>1. row = <<"lease_bills", req[t].bill>> /\ req[t].bill \in Bills
      BY <1>1, <1>3, <2>2, AwaitedRows, RequestParts
    <3> QED BY <1>1, <1>2, <3>1
  <2> QED BY <2>1, <2>2 DEF LastStatement
<1>5. CASE pc[t] = "create_allocation"
  <2>1. /\ row = <<"allocations", <<req[t].payment, line[t]>>>>
        /\ req[t].payment \in Payments /\ line[t] \in Receivables
    BY <1>1, <1>3, <1>5, AwaitedRows, RequestParts
  <2> QED BY <1>1, <1>4, <1>5, <2>1
<1>6. CASE pc[t] = "use_credit"
  <2>1. row = <<"credit_balances", req[t].credit>> /\ req[t].credit \in Credits
    BY <1>1, <1>3, <1>6, AwaitedRows, RequestParts
  <2> QED BY <1>1, <1>4, <1>6, <2>1
<1>7. CASE pc[t] \in {"update_paid", "reverse", "update_credited", "void_receivable"}
  <2>1. \E r \in Receivables : row = <<"receivables", r>>
    BY <1>0, <1>1, <1>3, <1>7, AwaitedRows, RequestParts
  <2> QED BY <1>1, <1>4, <2>1
<1>8. Awaited(t) # {}
  BY <1>1
<1> QED BY <1>4, <1>5, <1>6, <1>7, <1>8, AwaitedRows

\* In a circle, two requests go through several receivables.
LEMMA CirclesHaveTwoLists ==
  TypeOK /\ AllocationsMatchLocks /\ LocksAreOperations => DeadlockNeedsTwoLists
<1> SUFFICES ASSUME TypeOK, AllocationsMatchLocks, LocksAreOperations,
                    NEW S \in SUBSET Tx, S # {},
                    \A t \in S : \E u \in S : Blocks(u, t)
             PROVE  \E t, u \in S : t # u /\ SeveralRows(t) /\ SeveralRows(u)
  BY DEF DeadlockNeedsTwoLists
<1>1. \A t \in S : Awaited(t) # {}
  BY DEF Blocks
<1>2. \A t \in S : pc[t] \notin LastStatement
  BY <1>1, WaitsFor
<1> DEFINE Has(t) == \E r \in Receivables : owner.receivables[r] = t
<1>3. \A t \in S : Has(t) => /\ SeveralRows(t)
                             /\ pc[t] \in {"create_allocation", "update_paid", "reverse"}
  BY <1>1, <1>2, ReceivableHolders
\* Who waits for a receivable waits for one of those.
<1>4. ASSUME NEW t \in S, pc[t] \notin {"create_allocation", "use_credit"}
      PROVE  \E u \in S : u # t /\ Has(u)
  <2>1. PICK u \in S : Blocks(u, t)
    OBVIOUS
  <2> QED BY <1>1, <1>4, <2>1, WaitsFor DEF Blocks
<1>5. ASSUME NEW t \in S, NEW r \in Receivables, pc[t] = "update_paid", line[t] = r
      PROVE  \E u \in S : owner.receivables[r] = u
  <2>1. PICK u \in S : Blocks(u, t)
    OBVIOUS
  <2>2. PICK row \in Awaited(t) : owner[row[1]][row[2]] = u
    BY <2>1 DEF Blocks
  <2>3. row = <<"receivables", r>>
    BY <1>5, <2>2, AwaitedRows
  <2> QED BY <2>2, <2>3
<1>6. \E m \in S : Has(m)
  <2>1. PICK t \in S : TRUE
    OBVIOUS
  <2>2. PICK u \in S : Blocks(u, t)
    OBVIOUS
  <2>3. CASE Has(u)
    BY <2>3
  <2>4. CASE \E c \in Credits : owner.credit_balances[c] = u
    <3>1. pc[u] = "update_credited"
      BY <1>1, <2>4, CreditHolders
    <3> QED BY <1>4, <3>1
  <2>5. CASE \E p \in Payments : line[t] \in Receivables
                                 /\ owner.allocations[<<p, line[t]>>] = u
    <3>1. Has(u) \/ pc[u] = "update_paid"
      BY <2>5, AllocationHolders
    <3> QED BY <1>4, <3>1
  <2> QED BY <1>1, <2>2, <2>3, <2>4, <2>5, WaitsFor
<1>7. PICK m \in S : Has(m)
  BY <1>6
<1>8. SeveralRows(m) /\ pc[m] \in {"create_allocation", "update_paid", "reverse"}
  BY <1>3, <1>7
<1>9. \E v \in S : v # m /\ Has(v)
  <2>1. CASE pc[m] # "create_allocation"
    BY <1>4, <1>8, <2>1
  <2>2. CASE pc[m] = "create_allocation"
    <3>1. PICK u \in S : Blocks(u, m)
      OBVIOUS
    <3>2. u # m
      BY <3>1 DEF Blocks
    <3>3. CASE Has(u)
      BY <3>2, <3>3
    <3>4. CASE \E p \in Payments : line[m] \in Receivables
                                   /\ owner.allocations[<<p, line[m]>>] = u
      <4>1. owner.receivables[line[m]] = u
              \/ (pc[u] = "update_paid" /\ line[u] = line[m])
        BY <3>4, AllocationHolders
      <4>2. CASE pc[u] = "update_paid" /\ line[u] = line[m]
        <5>1. PICK v \in S : owner.receivables[line[m]] = v
          BY <1>5, <3>4, <4>2
        <5>2. v # m
          BY <1>1, <1>2, <2>2, <3>4, <5>1, ReceivableHolders
        <5> QED BY <3>4, <5>1, <5>2
      <4> QED BY <3>2, <3>4, <4>1, <4>2
    <3> QED BY <1>1, <2>2, <3>1, <3>3, <3>4, WaitsFor
  <2> QED BY <2>1, <2>2
<1> QED BY <1>3, <1>8, <1>9

\* However many requests are handled at once, they wait for each other in a
\* circle only where at least two of them go through several receivables: the
\* orders in which the handlers lock their rows fit together but for that.
THEOREM DeadlocksHaveTwoLists == Spec => []DeadlockNeedsTwoLists
BY CirclesHaveTwoLists, TypeCorrect, LocksMatch, LocksMakeOperations, PTL
=============================================================================
