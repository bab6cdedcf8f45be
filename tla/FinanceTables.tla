---------------------------- MODULE FinanceTables ----------------------------
(***************************************************************************)
(* The finance tables and the statements that change a row of them,        *)
(* as db/setup/finance.sql and db/queries/finance.sql define them.         *)
(* Amounts are whole cents; adjusted_amount stays 0, because no handler    *)
(* runs UpdateReceivableAdjustedAmount.  A row with status "none" has not  *)
(* been inserted, and an allocation of 0 is one that has not been made:    *)
(* payment_allocations is unique on (payment_id, receivable_id), its       *)
(* amounts are positive and it is append-only.                             *)
(***************************************************************************)
EXTENDS Integers, FiniteSets

CONSTANTS
  Receivables,   \* ids of receivables
  Payments,      \* ids of payments
  Credits,       \* ids of credit balances
  Bills,         \* the receivables that issuing a lease bill creates
  Amounts        \* the amounts of money a request may name, in cents

ASSUME TablesAssumption ==
  /\ IsFiniteSet(Receivables)
  /\ IsFiniteSet(Payments)
  /\ IsFiniteSet(Credits)
  /\ Bills \subseteq Receivables
  /\ Amounts \subseteq Nat \ {0}

ReceivableRow ==
  [status : {"none", "open", "partially_paid", "paid", "voided"},
   original : Nat, paid : Int, credited : Nat]

PaymentRow ==
  [status : {"none", "draft", "posted", "voided"},
   received : Nat, unapplied : Int]

CreditRow == [status : {"available", "exhausted"}, total : Nat, used : Nat]

BillRow == [status : {"draft", "issued", "voided"}, billed : Amounts]

NoReceivable == [status |-> "none", original |-> 0, paid |-> 0, credited |-> 0]
NoPayment    == [status |-> "none", received |-> 0, unapplied |-> 0]

NewBill(amount) == [status |-> "draft", billed |-> amount]
NewReceivable(amount) ==
  [status |-> "open", original |-> amount, paid |-> 0, credited |-> 0]
NewPayment(amount) ==
  [status |-> "draft", received |-> amount, unapplied |-> amount]

\* The generated column outstanding_amount, and amount_remaining.
Outstanding(row) == row.original - row.paid - row.credited
Remaining(row)   == row.total - row.used

AcceptsMoney(row) == row.status \in {"open", "partially_paid"}

\* Slip: the CASE forgets the receivable's credits.
UpdateReceivablePaidAmount_NoCredits(row, amount) ==
  LET paid == row.paid + amount
  IN [status   |-> IF row.original - paid - row.credited <= 0 THEN "paid"
                   ELSE IF paid > 0 THEN "partially_paid" ELSE "open",
      original |-> row.original, paid |-> paid, credited |-> row.credited]

UpdateReceivablePaidAmount(row, amount) ==
  LET paid == row.paid + amount
  IN [status   |-> IF row.original - paid - row.credited <= 0 THEN "paid"
                   ELSE IF paid > 0 \/ row.credited > 0 THEN "partially_paid"
                   ELSE "open",
      original |-> row.original, paid |-> paid, credited |-> row.credited]

\* Slip: the amount is negated, as VoidPayment does before its UPDATE.
UpdateReceivableCreditedAmount_Negated(row, amount) ==
  [row EXCEPT !.credited = @ - amount]

UpdateReceivableCreditedAmount(row, amount) ==
  LET credited == row.credited + amount
  IN [status   |-> IF row.original - row.paid - credited <= 0 THEN "paid"
                   ELSE IF credited > 0 \/ row.paid > 0 THEN "partially_paid"
                   ELSE row.status,
      original |-> row.original, paid |-> row.paid, credited |-> credited]

ApplyCreditBalance(row, amount) ==
  LET used == row.used + amount
  IN [status |-> IF row.total - used <= 0 THEN "exhausted" ELSE row.status,
      total  |-> row.total, used |-> used]

(***************************************************************************)
(* The allocations one request asks for: an amount for each receivable, 0  *)
(* for those it does not name.                                             *)
(***************************************************************************)
Lines == [Receivables -> Amounts \cup {0}]
Rows(lines) == {r \in Receivables : lines[r] > 0}

\* The sum of f over S: one element for each cent.
Cents(f, S) == UNION {{x} \X (1 .. f[x]) : x \in S}
Total(f, S) == Cardinality(Cents(f, S))
==============================================================================
