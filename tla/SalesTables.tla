----------------------------- MODULE SalesTables -----------------------------
(***************************************************************************)
(* The rows of reservations, sales contracts, their schedule lines and     *)
(* receivables, and the queries the sales handlers make of them.           *)
(*                                                                         *)
(* A reservation whose expires_at has passed is in late; time passes on    *)
(* its own.  The receivable of a schedule line has the line's key, because *)
(* its receivable_no is made of the contract's and the line's number and   *)
(* is unique.  Ids of approval requests are in the order of submitted_at.  *)
(***************************************************************************)
EXTENDS ReadCommitted, Integers, FiniteSets

CONSTANTS
  Units,
  Reservations,
  Contracts,
  LineNos,       \* the line numbers of the payment plan's lines
  Principals,    \* amounts of a schedule line
  ApprovalIds

ASSUME SalesAssumption ==
  /\ ApprovalIds \subseteq Nat /\ IsFiniteSet(ApprovalIds)
  /\ IsFiniteSet(LineNos)
  /\ \A n \in LineNos : n \in Nat \ {0} /\ 1..n \subseteq LineNos
  /\ Nil \notin Principals \cup Reservations \cup Contracts

VARIABLE late

SalesStatus       == {"available", "reserved", "sold", "not_for_sale"}
ReservationStatus == {"none", "active", "converted", "expired", "cancelled"}
ContractStatus    == {"none", "draft", "active", "completed", "cancelled",
                      "terminated", "defaulted"}
RequestType       == {"contract_cancellation", "contract_termination",
                      "schedule_restructure"}
ApprovalStatus    == {"none", "pending", "approved", "rejected", "cancelled"}
ReceivableStatus  == {"none", "open", "partially_paid", "paid"}

Lines == Contracts \X LineNos

ReservationRow == [status : ReservationStatus, unit : Units \cup {Nil}]
ContractRow == [status : ContractStatus, unit : Units \cup {Nil},
                source : Reservations \cup {Nil}, template : BOOLEAN]
LineRow == [principal : Principals \cup {Nil}, receivable : BOOLEAN]
ReceivableRow == [original : Principals \cup {Nil}, status : ReceivableStatus]
ApprovalRow == [status : ApprovalStatus, contract : Contracts \cup {Nil},
                type : RequestType \cup {Nil}]

Rows == [units |-> Units,
         reservations |-> Reservations,
         sales_contracts |-> Contracts,
         installment_schedule_lines |-> Lines,
         receivables |-> Lines,
         approval_requests |-> ApprovalIds]

NoReservation == [status |-> "none", unit |-> Nil]
NoContract    == [status |-> "none", unit |-> Nil, source |-> Nil,
                  template |-> FALSE]
NoLine        == [principal |-> Nil, receivable |-> FALSE]
NoReceivable  == [original |-> Nil, status |-> "none"]
NoApproval    == [status |-> "none", contract |-> Nil, type |-> Nil]

\* Before any sale: a unit has the status it was entered with.
EmptyTables(sales_status) ==
  [units |-> sales_status,
   reservations |-> [r \in Reservations |-> NoReservation],
   sales_contracts |-> [c \in Contracts |-> NoContract],
   installment_schedule_lines |-> [l \in Lines |-> NoLine],
   receivables |-> [l \in Lines |-> NoReceivable],
   approval_requests |-> [a \in ApprovalIds |-> NoApproval]]

-----------------------------------------------------------------------------
\* What a unique index compares a row t writes with: every other row as
\* committed, or as an unfinished transaction will leave it, which t waits for.
OtherRows(t, tab, id) ==
  UNION {{Sees(t, tab, other), dirty[tab][other]} : other \in DOMAIN db[tab] \ {id}}

ReservationOf(t, r) == Sees(t, "reservations", r)
ContractOf(t, c)    == Sees(t, "sales_contracts", c)
LineOf(t, l)        == Sees(t, "installment_schedule_lines", l)

ActiveReservationsForUnit(t, u) ==
  {r \in Reservations : ReservationOf(t, r) = [status |-> "active", unit |-> u]}

ActiveSalesContractsForUnit(t, u) ==
  {c \in Contracts : /\ ContractOf(t, c).status = "active"
                     /\ ContractOf(t, c).unit = u}

\* The statement that expires every reservation of any unit that is late.
ExpireReservations(t) ==
  LET overdue == {r \in late : ReservationOf(t, r).status = "active"}
      still   == {r \in overdue : dirty.reservations[r].status = "active"}
  IN /\ \A r \in overdue : Free(t, "reservations", r)
     /\ WriteAll(t, {<<"reservations", r,
                       [dirty.reservations[r] EXCEPT !.status = "expired"]>> :
                     r \in still})

CreateReservationRow_NoIndex(t, r, u) ==
  /\ dirty.reservations[r] = NoReservation
  /\ Write(t, "reservations", r, [status |-> "active", unit |-> u])

CreateReservationRow(t, r, u) ==
  /\ dirty.reservations[r] = NoReservation
  /\ [status |-> "active", unit |-> u] \notin OtherRows(t, "reservations", r)
  /\ Write(t, "reservations", r, [status |-> "active", unit |-> u])

UpdateReservationStatus_Unguarded(t, r, to, from) ==   \* without AND status = from
  Write(t, "reservations", r, [dirty.reservations[r] EXCEPT !.status = to])

UpdateReservationStatus(t, r, to, from) ==
  /\ dirty.reservations[r].status = from
  /\ Write(t, "reservations", r, [dirty.reservations[r] EXCEPT !.status = to])

CreateSalesContractRow(t, c, u, source, template) ==
  /\ dirty.sales_contracts[c] = NoContract
  /\ Write(t, "sales_contracts", c,
           [status |-> "draft", unit |-> u, source |-> source,
            template |-> template])

UpdateSalesContractRow(t, c, template) ==
  /\ dirty.sales_contracts[c].status = "draft"
  /\ Write(t, "sales_contracts", c,
           [dirty.sales_contracts[c] EXCEPT !.template = template])

UpdateSalesContractStatus_Unguarded(t, c, to, from) ==   \* without AND status = from
  Write(t, "sales_contracts", c, [dirty.sales_contracts[c] EXCEPT !.status = to])

UpdateSalesContractStatus(t, c, to, from) ==
  /\ dirty.sales_contracts[c].status = from
  /\ to = "active" =>
       \A row \in OtherRows(t, "sales_contracts", c) :
         ~(row.status = "active" /\ row.unit = dirty.sales_contracts[c].unit)
  /\ Write(t, "sales_contracts", c, [dirty.sales_contracts[c] EXCEPT !.status = to])

ListInstallmentScheduleLines(t, c) ==
  {n \in LineNos : LineOf(t, <<c, n>>) # NoLine}

\* The principals of a plan's lines, which are numbered from 1.
Schedules == UNION {[1..lines -> Principals] : lines \in LineNos}

CreateInstallmentScheduleLines_Upsert(t, c, principal) ==   \* ON CONFLICT DO UPDATE
  WriteAll(t, {<<"installment_schedule_lines", <<c, n>>,
                 [principal |-> principal[n], receivable |-> FALSE]>> :
               n \in DOMAIN principal})

\* line_no is unique in a contract.
CreateInstallmentScheduleLines(t, c, principal) ==
  /\ \A n \in DOMAIN principal : dirty.installment_schedule_lines[<<c, n>>] = NoLine
  /\ WriteAll(t, {<<"installment_schedule_lines", <<c, n>>,
                    [principal |-> principal[n], receivable |-> FALSE]>> :
                  n \in DOMAIN principal})

\* A trigger (sales.sql:813) keeps the principal of a line that has a receivable.
UpdateInstallmentScheduleLineRow(t, l, principal) ==
  LET line == dirty.installment_schedule_lines[l]
  IN /\ line.receivable => line.principal = principal
     /\ Write(t, "installment_schedule_lines", l, [line EXCEPT !.principal = principal])

\* CreateReceivable for the line as it was read, and
\* LinkScheduleLineReceivable for the line as it is.
CreateLinkedReceivable(t, l, principal) ==
  /\ dirty.receivables[l] = NoReceivable
  /\ WriteAll(t, {<<"receivables", l, [original |-> principal, status |-> "open"]>>,
                  <<"installment_schedule_lines", l,
                    [dirty.installment_schedule_lines[l] EXCEPT !.receivable = TRUE]>>})

GetLatestSalesApprovalRequest_First(t, c, type) ==   \* ORDER BY submitted_at
  LET found == {a \in ApprovalIds :
                  /\ Sees(t, "approval_requests", a).contract = c
                  /\ Sees(t, "approval_requests", a).type = type}
  IN IF found = {} THEN "none"
     ELSE Sees(t, "approval_requests",
               CHOOSE a \in found : \A b \in found : a <= b).status

\* The status of the latest request of this type for contract c.
GetLatestSalesApprovalRequest(t, c, type) ==
  LET found == {a \in ApprovalIds :
                  /\ Sees(t, "approval_requests", a).contract = c
                  /\ Sees(t, "approval_requests", a).type = type}
  IN IF found = {} THEN "none"
     ELSE Sees(t, "approval_requests",
               CHOOSE a \in found : \A b \in found : b <= a).status

NextApprovalId ==
  LET unused == {a \in ApprovalIds : dirty.approval_requests[a] = NoApproval}
  IN {a \in unused : \A b \in unused : a <= b}
==============================================================================
