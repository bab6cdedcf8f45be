------------------------------ MODULE UnitSales ------------------------------
(***************************************************************************)
(* Selling a unit: reservations, the contracts they are converted to, the  *)
(* schedule lines and receivables of a contract, the approval gate before  *)
(* an active contract ends, and the unit's sales_status that all of them   *)
(* set.  Each handler is a transaction that runs its statements while      *)
(* those of other requests run theirs; where the code returns an error, t  *)
(* can only Rollback.  The last statement of a handler also inserts its    *)
(* entry of the audit log, which nobody can see or wait for.               *)
(*                                                                         *)
(* The parties of a contract are in OwnershipTransfers.  Prices, and the   *)
(* percentages a template splits them by, are left out; so are deposits,   *)
(* which can only make a request fail.  As in Approvals, a definition      *)
(* whose name ends in a slip is no part of the specification.              *)
(***************************************************************************)
EXTENDS SalesTables

AllOps == {"reserve", "convert", "cancel_reservation", "create", "update",
           "activate", "cancel", "terminate", "complete", "default",
           "generate", "update_line", "submit_approval"}

VARIABLES
  pc,      \* the next statement of each transaction, "idle" if there is none
  req,     \* what its request is about, Nil if there is none
  todo,    \* the schedule lines an activation still has to bill, as read
  entry,   \* the audit entries it has inserted and not committed
  audit    \* the committed audit log

\* History, which no action reads: the units whose sales_status a client set
\* after whatever the handlers of sales made of it.
VARIABLE byHand

vars == <<db, dirty, owner, late, byHand, pc, req, todo, entry, audit>>

Request == [op : AllOps, unit : Units \cup {Nil}, reservation : Reservations \cup {Nil},
            contract : Contracts \cup {Nil}, line : LineNos \cup {Nil},
            principal : Principals \cup {Nil}, template : BOOLEAN,
            type : RequestType \cup {Nil}, from : ContractStatus \cup {Nil},
            to : ContractStatus \cup {Nil}]

ASSUME NilIsNoRequest == Nil \notin Request

Blank == [op |-> Nil, unit |-> Nil, reservation |-> Nil, contract |-> Nil, line |-> Nil,
          principal |-> Nil, template |-> FALSE, type |-> Nil, from |-> Nil,
          to |-> Nil]

Statement ==
  {"idle", "insert_reservation", "reserve_unit", "convert_insert",
   "convert_status", "cancel_reservation", "look_for_holder", "release_unit",
   "insert_contract", "update_contract", "list_lines", "bill_lines",
   "sell_unit", "end_contract", "free_unit",
   "insert_approval", "complete_status", "default_status", "insert_lines",
   "update_line", "commit"}

Init ==
  /\ \E sales_status \in [Units -> SalesStatus] : db = EmptyTables(sales_status)
  /\ dirty = db
  /\ owner = [tab \in DOMAIN Rows |-> [id \in Rows[tab] |-> Nil]]
  /\ late = {}
  /\ byHand = Units
  /\ pc = [t \in Tx |-> "idle"]
  /\ req = [t \in Tx |-> Nil]
  /\ todo = [t \in Tx |-> <<>>]
  /\ entry = [t \in Tx |-> {}]
  /\ audit = {}

At(t, stmt)   == pc[t] = stmt
Goto(t, stmt) == pc' = [pc EXCEPT ![t] = stmt]
Next_(t, stmt) ==
  Goto(t, stmt) /\ UNCHANGED <<late, byHand, req, todo, entry, audit>>

Begin(t, op, request, stmt) ==
  /\ At(t, "idle")
  /\ req' = [req EXCEPT ![t] = [request EXCEPT !.op = op]]
  /\ Goto(t, stmt)
  /\ UNCHANGED <<late, byHand, todo, entry, audit>>

\* InsertAuditLog, the last statement before the commit.
Log(t, event, id) ==
  /\ entry' = [entry EXCEPT ![t] = {<<event, id>>}]
  /\ Goto(t, "commit")
  /\ UNCHANGED <<late, byHand, req, todo, audit>>

-----------------------------------------------------------------------------
(***************************************************************************)
(* Reservations.                                                           *)
(***************************************************************************)
CreateReservation(t, u) ==
  /\ ExpireReservations(t)
  /\ ActiveReservationsForUnit(t, u) \subseteq late
  /\ Begin(t, "reserve", [Blank EXCEPT !.unit = u], "insert_reservation")

InsertReservation(t) ==
  /\ At(t, "insert_reservation")
  /\ \E r \in Reservations :
       /\ CreateReservationRow(t, r, req[t].unit)
       /\ req' = [req EXCEPT ![t].reservation = r]
  /\ Goto(t, "reserve_unit")
  /\ UNCHANGED <<late, byHand, todo, entry, audit>>

ReserveUnit(t) ==
  /\ At(t, "reserve_unit")
  /\ Write(t, "units", req[t].unit, "reserved")
  /\ Log(t, "create_reservation", req[t].reservation)

ConvertReservation(t, r) ==
  /\ ExpireReservations(t)
  /\ ReservationOf(t, r).status = "active" /\ r \notin late
  /\ Begin(t, "convert",
           [Blank EXCEPT !.reservation = r, !.unit = ReservationOf(t, r).unit],
           "convert_insert")

ConvertInsertContract(t) ==
  /\ At(t, "convert_insert")
  /\ \E c \in Contracts :
       /\ CreateSalesContractRow(t, c, req[t].unit, req[t].reservation, FALSE)
       /\ req' = [req EXCEPT ![t].contract = c]
  /\ Goto(t, "convert_status")
  /\ UNCHANGED <<late, byHand, todo, entry, audit>>

ConvertStatus(t) ==
  /\ At(t, "convert_status")
  /\ UpdateReservationStatus(t, req[t].reservation, "converted", "active")
  /\ Log(t, "convert_reservation", req[t].contract)

CancelReservation(t, r) ==
  /\ ReservationOf(t, r).status = "active"
  /\ Begin(t, "cancel_reservation",
           [Blank EXCEPT !.reservation = r, !.unit = ReservationOf(t, r).unit],
           "cancel_reservation")
  /\ UNCHANGED storage

CancelReservationStatus(t) ==
  /\ At(t, "cancel_reservation")
  /\ UpdateReservationStatus(t, req[t].reservation, "cancelled", "active")
  /\ Next_(t, "look_for_holder")

UnitIsHeld_NoContracts(t, u) ==   \* asks for reservations only
  ActiveReservationsForUnit(t, u) # {}

UnitIsHeld(t, u) ==
  ActiveSalesContractsForUnit(t, u) \cup ActiveReservationsForUnit(t, u) # {}

LookForHolder(t) ==
  /\ At(t, "look_for_holder")
  /\ IF UnitIsHeld(t, req[t].unit)
       THEN Log(t, "cancel_reservation", req[t].reservation)
       ELSE Next_(t, "release_unit")
  /\ UNCHANGED storage

ReleaseUnit(t) ==
  /\ At(t, "release_unit")
  /\ Write(t, "units", req[t].unit, "available")
  /\ Log(t, "cancel_reservation", req[t].reservation)

-----------------------------------------------------------------------------
(***************************************************************************)
(* Contracts: creating, changing and activating them.                      *)
(***************************************************************************)
\* The caller may name a reservation the contract comes from, whosever it is.
CreateSalesContract(t, u, source, template) ==
  /\ ActiveSalesContractsForUnit(t, u) = {}
  /\ Begin(t, "create",
           [Blank EXCEPT !.unit = u, !.reservation = source, !.template = template],
           "insert_contract")
  /\ UNCHANGED storage

InsertContract(t) ==
  LET source == req[t].reservation
  IN /\ At(t, "insert_contract")
     /\ source # Nil => ReservationOf(t, source) # NoReservation   \* a foreign key
     /\ \E c \in Contracts :
          /\ CreateSalesContractRow(t, c, req[t].unit, source, req[t].template)
          /\ Log(t, "create_contract", c)

UpdateSalesContract(t, c) ==
  /\ ContractOf(t, c).status = "draft"
  /\ Begin(t, "update", [Blank EXCEPT !.contract = c], "update_contract")
  /\ UNCHANGED storage

UpdateContract(t) ==
  /\ At(t, "update_contract")
  /\ UpdateSalesContractRow(t, req[t].contract, TRUE)
  /\ Log(t, "update_contract", req[t].contract)

ActivateSalesContract(t, c) ==
  LET u == ContractOf(t, c).unit
  IN /\ ContractOf(t, c).status = "draft"
     /\ ActiveSalesContractsForUnit(t, u) = {}
     /\ Begin(t, "activate",
              [Blank EXCEPT !.contract = c, !.unit = u,
                            !.template = ContractOf(t, c).template],
              "list_lines")
     /\ UNCHANGED storage

\* The lines there are, or else those of the plan.
ActivateListLines(t) ==
  LET c == req[t].contract
      found == ListInstallmentScheduleLines(t, c)
  IN /\ At(t, "list_lines")
     /\ \/ /\ found # {}
           /\ todo' = [todo EXCEPT ![t] =
                [n \in {m \in found : ~LineOf(t, <<c, m>>).receivable} |->
                   LineOf(t, <<c, n>>).principal]]
           /\ UNCHANGED storage
        \/ /\ found = {} /\ req[t].template
           /\ \E principal \in Schedules :
                /\ CreateInstallmentScheduleLines(t, c, principal)
                /\ todo' = [todo EXCEPT ![t] = principal]
     /\ Goto(t, "bill_lines")
     /\ UNCHANGED <<late, byHand, req, entry, audit>>

BillLine_Skipped(t) ==   \* stops at the first line
  LET unbilled == DOMAIN todo[t]
  IN /\ At(t, "bill_lines")
     /\ \E n \in unbilled :
          /\ \A m \in unbilled : n <= m
          /\ CreateLinkedReceivable(t, <<req[t].contract, n>>, todo[t][n])
     /\ todo' = [todo EXCEPT ![t] = <<>>]
     /\ UNCHANGED <<late, byHand, pc, req, entry, audit>>

BillLine(t) ==
  LET unbilled == DOMAIN todo[t]
  IN /\ At(t, "bill_lines")
     /\ \E n \in unbilled :
          /\ \A m \in unbilled : n <= m
          /\ CreateLinkedReceivable(t, <<req[t].contract, n>>, todo[t][n])
          /\ todo' = [todo EXCEPT ![t] = [m \in unbilled \ {n} |-> @[m]]]
     /\ UNCHANGED <<late, byHand, pc, req, entry, audit>>

ActivateStatus(t) ==
  /\ At(t, "bill_lines") /\ DOMAIN todo[t] = {}
  /\ UpdateSalesContractStatus(t, req[t].contract, "active", "draft")
  /\ Next_(t, "sell_unit")

SellUnit(t) ==
  /\ At(t, "sell_unit")
  /\ Write(t, "units", req[t].unit, "sold")
  /\ Log(t, "activate_contract", req[t].contract)

-----------------------------------------------------------------------------
(***************************************************************************)
(* Ending a contract.  A draft is cancelled at once.  For an active        *)
(* contract the latest approval request decides: if it is approved the     *)
(* contract ends, if it is pending or rejected nothing changes, and        *)
(* otherwise a request is made.                                            *)
(***************************************************************************)
ApprovalGate_Pending(t, op, c, type, to) ==   \* a request is as good as an approval
  LET latest == GetLatestSalesApprovalRequest(t, c, type)
  IN /\ ContractOf(t, c).status = "active"
     /\ latest # "rejected"
     /\ Begin(t, op, [Blank EXCEPT !.contract = c, !.unit = ContractOf(t, c).unit,
                                   !.type = type, !.from = "active", !.to = to],
              IF latest \in {"approved", "pending"} THEN "end_contract"
                                                    ELSE "insert_approval")
     /\ UNCHANGED storage

ApprovalGate(t, op, c, type, to) ==
  LET latest == GetLatestSalesApprovalRequest(t, c, type)
  IN /\ ContractOf(t, c).status = "active"
     /\ latest \notin {"pending", "rejected"}
     /\ Begin(t, op, [Blank EXCEPT !.contract = c, !.unit = ContractOf(t, c).unit,
                                   !.type = type, !.from = "active", !.to = to],
              IF latest = "approved" THEN "end_contract" ELSE "insert_approval")
     /\ UNCHANGED storage

CancelDraft(t, c) ==
  /\ ContractOf(t, c).status = "draft"
  /\ Begin(t, "cancel", [Blank EXCEPT !.contract = c, !.unit = ContractOf(t, c).unit,
                                      !.from = "draft", !.to = "cancelled"],
           "end_contract")
  /\ UNCHANGED storage

CancelSalesContract(t, c) ==
  \/ CancelDraft(t, c)
  \/ ApprovalGate(t, "cancel", c, "contract_cancellation", "cancelled")

TerminateSalesContract(t, c) ==
  ApprovalGate(t, "terminate", c, "contract_termination", "terminated")

EndContract(t) ==
  /\ At(t, "end_contract")
  /\ UpdateSalesContractStatus(t, req[t].contract, req[t].to, req[t].from)
  /\ Next_(t, "free_unit")

FreeUnit_Skipped(t) ==   \* the unit is left as it is
  /\ At(t, "free_unit")
  /\ Log(t, req[t].to, req[t].contract)
  /\ UNCHANGED storage

FreeUnit(t) ==
  /\ At(t, "free_unit")
  /\ Write(t, "units", req[t].unit, "available")
  /\ Log(t, req[t].to, req[t].contract)

InsertApproval(t) ==
  /\ At(t, "insert_approval")
  /\ \E a \in NextApprovalId :
       Write(t, "approval_requests", a,
             [status |-> "pending", contract |-> req[t].contract,
              type |-> req[t].type])
  /\ Log(t, req[t].type, req[t].contract)

CompleteSalesContract(t, c) ==
  LET found == ListInstallmentScheduleLines(t, c)
  IN /\ ContractOf(t, c).status = "active"
     /\ found # {}
     /\ \A n \in found :
          /\ LineOf(t, <<c, n>>).receivable
          /\ Sees(t, "receivables", <<c, n>>).status = "paid"
     /\ Begin(t, "complete", [Blank EXCEPT !.contract = c], "complete_status")
     /\ UNCHANGED storage

CompleteStatus(t) ==
  /\ At(t, "complete_status")
  /\ UpdateSalesContractStatus(t, req[t].contract, "completed", "active")
  /\ Log(t, "completed", req[t].contract)

MarkSalesContractDefaulted(t, c) ==
  /\ ContractOf(t, c).status = "active"
  /\ Begin(t, "default", [Blank EXCEPT !.contract = c], "default_status")
  /\ UNCHANGED storage

DefaultStatus_Unaudited(t) ==   \* returns before InsertAuditLog
  /\ At(t, "default_status")
  /\ UpdateSalesContractStatus(t, req[t].contract, "defaulted", "active")
  /\ Next_(t, "commit")

DefaultStatus(t) ==
  /\ At(t, "default_status")
  /\ UpdateSalesContractStatus(t, req[t].contract, "defaulted", "active")
  /\ Log(t, "defaulted", req[t].contract)

-----------------------------------------------------------------------------
(***************************************************************************)
(* Schedule lines.                                                         *)
(***************************************************************************)
GenerateSalesContractSchedule(t, c) ==
  /\ ContractOf(t, c).status = "draft" /\ ContractOf(t, c).template
  /\ ListInstallmentScheduleLines(t, c) = {}
  /\ Begin(t, "generate", [Blank EXCEPT !.contract = c], "insert_lines")
  /\ UNCHANGED storage

InsertLines(t) ==
  /\ At(t, "insert_lines")
  /\ \E principal \in Schedules :
       CreateInstallmentScheduleLines(t, req[t].contract, principal)
  /\ Log(t, "generate_schedule", req[t].contract)

\* In a draft the line is changed.  In an active contract an approval to
\* restructure is asked for, which nothing applies.
UpdateInstallmentScheduleLine(t, c, n, principal) ==
  /\ LineOf(t, <<c, n>>) # NoLine
  /\ \/ ContractOf(t, c).status = "draft"
     \/ /\ ContractOf(t, c).status = "active"
        /\ LineOf(t, <<c, n>>).receivable =>
             Sees(t, "receivables", <<c, n>>).status \notin {"paid", "partially_paid"}
  /\ Begin(t, "update_line",
           [Blank EXCEPT !.contract = c, !.line = n, !.principal = principal,
                         !.type = "schedule_restructure"],
           IF ContractOf(t, c).status = "draft" THEN "update_line"
                                                ELSE "insert_approval")
  /\ UNCHANGED storage

UpdateLine(t) ==
  /\ At(t, "update_line")
  /\ UpdateInstallmentScheduleLineRow(t, <<req[t].contract, req[t].line>>,
                                      req[t].principal)
  /\ Log(t, "update_schedule_line", req[t].contract)

-----------------------------------------------------------------------------
EndRequest(t) ==
  /\ Goto(t, "idle")
  /\ req' = [req EXCEPT ![t] = Nil]
  /\ todo' = [todo EXCEPT ![t] = <<>>]
  /\ entry' = [entry EXCEPT ![t] = {}]
  /\ late' = late

Commit(t) ==
  /\ At(t, "commit") /\ CommitTx(t) /\ EndRequest(t)
  /\ audit' = audit \cup entry[t]
  /\ byHand' = {u \in byHand : owner.units[u] # t}

Rollback(t) ==
  /\ ~At(t, "idle") /\ RollbackTx(t) /\ EndRequest(t)
  /\ UNCHANGED <<byHand, audit>>

\* What others do to the rows the handlers read: expires_at passes, payments
\* settle a receivable or are voided, approvers decide, clients enter approval
\* requests and set the status of a unit.
ExpiryPasses(r) ==
  /\ db.reservations[r].status # "none" /\ r \notin late
  /\ late' = late \cup {r}
  /\ UNCHANGED <<storage, byHand, pc, req, todo, entry, audit>>

SettleReceivable(l, status) ==
  /\ db.receivables[l].status \notin {"none", status}
  /\ WriteAndCommit("receivables", l, [db.receivables[l] EXCEPT !.status = status])
  /\ UNCHANGED <<late, byHand, pc, req, todo, entry, audit>>

DecideApproval(a, status) ==
  /\ db.approval_requests[a].status = "pending"
  /\ WriteAndCommit("approval_requests", a,
                    [db.approval_requests[a] EXCEPT !.status = status])
  /\ UNCHANGED <<late, byHand, pc, req, todo, entry, audit>>

\* CreateApprovalRequest, with the status the client asks for.
SubmitApproval(c, type, status) ==
  /\ \E a \in NextApprovalId :
       WriteAndCommit("approval_requests", a,
                      [status |-> status, contract |-> c, type |-> type])
  /\ UNCHANGED <<late, byHand, pc, req, todo, entry, audit>>

\* UpdateUnit, which looks at no contract or reservation of the unit.
UpdateUnit(u, sales_status) ==
  /\ WriteAndCommit("units", u, sales_status)
  /\ byHand' = byHand \cup {u}
  /\ UNCHANGED <<late, pc, req, todo, entry, audit>>

Others ==
  \/ \E r \in Reservations : ExpiryPasses(r)
  \/ \E l \in Lines, s \in {"open", "partially_paid", "paid"} : SettleReceivable(l, s)
  \/ \E a \in ApprovalIds, s \in {"approved", "rejected", "cancelled"} :
       DecideApproval(a, s)
  \/ \E c \in Contracts, type \in RequestType, s \in ApprovalStatus \ {"none"} :
       SubmitApproval(c, type, s)
  \/ \E u \in Units, s \in SalesStatus : UpdateUnit(u, s)

Start(t) ==
  \/ \E u \in Units : \/ CreateReservation(t, u)
                      \/ \E source \in Reservations \cup {Nil}, template \in BOOLEAN :
                           CreateSalesContract(t, u, source, template)
  \/ \E r \in Reservations : ConvertReservation(t, r) \/ CancelReservation(t, r)
  \/ \E c \in Contracts :
       \/ UpdateSalesContract(t, c)
       \/ ActivateSalesContract(t, c)
       \/ CancelSalesContract(t, c)
       \/ TerminateSalesContract(t, c)
       \/ CompleteSalesContract(t, c)
       \/ MarkSalesContractDefaulted(t, c)
       \/ GenerateSalesContractSchedule(t, c)
       \/ \E n \in LineNos, p \in Principals : UpdateInstallmentScheduleLine(t, c, n, p)

Step(t) ==
  \/ InsertReservation(t)
  \/ ReserveUnit(t)
  \/ ConvertInsertContract(t)
  \/ ConvertStatus(t)
  \/ CancelReservationStatus(t)
  \/ LookForHolder(t)
  \/ ReleaseUnit(t)
  \/ InsertContract(t)
  \/ UpdateContract(t)
  \/ ActivateListLines(t)
  \/ BillLine(t)
  \/ ActivateStatus(t)
  \/ SellUnit(t)
  \/ EndContract(t)
  \/ FreeUnit(t)
  \/ InsertApproval(t)
  \/ CompleteStatus(t)
  \/ DefaultStatus(t)
  \/ InsertLines(t)
  \/ UpdateLine(t)
  \/ Commit(t)
  \/ Rollback(t)

Next == Others \/ \E t \in Tx : Start(t) \/ Step(t)

Spec == Init /\ [][Next]_vars

-----------------------------------------------------------------------------
\* The tables, the locks and the requests are of their types.
TypeOK ==
  LET Tables == [units : [Units -> SalesStatus],
                 reservations : [Reservations -> ReservationRow],
                 sales_contracts : [Contracts -> ContractRow],
                 installment_schedule_lines : [Lines -> LineRow],
                 receivables : [Lines -> ReceivableRow],
                 approval_requests : [ApprovalIds -> ApprovalRow]]
  IN /\ db \in Tables
     /\ dirty \in Tables
     /\ DOMAIN owner = DOMAIN Rows
     /\ \A tab \in DOMAIN Rows : owner[tab] \in [Rows[tab] -> Tx \cup {Nil}]
     /\ late \subseteq Reservations
     /\ byHand \subseteq Units
     /\ pc \in [Tx -> Statement]
     /\ req \in [Tx -> Request \cup {Nil}]
     /\ \A t \in Tx : DOMAIN todo[t] \subseteq LineNos

StatusOf(c) == db.sales_contracts[c].status
UnitOf(c)   == db.sales_contracts[c].unit
Activated   == {"active", "completed", "defaulted", "terminated"}

\* A unit stays sold only while a contract that was activated for it stands,
\* unless a client has set its status since: whatever ends such a contract
\* makes the unit available, in the same transaction and after any activation
\* that sold it.
SoldHasContract ==
  \A u \in Units \ byHand :
    db.units[u] = "sold" =>
      \E c \in Contracts : /\ UnitOf(c) = u
                           /\ StatusOf(c) \in Activated \ {"terminated"}

\* However reservations, expiry, conversions and activations interleave, a
\* unit is held by one active reservation and one active contract at most.
HeldOnce ==
  \A u \in Units :
    /\ Cardinality({r \in Reservations :
          db.reservations[r] = [status |-> "active", unit |-> u]}) <= 1
    /\ Cardinality({c \in Contracts :
          StatusOf(c) = "active" /\ UnitOf(c) = u}) <= 1

\* A converted reservation has exactly one contract that a conversion made,
\* and one that expired or was cancelled meanwhile has none, whatever other
\* contracts clients create in its name.
ConvertedOnce ==
  \A r \in Reservations :
    Cardinality({c \in Contracts : /\ db.sales_contracts[c].source = r
                                   /\ <<"convert_reservation", c>> \in audit}) =
      IF db.reservations[r].status = "converted" THEN 1 ELSE 0

\* A contract that was activated has lines, and a receivable for every one
\* of them, also when a schedule is generated while it is activated.
ActiveIsBilled ==
  \A c \in Contracts :
    StatusOf(c) \in Activated =>
      /\ \E n \in LineNos : db.installment_schedule_lines[<<c, n>>] # NoLine
      /\ \A n \in LineNos :
           db.installment_schedule_lines[<<c, n>>] # NoLine =>
             /\ db.installment_schedule_lines[<<c, n>>].receivable
             /\ db.receivables[<<c, n>>] # NoReceivable

\* Contracts implement UnitHolding: the active contract of a unit holds it.
ActiveFor(u) == {c \in Contracts : StatusOf(c) = "active" /\ UnitOf(c) = u}

Holding == INSTANCE UnitHolding WITH
  holder <- [u \in Units |-> IF ActiveFor(u) = {} THEN Nil
                             ELSE CHOOSE c \in ActiveFor(u) : TRUE],
  past <- {c \in Contracts : StatusOf(c) \notin {"none", "draft", "active"}}

\* A unit has one active contract at a time, and a contract that has ended
\* is never active again.
HoldsUnitOnce == Holding!Spec

\* An active contract is cancelled or terminated only if a request for just
\* that was approved.
EndedByApproval ==
  [][\A c \in Contracts, end \in {<<"contract_cancellation", "cancelled">>,
                                   <<"contract_termination", "terminated">>} :
       StatusOf(c) = "active" /\ StatusOf(c)' = end[2] =>
         \E a \in ApprovalIds :
           db.approval_requests[a] =
             [status |-> "approved", contract |-> c, type |-> end[1]]]_vars

\* The audit log has an entry for every status a contract has had, and none
\* for what was rolled back.
EveryChangeIsAudited ==
  \A c \in Contracts :
    /\ \A s \in {"completed", "defaulted", "terminated", "cancelled"} :
         <<s, c>> \in audit <=> StatusOf(c) = s
    /\ StatusOf(c) \in Activated => <<"activate_contract", c>> \in audit
    /\ <<"activate_contract", c>> \in audit =>
         StatusOf(c) \in Activated \cup {"cancelled"}

\* The receivable of a line is for its principal (while requests are handled
\* one at a time).
BilledAsScheduled ==
  \A l \in Lines :
    db.receivables[l] # NoReceivable =>
      db.receivables[l].original = db.installment_schedule_lines[l].principal

\* Whoever releases a unit has seen that it has no active contract, so the
\* unit of an active contract is available only if a client made it so (while
\* requests are handled one at a time and no draft is cancelled).
ActiveNotAvailable ==
  \A c \in Contracts :
    StatusOf(c) = "active" /\ UnitOf(c) \notin byHand =>
      db.units[UnitOf(c)] # "available"

\* A contract has one pending request to end it at most.
NoDuplicatePending ==
  \A c \in Contracts, type \in RequestType \ {"schedule_restructure"} :
    Cardinality({a \in ApprovalIds :
      db.approval_requests[a] =
        [status |-> "pending", contract |-> c, type |-> type]}) <= 1
==============================================================================
