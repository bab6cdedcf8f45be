---------------------------- MODULE UnitSalesProofs ----------------------------
(***************************************************************************)
(* Proofs about UnitSales, for any number of units, reservations,          *)
(* contracts, schedule lines, approvals and concurrent transactions.  As   *)
(* in LeasesProofs the invariants say, of every row that is locked, who    *)
(* has locked it and what its new version is, and they come in layers:     *)
(* each is inductive given those before it.  The last ones are of one      *)
(* request at a time.                                                      *)
(***************************************************************************)
EXTENDS MCUnitSales, ReadCommittedProofs

TableName == {"units", "reservations", "sales_contracts",
              "installment_schedule_lines", "receivables", "approval_requests"}

RowType == [units |-> SalesStatus,
            reservations |-> ReservationRow,
            sales_contracts |-> ContractRow,
            installment_schedule_lines |-> LineRow,
            receivables |-> ReceivableRow,
            approval_requests |-> ApprovalRow]

\* The committed version of a row, its newest version, and who has locked it.
Res(r)       == db.reservations[r]
NewRes(r)    == dirty.reservations[r]
ResLocker(r) == owner.reservations[r]

Con(c)       == db.sales_contracts[c]
NewCon(c)    == dirty.sales_contracts[c]
ConLocker(c) == owner.sales_contracts[c]

Line(l)       == db.installment_schedule_lines[l]
NewLine(l)    == dirty.installment_schedule_lines[l]
LineLocker(l) == owner.installment_schedule_lines[l]

Rec(l)       == db.receivables[l]
NewRec(l)    == dirty.receivables[l]
RecLocker(l) == owner.receivables[l]

-----------------------------------------------------------------------------
(***************************************************************************)
(* What a transaction remembers fits its handler.                          *)
(***************************************************************************)
StatementsOf(op) ==
  CASE op = "reserve"   -> {"insert_reservation", "reserve_unit", "commit"}
    [] op = "convert"   -> {"convert_insert", "convert_status", "commit"}
    [] op = "cancel_reservation" -> {"cancel_reservation", "look_for_holder",
                                     "release_unit", "commit"}
    [] op = "create"    -> {"insert_contract", "commit"}
    [] op = "update"    -> {"update_contract", "commit"}
    [] op = "activate"  -> {"list_lines", "bill_lines", "sell_unit", "commit"}
    [] op = "cancel"    -> {"end_contract", "free_unit", "insert_approval", "commit"}
    [] op = "terminate" -> {"end_contract", "free_unit", "insert_approval", "commit"}
    [] op = "complete"  -> {"complete_status", "commit"}
    [] op = "default"   -> {"default_status", "commit"}
    [] op = "generate"  -> {"insert_lines", "commit"}
    [] op = "update_line" -> {"update_line", "insert_approval", "commit"}
    [] OTHER            -> {}

\* The handlers that look for a contract, and those that change its status.
OnContract == {"update", "activate", "cancel", "terminate", "complete", "default",
               "generate", "update_line"}
Mover      == {"activate", "cancel", "terminate", "complete", "default"}

From(q) == IF q.op = "activate" THEN "draft"
           ELSE IF q.op = "cancel" THEN q.from ELSE "active"
To      == [activate |-> "active", cancel |-> "cancelled", terminate |-> "terminated",
            complete |-> "completed", default |-> "defaulted"]

\* The fields of a request at a statement.
FieldsOK(q, stmt) ==
  /\ q.op \in {"reserve", "convert", "cancel_reservation", "create", "activate",
               "cancel", "terminate"} => q.unit \in Units
  /\ q.op \in {"convert", "cancel_reservation"} => q.reservation \in Reservations
  /\ q.op = "reserve" /\ stmt \in {"reserve_unit", "commit"} =>
       q.reservation \in Reservations
  /\ q.op = "create" => q.reservation \in Reservations \cup {Nil}
  /\ q.op \in OnContract => q.contract \in Contracts
  /\ q.op = "convert" /\ stmt \in {"convert_status", "commit"} => q.contract \in Contracts
  /\ q.op = "cancel" =>
       /\ q.to = "cancelled" /\ q.from \in {"draft", "active"}
       /\ q.from = "active" => q.type = "contract_cancellation"
  /\ q.op = "terminate" =>
       q.to = "terminated" /\ q.from = "active" /\ q.type = "contract_termination"
  /\ q.op = "update_line" =>
       q.line \in LineNos /\ q.principal \in Principals /\ q.type = "schedule_restructure"
  /\ stmt = "insert_approval" => q.type \in RequestType

RequestOK(t) ==
  pc[t] # "idle" =>
    /\ req[t] \in Request /\ pc[t] \in StatementsOf(req[t].op)
    /\ FieldsOK(req[t], pc[t])

\* The lines an activation still has to bill.
TodoOK(t) ==
  /\ DOMAIN todo[t] \subseteq LineNos
  /\ \A n \in DOMAIN todo[t] : todo[t][n] \in Principals \cup {Nil}

ControlTypeOK ==
  /\ pc \in [Tx -> Statement]
  /\ req \in [Tx -> Request \cup {Nil}]
  /\ DOMAIN todo = Tx /\ DOMAIN entry = Tx
  /\ late \subseteq Reservations /\ byHand \subseteq Units
  /\ \A t \in Tx : RequestOK(t) /\ TodoOK(t)

\* The tables have their rows.
Shaped(f) ==
  /\ f = [tab \in TableName |-> f[tab]]
  /\ \A tab \in TableName : f[tab] = [id \in Rows[tab] |-> f[tab][id]]

StorageTypeOK ==
  /\ Shaped(db) /\ Shaped(dirty) /\ Shaped(owner)
  /\ \A tab \in TableName : \A id \in Rows[tab] :
       /\ db[tab][id] \in RowType[tab] /\ dirty[tab][id] \in RowType[tab]
       /\ owner[tab][id] \in Tx \cup {Nil}

\* A reservation or a contract that exists has a unit.
ReservationRowOK(row) == row # NoReservation => row.status # "none" /\ row.unit \in Units
ContractRowOK(row)    == row # NoContract => row.status # "none" /\ row.unit \in Units

RowsOK ==
  /\ \A r \in Reservations : ReservationRowOK(Res(r)) /\ ReservationRowOK(NewRes(r))
  /\ \A c \in Contracts : ContractRowOK(Con(c)) /\ ContractRowOK(NewCon(c))

Typed == StorageTypeOK /\ ControlTypeOK /\ RowsOK /\ DirtyIsCommitted

-----------------------------------------------------------------------------
(***************************************************************************)
(* Contracts: what is done to those that are locked.                       *)
(***************************************************************************)
\* t changes the status of its contract, has edited it, or has inserted c.
Moves(t, c) ==
  /\ c = req[t].contract /\ req[t].op \in Mover
  /\ pc[t] \in {"sell_unit", "free_unit", "commit"}
  /\ Con(c).status = From(req[t])
  /\ NewCon(c) = [Con(c) EXCEPT !.status = To[req[t].op]]

Edits(t, c) ==
  /\ c = req[t].contract /\ req[t].op = "update" /\ pc[t] = "commit"
  /\ Con(c).status = "draft"
  /\ NewCon(c) = [Con(c) EXCEPT !.template = TRUE]

Inserts(t, c) ==
  /\ \/ req[t].op = "create" /\ pc[t] = "commit"
     \/ /\ req[t].op = "convert" /\ pc[t] \in {"convert_status", "commit"}
        /\ c = req[t].contract
  /\ Con(c) = NoContract
  /\ NewCon(c).status = "draft" /\ NewCon(c).source = req[t].reservation

ContractLocks(t) ==
  \A c \in Contracts : ConLocker(c) = t => Moves(t, c) \/ Edits(t, c) \/ Inserts(t, c)

\* The statements after the one that writes the contract.
HasWritten(t) ==
  \/ pc[t] \in {"sell_unit", "free_unit", "convert_status"}
  \/ pc[t] = "commit" /\ req[t].op \in {"convert", "activate", "complete", "default"}

WriterLocks(t) == HasWritten(t) => ConLocker(req[t].contract) = t

\* The unit a request remembers is its contract's, which never changes.
UnitIsRemembered(t) ==
  pc[t] # "idle" /\ req[t].op \in OnContract =>
    /\ Con(req[t].contract).status # "none"
    /\ req[t].op \in {"activate", "cancel", "terminate"} =>
         Con(req[t].contract).unit = req[t].unit

ContractsSoundFor(t) == ContractLocks(t) /\ WriterLocks(t) /\ UnitIsRemembered(t)
ContractsSound == \A t \in Tx : ContractsSoundFor(t)

\* No two contracts of a unit are active, or will be when open transactions end.
OneActive ==
  \A c, d \in Contracts : c # d =>
    \A x \in {Con(c), NewCon(c)}, y \in {Con(d), NewCon(d)} :
      ~(x.status = "active" /\ y.status = "active" /\ x.unit = y.unit)

Sound == Typed /\ ContractsSound /\ OneActive

-----------------------------------------------------------------------------
(***************************************************************************)
(* Reservations.                                                           *)
(***************************************************************************)
\* What is done to a reservation that is locked.
ReservationLocks(t) ==
  \A r \in Reservations :
    ResLocker(r) = t =>
      \/ Res(r).status = "active" /\ NewRes(r).status = "expired"
      \/ /\ req[t].op = "reserve" /\ pc[t] \in {"reserve_unit", "commit"}
         /\ Res(r) = NoReservation /\ NewRes(r).status = "active"
      \/ /\ r = req[t].reservation /\ Res(r).status = "active"
         /\ \/ /\ req[t].op = "convert" /\ pc[t] = "commit"
               /\ NewRes(r).status = "converted"
            \/ /\ req[t].op = "cancel_reservation" /\ NewRes(r).status = "cancelled"
               /\ pc[t] \in {"look_for_holder", "release_unit", "commit"}

\* An idle transaction has locked none, and a conversion converts its own.
Converts(t) ==
  /\ pc[t] = "idle" => \A r \in Reservations : ResLocker(r) # t
  /\ pc[t] = "commit" /\ req[t].op = "convert" =>
       /\ ResLocker(req[t].reservation) = t
       /\ NewRes(req[t].reservation).status = "converted"

\* An active reservation of u.
Holds(row, u) == row = [status |-> "active", unit |-> u]

\* A unit has one active reservation, before and after every open transaction
\* ends: one that replaces another is inserted by whoever expires that one.
OneReservation ==
  \A q, r \in Reservations, u \in Units : q # r =>
    /\ ~(Holds(Res(q), u) /\ Holds(Res(r), u))
    /\ ~(Holds(NewRes(q), u) /\ Holds(NewRes(r), u))
    /\ Holds(Res(q), u) /\ Holds(NewRes(r), u) => ResLocker(q) = ResLocker(r)

\* The entry that a conversion has made c, which only a conversion inserts.
Conversion(c) == <<"convert_reservation", c>>

LogsConversion(t) ==
  /\ pc[t] # "commit" => entry[t] = {}
  /\ pc[t] = "commit" =>
       \A c \in Contracts :
         Conversion(c) \in entry[t] <=> req[t].op = "convert" /\ c = req[t].contract

\* Contracts that a conversion made come from reservations that are converted,
\* each from its own.
ConvertedFrom(c, r) == Con(c).source = r /\ Conversion(c) \in audit

SourceConverted ==
  /\ \A c \in Contracts : Conversion(c) \in audit => Con(c) # NoContract
  /\ \A r \in Reservations :
       /\ \A c \in Contracts : ConvertedFrom(c, r) => Res(r).status = "converted"
       /\ \A c, d \in Contracts : ConvertedFrom(c, r) /\ ConvertedFrom(d, r) => c = d
       /\ Res(r).status = "converted" => \E c \in Contracts : ConvertedFrom(c, r)

ReservationsSound ==
  /\ \A t \in Tx : ReservationLocks(t) /\ Converts(t) /\ LogsConversion(t)
  /\ OneReservation /\ SourceConverted

-----------------------------------------------------------------------------
(***************************************************************************)
(* Units.                                                                  *)
(***************************************************************************)
\* t will commit that its contract is cancelled or terminated.
WillEnd(t) ==
  /\ pc[t] = "commit" /\ req[t].op \in {"cancel", "terminate"}
  /\ ConLocker(req[t].contract) = t

\* It makes the unit available then; only an activation makes a unit sold.
UnitLocks(t) ==
  /\ \A u \in Units : owner.units[u] = t =>
       /\ pc[t] = "commit"
       /\ dirty.units[u] = "sold" => req[t].op = "activate" /\ u = req[t].unit
  /\ WillEnd(t) =>
       owner.units[req[t].unit] = t /\ dirty.units[req[t].unit] = "available"

UnitsSound == SoldHasContract /\ \A t \in Tx : UnitLocks(t)

-----------------------------------------------------------------------------
(***************************************************************************)
(* Approvals.                                                              *)
(***************************************************************************)
Approved(c, type) ==
  \E a \in ApprovalIds :
    db.approval_requests[a] = [status |-> "approved", contract |-> c, type |-> type]

\* Only a new request for approval is ever locked.
ApprovalLocks(t) ==
  \A a \in ApprovalIds :
    owner.approval_requests[a] = t =>
      pc[t] = "commit" /\ db.approval_requests[a] = NoApproval

\* Who is about to end an active contract, or has, was approved to.
EndApproved(t) ==
  (pc[t] \in {"end_contract", "free_unit"} \/ WillEnd(t)) /\ req[t].from = "active" =>
    Approved(req[t].contract, req[t].type)

ApprovalsSound == \A t \in Tx : ApprovalLocks(t) /\ EndApproved(t)

-----------------------------------------------------------------------------
(***************************************************************************)
(* Schedule lines and their receivables.                                   *)
(***************************************************************************)
ReceivableOf(t, l) == Sees(t, "receivables", l)

\* Lines of its contract that t has inserted, all of them from the first on,
\* or changed: what is billed stays so.
LineLocks(t) ==
  \A c \in Contracts, n \in LineNos :
    LineLocker(<<c, n>>) = t =>
      /\ \/ req[t].op = "activate" /\ pc[t] \in {"bill_lines", "sell_unit", "commit"}
         \/ req[t].op \in {"generate", "update_line"} /\ pc[t] = "commit"
      /\ c = req[t].contract
      /\ NewLine(<<c, n>>) # NoLine
      /\ Line(<<c, n>>).receivable => NewLine(<<c, n>>).receivable
      /\ NewLine(<<c, n>>).receivable /\ ~Line(<<c, n>>).receivable =>
           ReceivableOf(t, <<c, n>>) # NoReceivable
      /\ Line(<<c, n>>) = NoLine =>
           LineLocker(<<c, 1>>) = t /\ Line(<<c, 1>>) = NoLine

ReceivableLocks(t) ==
  \A l \in Lines :
    RecLocker(l) = t =>
      /\ req[t].op = "activate" /\ pc[t] \in {"bill_lines", "sell_unit", "commit"}
      /\ NewRec(l) # NoReceivable

\* t sees line n of c, or has it billed.
SeesLine(t, c, n)   == LineOf(t, <<c, n>>) # NoLine
SeesBilled(t, c, n) ==
  LineOf(t, <<c, n>>).receivable /\ ReceivableOf(t, <<c, n>>) # NoReceivable

\* An activation has billed every line but those it has still to do.
BillsAll(t) ==
  /\ pc[t] \in {"bill_lines", "sell_unit", "commit"} /\ req[t].op = "activate" =>
       /\ 1 \in LineNos /\ SeesLine(t, req[t].contract, 1)
       /\ \A n \in LineNos : SeesLine(t, req[t].contract, n) =>
            \/ SeesBilled(t, req[t].contract, n)
            \/ pc[t] = "bill_lines" /\ n \in DOMAIN todo[t]
       /\ pc[t] = "bill_lines" =>
            \A n \in DOMAIN todo[t] : SeesLine(t, req[t].contract, n)
  /\ pc[t] = "update_line" => SeesLine(t, req[t].contract, req[t].line)

\* Lines are committed from the first on, and billed together with their
\* receivables; a contract that was activated is billed.
LinesInOrder ==
  \A c \in Contracts, n \in LineNos :
    /\ Line(<<c, n>>) # NoLine => Line(<<c, 1>>) # NoLine
    /\ Line(<<c, n>>).receivable => Rec(<<c, n>>) # NoReceivable

LinesSound ==
  /\ \A t \in Tx : LineLocks(t) /\ ReceivableLocks(t) /\ BillsAll(t)
  /\ LinesInOrder /\ ActiveIsBilled

-----------------------------------------------------------------------------
(***************************************************************************)
(* The audit log.                                                          *)
(***************************************************************************)
EventOf == [active |-> "activate_contract", cancelled |-> "cancelled",
            terminated |-> "terminated", completed |-> "completed",
            defaulted |-> "defaulted"]

\* At its commit a transaction has an entry for the new status of a contract
\* if and only if it has changed that contract's status.
LogsMove(t) ==
  /\ pc[t] # "commit" => entry[t] = {}
  /\ pc[t] = "commit" =>
       \A c \in Contracts, s \in DOMAIN EventOf :
         <<EventOf[s], c>> \in entry[t] <=> ConLocker(c) = t /\ NewCon(c).status = s

AuditSound == EveryChangeIsAudited /\ \A t \in Tx : LogsMove(t)

-----------------------------------------------------------------------------
(***************************************************************************)
(* What a statement does to the tables, row by row.                        *)
(***************************************************************************)
\* RowReleased of ReadCommittedProofs: only a statement "commit" commits.
RowEnds(t, tab, id) ==
  /\ owner'[tab][id] = IF owner[tab][id] = t THEN Nil ELSE owner[tab][id]
  /\ \/ /\ CommitTx(t) /\ pc[t] = "commit"
        /\ dirty'[tab][id] = dirty[tab][id]
        /\ db'[tab][id] = IF owner[tab][id] = t THEN dirty[tab][id] ELSE db[tab][id]
     \/ /\ RollbackTx(t)
        /\ db'[tab][id] = db[tab][id]
        /\ dirty'[tab][id] = IF owner[tab][id] = t THEN db[tab][id] ELSE dirty[tab][id]

TableStays(tab) == \A id \in Rows[tab] : RowStays(tab, id)

OthersStayBut(tab, id) ==
  /\ \A other \in Rows[tab] \ {id} : RowStays(tab, other)
  /\ \A other \in TableName \ {tab} : TableStays(other)

WritesRow(t, tab, id, row)  == RowWritten(t, tab, id, row) /\ OthersStayBut(tab, id)
ReplacesRow(tab, id, row)   == RowReplaced(tab, id, row) /\ OthersStayBut(tab, id)

\* StorageTypeOK is what ReadCommittedProofs says of Rows and RowType.
LEMMA StorageIsTyped ==
  DOMAIN Rows = TableName /\ (StorageTypeOK <=> TablesTyped(Rows, RowType))
<1>1. DOMAIN Rows = TableName
  BY DEF Rows, TableName
<1>2. ASSUME NEW f PROVE Shaped(f) <=> HasRows(f, Rows)
  BY <1>1 DEF Shaped, HasRows
<1> QED BY <1>1, <1>2 DEF StorageTypeOK, TablesTyped

\* The same of the next state.
LEMMA StorageIsTypedNext ==
  DOMAIN Rows = TableName /\ (StorageTypeOK' <=> TablesTyped(Rows, RowType)')
<1>1. (DOMAIN Rows = TableName /\ (StorageTypeOK <=> TablesTyped(Rows, RowType)))'
  BY StorageIsTyped, PTL
<1> QED BY <1>1

LEMMA StorageTabular ==
  ASSUME StorageTypeOK
  PROVE  /\ Tabular /\ DOMAIN db = TableName
         /\ \A tab \in TableName : DOMAIN db[tab] = Rows[tab]
BY StorageIsTyped, TypedTabular

\* Write writes one row.
LEMMA WriteEffect ==
  ASSUME StorageTypeOK, NEW t \in Tx, NEW tab \in TableName,
         NEW id \in Rows[tab], NEW row, Write(t, tab, id, row)
  PROVE  /\ WritesRow(t, tab, id, row)
         /\ row \in RowType[tab] => StorageTypeOK'
         /\ DirtyIsCommitted => DirtyIsCommitted'
<1>1. /\ RowWritten(t, tab, id, row) /\ RowsStayBut(tab, id, Rows)
      /\ row \in RowType[tab] => TablesTyped(Rows, RowType)'
      /\ DirtyIsCommitted => DirtyIsCommitted'
  BY StorageIsTyped, TypedWrite
<1> QED BY <1>1, StorageIsTyped, StorageIsTypedNext
        DEF WritesRow, OthersStayBut, TableStays, RowsStayBut

\* WriteAndCommit replaces one row.
LEMMA WriteAndCommitEffect ==
  ASSUME StorageTypeOK, NEW tab \in TableName,
         NEW id \in Rows[tab], NEW row, WriteAndCommit(tab, id, row)
  PROVE  /\ ReplacesRow(tab, id, row)
         /\ row \in RowType[tab] => StorageTypeOK'
         /\ DirtyIsCommitted => DirtyIsCommitted'
<1>1. /\ RowReplaced(tab, id, row) /\ RowsStayBut(tab, id, Rows)
      /\ row \in RowType[tab] => TablesTyped(Rows, RowType)'
      /\ DirtyIsCommitted => DirtyIsCommitted'
  BY StorageIsTyped, TypedReplace
<1> QED BY <1>1, StorageIsTyped, StorageIsTypedNext
        DEF ReplacesRow, OthersStayBut, TableStays, RowsStayBut

\* WriteAll writes the rows it is given.
LEMMA WriteAllEffect ==
  ASSUME StorageTypeOK, NEW t \in Tx, NEW rows, WriteAll(t, rows),
         \A r \in rows : r[1] \in TableName /\ r[2] \in Rows[r[1]],
         \A r, s \in rows : r[1] = s[1] /\ r[2] = s[2] => r = s
  PROVE  /\ \A tab \in TableName : \A id \in Rows[tab] :
              /\ \A r \in rows : r[1] = tab /\ r[2] = id => RowWritten(t, tab, id, r[3])
              /\ (\A r \in rows : ~(r[1] = tab /\ r[2] = id)) => RowStays(tab, id)
         /\ (\A r \in rows : r[3] \in RowType[r[1]]) => StorageTypeOK'
         /\ DirtyIsCommitted => DirtyIsCommitted'
<1>1. /\ \A tab \in DOMAIN Rows : \A id \in Rows[tab] :
           /\ \A r \in rows : r[1] = tab /\ r[2] = id => RowWritten(t, tab, id, r[3])
           /\ (\A r \in rows : ~(r[1] = tab /\ r[2] = id)) => RowStays(tab, id)
      /\ (\A r \in rows : r[3] \in RowType[r[1]]) => TablesTyped(Rows, RowType)'
      /\ DirtyIsCommitted => DirtyIsCommitted'
  <2>1. /\ TablesTyped(Rows, RowType)
        /\ \A r \in rows : r[1] \in DOMAIN Rows /\ r[2] \in Rows[r[1]]
    BY StorageIsTyped
  <2> QED BY <2>1, TypedWriteAll
<1> QED BY <1>1, StorageIsTyped, StorageIsTypedNext

\* A transaction that ends.
LEMMA EndEffect ==
  ASSUME StorageTypeOK, NEW t \in Tx,
         (CommitTx(t) /\ pc[t] = "commit") \/ RollbackTx(t)
  PROVE  /\ \A tab \in TableName : \A id \in Rows[tab] : RowEnds(t, tab, id)
         /\ StorageTypeOK'
         /\ DirtyIsCommitted => DirtyIsCommitted'
<1>1. /\ Tabular /\ DOMAIN db = TableName
      /\ \A x \in TableName : DOMAIN db[x] = Rows[x]
  BY StorageTabular
<1>2. /\ TablesTyped(Rows, RowType)'
      /\ DirtyIsCommitted => DirtyIsCommitted'
  BY StorageIsTyped, TypedEnd
<1>3. \A tab \in TableName : \A id \in Rows[tab] : RowEnds(t, tab, id)
  BY <1>1, EndChanges DEF RowEnds
<1> QED BY <1>2, <1>3, StorageIsTypedNext

-----------------------------------------------------------------------------
(***************************************************************************)
(* What a step does to its request.                                        *)
(***************************************************************************)
USE DEF At, Goto, Next_

OthersStay(t) ==
  \A x \in Tx \ {t} : /\ pc'[x] = pc[x] /\ req'[x] = req[x]
                      /\ todo'[x] = todo[x] /\ entry'[x] = entry[x]

\* A step of t changes no other transaction's request, nor what it remembers.
LEMMA ControlFrame ==
  ASSUME ControlTypeOK, NEW t \in Tx, Start(t) \/ Step(t)
  PROVE  /\ OthersStay(t) /\ late' = late
         /\ byHand' \subseteq Units
         /\ pc'[t] \in Statement => pc' \in [Tx -> Statement]
         /\ req'[t] \in Request \cup {Nil} => req' \in [Tx -> Request \cup {Nil}]
         /\ DOMAIN todo' = Tx /\ DOMAIN entry' = Tx
<1> DEFINE Frame == /\ \E stmt : pc' = [pc EXCEPT ![t] = stmt]
                    /\ req' = req \/ \E q : req' = [req EXCEPT ![t] = q]
                    /\ todo' = todo \/ \E f : todo' = [todo EXCEPT ![t] = f]
                    /\ entry' = entry \/ \E f : entry' = [entry EXCEPT ![t] = f]
                    /\ late' = late /\ byHand' \subseteq byHand
<1>1. ASSUME Start(t) PROVE Frame
  BY <1>1 DEF Begin, Start, CreateReservation, CreateSalesContract, ConvertReservation,
     CancelReservation, UpdateSalesContract, ActivateSalesContract, CancelSalesContract,
     CancelDraft, ApprovalGate, TerminateSalesContract, CompleteSalesContract,
     MarkSalesContractDefaulted, GenerateSalesContractSchedule,
     UpdateInstallmentScheduleLine
<1>2. \A e, id : Log(t, e, id) => Frame
  BY DEF Log
<1>3. \A stmt : Next_(t, stmt) => Frame
  OBVIOUS
<1>4. Commit(t) \/ Rollback(t) => Frame
  BY DEF Commit, Rollback, EndRequest
<1>5. InsertReservation(t) \/ ConvertInsertContract(t) => Frame
  <2>1. ASSUME InsertReservation(t) PROVE Frame
    <3>1. PICK r : req' = [req EXCEPT ![t].reservation = r]
      BY <2>1 DEF InsertReservation
    <3>2. req' = [req EXCEPT ![t] = [req[t] EXCEPT !.reservation = r]]
      BY <3>1
    <3> QED BY <2>1, <3>2 DEF InsertReservation
  <2>2. ASSUME ConvertInsertContract(t) PROVE Frame
    <3>1. PICK c : req' = [req EXCEPT ![t].contract = c]
      BY <2>2 DEF ConvertInsertContract
    <3>2. req' = [req EXCEPT ![t] = [req[t] EXCEPT !.contract = c]]
      BY <3>1
    <3> QED BY <2>2, <3>2 DEF ConvertInsertContract
  <2> QED BY <2>1, <2>2
<1>6. ActivateListLines(t) => Frame
  BY DEF ActivateListLines
<1>7. BillLine(t) => Frame
  <2> SUFFICES ASSUME BillLine(t) PROVE Frame
    OBVIOUS
  <2>1. PICK n : todo' = [todo EXCEPT ![t] = [m \in DOMAIN todo[t] \ {n} |-> todo[t][m]]]
    BY DEF BillLine
  <2>2. /\ pc' = [pc EXCEPT ![t] = pc[t]] /\ req' = req /\ entry' = entry /\ late' = late
        /\ byHand' = byHand
    BY DEF BillLine, ControlTypeOK
  <2>3. \E f : todo' = [todo EXCEPT ![t] = f]
    BY <2>1
  <2> QED BY <2>2, <2>3
<1>8. ASSUME Step(t) PROVE Frame
  <2> HIDE DEF Frame
  <2> QED BY <1>2, <1>3, <1>4, <1>5, <1>6, <1>7, <1>8
     DEF Step, ReserveUnit, ConvertStatus, CancelReservationStatus, LookForHolder,
         ReleaseUnit, InsertContract, UpdateContract, ActivateStatus, SellUnit,
         EndContract, FreeUnit, InsertApproval, CompleteStatus, DefaultStatus,
         InsertLines, UpdateLine
<1>9. Frame
  BY <1>1, <1>8
<1>10. /\ pc \in [Tx -> Statement] /\ req \in [Tx -> Request \cup {Nil}]
       /\ DOMAIN todo = Tx /\ DOMAIN entry = Tx /\ byHand \subseteq Units
  BY DEF ControlTypeOK
<1>11. /\ DOMAIN todo' = Tx /\ \A x \in Tx \ {t} : todo'[x] = todo[x]
       /\ DOMAIN entry' = Tx /\ \A x \in Tx \ {t} : entry'[x] = entry[x]
  BY <1>9, <1>10
<1>12. /\ \A x \in Tx \ {t} : pc'[x] = pc[x] /\ req'[x] = req[x]
       /\ pc'[t] \in Statement => pc' \in [Tx -> Statement]
       /\ req'[t] \in Request \cup {Nil} => req' \in [Tx -> Request \cup {Nil}]
  BY <1>9, <1>10
<1> QED BY <1>9, <1>10, <1>11, <1>12 DEF OthersStay

\* The reservations whose expiry t writes down.
ExpiresLate(t) ==
  /\ \A r \in Reservations :
       \/ RowStays("reservations", r)
       \/ /\ NewRes(r).status = "active"
          /\ RowWritten(t, "reservations", r, [NewRes(r) EXCEPT !.status = "expired"])
  /\ \A tab \in TableName \ {"reservations"} : TableStays(tab)

FirstStatement == {"insert_reservation", "convert_insert", "cancel_reservation",
                   "insert_contract", "update_contract", "list_lines", "end_contract",
                   "insert_approval", "complete_status", "default_status",
                   "insert_lines", "update_line"}

\* A request that begins.
Begun(t) ==
  /\ pc[t] = "idle" /\ OthersStay(t) /\ UNCHANGED <<audit, byHand>>
  /\ todo'[t] = todo[t] /\ entry'[t] = entry[t]
  /\ req'[t] \in Request /\ FieldsOK(req'[t], pc'[t])
  /\ pc'[t] \in FirstStatement /\ pc'[t] \in StatementsOf(req'[t].op)
  /\ UNCHANGED storage \/ ExpiresLate(t)
  /\ req'[t].op \in OnContract =>
       /\ ContractOf(t, req'[t].contract).status # "none"
       /\ req'[t].op \in {"activate", "cancel", "terminate"} =>
            req'[t].unit = ContractOf(t, req'[t].contract).unit
  /\ pc'[t] = "end_contract" /\ req'[t].from = "active" =>
       GetLatestSalesApprovalRequest(t, req'[t].contract, req'[t].type) = "approved"
  /\ pc'[t] = "update_line" => LineOf(t, <<req'[t].contract, req'[t].line>>) # NoLine

\* A request before it is known what it asks for.
Draft == [op : {Nil}, unit : Units \cup {Nil}, reservation : Reservations \cup {Nil},
          contract : Contracts \cup {Nil}, line : LineNos \cup {Nil},
          principal : Principals \cup {Nil}, template : BOOLEAN,
          type : RequestType \cup {Nil}, from : ContractStatus \cup {Nil},
          to : ContractStatus \cup {Nil}]

\* Setting a field of a request.
LEMMA RequestFields ==
  /\ Blank \in Draft
  /\ \A q \in Draft :
       /\ \A x \in Units : [q EXCEPT !.unit = x] \in Draft
       /\ \A x \in Reservations \cup {Nil} : [q EXCEPT !.reservation = x] \in Draft
       /\ \A x \in Contracts : [q EXCEPT !.contract = x] \in Draft
       /\ \A x \in LineNos : [q EXCEPT !.line = x] \in Draft
       /\ \A x \in Principals : [q EXCEPT !.principal = x] \in Draft
       /\ \A x \in BOOLEAN : [q EXCEPT !.template = x] \in Draft
       /\ \A x \in RequestType : [q EXCEPT !.type = x] \in Draft
       /\ \A x \in ContractStatus : [q EXCEPT !.from = x] \in Draft
       /\ \A x \in ContractStatus : [q EXCEPT !.to = x] \in Draft
       /\ \A x \in AllOps : [q EXCEPT !.op = x] \in Request
  /\ \A q \in Request :
       /\ \A x \in Reservations : [q EXCEPT !.reservation = x] \in Request
       /\ \A x \in Contracts : [q EXCEPT !.contract = x] \in Request
BY DEF Blank, Draft, Request

\* What is read of a reservation or a contract is a row of its table.
LEMMA ReadRows ==
  ASSUME Typed, NEW t \in Tx
  PROVE  /\ \A r \in Reservations :
              /\ ReservationOf(t, r) \in ReservationRow
              /\ ReservationOf(t, r).status # "none" => ReservationOf(t, r).unit \in Units
         /\ \A c \in Contracts :
              /\ ContractOf(t, c) \in ContractRow
              /\ ContractOf(t, c).status # "none" => ContractOf(t, c).unit \in Units
         /\ \A l \in Lines : LineOf(t, l) \in LineRow
<1>1. {"reservations", "sales_contracts", "installment_schedule_lines"} \subseteq TableName
  BY DEF TableName
<1>2. /\ \A r \in Reservations : Res(r) \in ReservationRow /\ NewRes(r) \in ReservationRow
      /\ \A c \in Contracts : Con(c) \in ContractRow /\ NewCon(c) \in ContractRow
      /\ \A l \in Lines : Line(l) \in LineRow /\ NewLine(l) \in LineRow
  BY <1>1 DEF Typed, StorageTypeOK, Rows, RowType, Res, NewRes, Con, NewCon, Line, NewLine
<1>3. /\ \A r \in Reservations : ReservationRowOK(Res(r)) /\ ReservationRowOK(NewRes(r))
      /\ \A c \in Contracts : ContractRowOK(Con(c)) /\ ContractRowOK(NewCon(c))
  BY DEF Typed, RowsOK
<1>4. /\ \A r \in Reservations : ReservationOf(t, r) \in {Res(r), NewRes(r)}
      /\ \A c \in Contracts : ContractOf(t, c) \in {Con(c), NewCon(c)}
      /\ \A l \in Lines : LineOf(t, l) \in {Line(l), NewLine(l)}
  BY DEF ReservationOf, ContractOf, LineOf, Sees, Res, NewRes, Con, NewCon, Line, NewLine
<1>5. /\ \A r \in Reservations : ReservationOf(t, r) \in ReservationRow
      /\ \A c \in Contracts : ContractOf(t, c) \in ContractRow
      /\ \A l \in Lines : LineOf(t, l) \in LineRow
  BY <1>2, <1>4
<1>6. \A r \in Reservations :
        ReservationOf(t, r).status # "none" => ReservationOf(t, r).unit \in Units
  BY <1>3, <1>4 DEF ReservationRowOK, NoReservation
<1>7. \A c \in Contracts :
        ContractOf(t, c).status # "none" => ContractOf(t, c).unit \in Units
  BY <1>3, <1>4 DEF ContractRowOK, NoContract
<1> QED BY <1>5, <1>6, <1>7

\* The statement that expires reservations.
LEMMA ExpireEffect ==
  ASSUME StorageTypeOK, DirtyIsCommitted, late \subseteq Reservations,
         NEW t \in Tx, ExpireReservations(t)
  PROVE  ExpiresLate(t) /\ StorageTypeOK' /\ DirtyIsCommitted'
<1> DEFINE tab == "reservations"
           still == {r \in late : /\ ReservationOf(t, r).status = "active"
                                  /\ dirty.reservations[r].status = "active"}
           New(r) == [dirty.reservations[r] EXCEPT !.status = "expired"]
           rows == {<<tab, r, New(r)>> : r \in still}
<1>1. WriteAll(t, rows)
  <2>1. rows = {<<"reservations", r, [dirty.reservations[r] EXCEPT !.status = "expired"]>> :
                r \in {r \in {r \in late : ReservationOf(t, r).status = "active"} :
                         dirty.reservations[r].status = "active"}}
    OBVIOUS
  <2> QED BY <2>1 DEF ExpireReservations
<1>2. /\ tab \in TableName /\ Rows[tab] = Reservations /\ RowType[tab] = ReservationRow
      /\ still \subseteq Reservations
  BY DEF TableName, Rows, RowType
<1>3. \A r \in still : New(r) \in ReservationRow /\ NewRes(r).status = "active"
  <2>1. \A r \in Reservations : dirty[tab][r] \in ReservationRow
    BY <1>2 DEF StorageTypeOK
  <2> QED BY <1>2, <2>1 DEF ReservationRow, ReservationStatus, NewRes
<1>4. /\ \A w \in rows : w[1] \in TableName /\ w[2] \in Rows[w[1]] /\ w[3] \in RowType[w[1]]
      /\ \A v, w \in rows : v[1] = w[1] /\ v[2] = w[2] => v = w
  <2> HIDE DEF New, still
  <2> QED BY <1>2, <1>3
<1>5. /\ \A x \in TableName : \A id \in Rows[x] :
           /\ \A w \in rows : w[1] = x /\ w[2] = id => RowWritten(t, x, id, w[3])
           /\ (\A w \in rows : ~(w[1] = x /\ w[2] = id)) => RowStays(x, id)
      /\ StorageTypeOK' /\ DirtyIsCommitted'
  <2> HIDE DEF rows
  <2> QED BY <1>1, <1>4, WriteAllEffect
<1>6. ASSUME NEW r \in still PROVE RowWritten(t, tab, r, New(r))
  <2>1. <<tab, r, New(r)>> \in rows
    OBVIOUS
  <2>2. r \in Rows[tab] /\ <<tab, r, New(r)>>[1] = tab /\ <<tab, r, New(r)>>[2] = r
        /\ <<tab, r, New(r)>>[3] = New(r)
    BY <1>2
  <2> HIDE DEF rows, New, still
  <2> QED BY <1>2, <1>5, <2>1, <2>2
<1>7. ASSUME NEW r \in Reservations \ still PROVE RowStays(tab, r)
  <2>1. \A w \in rows : ~(w[1] = tab /\ w[2] = r)
    <3> HIDE DEF New, still
    <3> QED BY <1>7
  <2> HIDE DEF rows
  <2> QED BY <1>2, <1>5, <2>1
<1>8. ASSUME NEW x \in TableName \ {tab} PROVE TableStays(x)
  <2>1. \A w \in rows : w[1] # x
    <3> HIDE DEF New, still
    <3> QED BY <1>8
  <2> HIDE DEF rows
  <2> QED BY <1>5, <2>1 DEF TableStays
<1>9. ExpiresLate(t)
  <2>1. \A r \in still : New(r) = [NewRes(r) EXCEPT !.status = "expired"]
    BY DEF NewRes
  <2> HIDE DEF New, still
  <2> QED BY <1>2, <1>3, <1>6, <1>7, <1>8, <2>1 DEF ExpiresLate
<1> QED BY <1>5, <1>9

\* What each handler remembers when it begins.
LEMMA StartEffect ==
  ASSUME Typed, NEW t \in Tx, Start(t)
  PROVE  Begun(t) /\ StorageTypeOK' /\ DirtyIsCommitted'
<1> DEFINE Asks(op, q, stmt) ==
             /\ pc[t] = "idle" /\ pc'[t] = stmt /\ req'[t] = [q EXCEPT !.op = op]
             /\ todo'[t] = todo[t] /\ entry'[t] = entry[t] /\ UNCHANGED <<audit, byHand>>
<1>1. /\ pc \in [Tx -> Statement] /\ req \in [Tx -> Request \cup {Nil}]
      /\ StorageTypeOK /\ DirtyIsCommitted /\ OthersStay(t)
      /\ late \subseteq Reservations
  BY ControlFrame DEF Typed, ControlTypeOK
<1>2. \A op, q, stmt : Begin(t, op, q, stmt) => Asks(op, q, stmt)
  BY <1>1 DEF Begin
<1>3. UNCHANGED storage => StorageTypeOK' /\ DirtyIsCommitted'
  BY <1>1 DEF storage, StorageTypeOK, Shaped, DirtyIsCommitted
<1>4. ExpireReservations(t) => ExpiresLate(t) /\ StorageTypeOK' /\ DirtyIsCommitted'
  BY <1>1, ExpireEffect
<1>5. /\ AllOps = {"reserve", "convert", "cancel_reservation", "create", "update",
                   "activate", "cancel", "terminate", "complete", "default",
                   "generate", "update_line", "submit_approval"}
      /\ {"draft", "active", "cancelled", "terminated"} \subseteq ContractStatus
      /\ RequestType = {"contract_cancellation", "contract_termination",
                        "schedule_restructure"}
      /\ {TRUE, FALSE} \subseteq BOOLEAN
  BY DEF AllOps, ContractStatus, RequestType
<1> HIDE DEF Asks
<1>7. ASSUME NEW q \in Request, req'[t] = q, FieldsOK(q, pc'[t]), q.op \notin OnContract,
             pc[t] = "idle", pc'[t] \in FirstStatement \cap StatementsOf(q.op),
             pc'[t] \notin {"end_contract", "update_line"},
             todo'[t] = todo[t], entry'[t] = entry[t], UNCHANGED <<audit, byHand>>,
             UNCHANGED storage \/ ExpiresLate(t)
      PROVE  Begun(t)
  BY <1>1, <1>7 DEF Begun
<1>8. ASSUME NEW u \in Units, CreateReservation(t, u)
      PROVE  Begun(t) /\ StorageTypeOK' /\ DirtyIsCommitted'
  <2> DEFINE q == [[Blank EXCEPT !.unit = u] EXCEPT !.op = "reserve"]
  <2>1. q.op = "reserve" /\ q.unit = u
    BY DEF Blank
  <2>2. q \in Request
    BY <1>5, RequestFields, Zenon
  <2>3. ExpireReservations(t) /\ Asks("reserve", [Blank EXCEPT !.unit = u], "insert_reservation")
    BY <1>2, <1>8 DEF CreateReservation
  <2>4. /\ pc[t] = "idle" /\ pc'[t] = "insert_reservation" /\ req'[t] = q
        /\ todo'[t] = todo[t] /\ entry'[t] = entry[t] /\ UNCHANGED <<audit, byHand>>
    BY <2>3 DEF Asks
  <2> HIDE DEF q
  <2>5. FieldsOK(q, "insert_reservation") /\ q.op \notin OnContract
        /\ "insert_reservation" \in FirstStatement \cap StatementsOf(q.op)
    BY <2>1 DEF FieldsOK, OnContract, FirstStatement, StatementsOf
  <2> QED BY <1>4, <1>7, <2>2, <2>3, <2>4, <2>5
<1>9. ASSUME NEW r \in Reservations, ConvertReservation(t, r)
      PROVE  Begun(t) /\ StorageTypeOK' /\ DirtyIsCommitted'
  <2> DEFINE u == ReservationOf(t, r).unit
             q == [[Blank EXCEPT !.reservation = r, !.unit = u] EXCEPT !.op = "convert"]
  <2>0. u \in Units
    BY <1>9, ReadRows DEF ConvertReservation
  <2>1. q.op = "convert" /\ q.unit = u /\ q.reservation = r
    BY DEF Blank
  <2>2. q \in Request
    <3> HIDE DEF u
    <3> QED BY <1>5, <2>0, RequestFields, Zenon
  <2>3. /\ ExpireReservations(t)
        /\ Asks("convert", [Blank EXCEPT !.reservation = r, !.unit = u], "convert_insert")
    BY <1>2, <1>9 DEF ConvertReservation
  <2>4. /\ pc[t] = "idle" /\ pc'[t] = "convert_insert" /\ req'[t] = q
        /\ todo'[t] = todo[t] /\ entry'[t] = entry[t] /\ UNCHANGED <<audit, byHand>>
    BY <2>3 DEF Asks
  <2> HIDE DEF q, u
  <2>5. FieldsOK(q, "convert_insert") /\ q.op \notin OnContract
        /\ "convert_insert" \in FirstStatement \cap StatementsOf(q.op)
    BY <2>0, <2>1 DEF FieldsOK, OnContract, FirstStatement, StatementsOf
  <2> QED BY <1>4, <1>7, <2>2, <2>3, <2>4, <2>5
<1>10. ASSUME NEW r \in Reservations, CancelReservation(t, r)
       PROVE  Begun(t) /\ StorageTypeOK' /\ DirtyIsCommitted'
  <2> DEFINE u == ReservationOf(t, r).unit
             q == [[Blank EXCEPT !.reservation = r, !.unit = u]
                     EXCEPT !.op = "cancel_reservation"]
  <2>0. u \in Units
    BY <1>10, ReadRows DEF CancelReservation
  <2>1. q.op = "cancel_reservation" /\ q.unit = u /\ q.reservation = r
    BY DEF Blank
  <2>2. q \in Request
    <3> HIDE DEF u
    <3> QED BY <1>5, <2>0, RequestFields, Zenon
  <2>3. /\ UNCHANGED storage
        /\ Asks("cancel_reservation", [Blank EXCEPT !.reservation = r, !.unit = u],
                "cancel_reservation")
    BY <1>2, <1>10 DEF CancelReservation
  <2>4. /\ pc[t] = "idle" /\ pc'[t] = "cancel_reservation" /\ req'[t] = q
        /\ todo'[t] = todo[t] /\ entry'[t] = entry[t] /\ UNCHANGED <<audit, byHand>>
    BY <2>3 DEF Asks
  <2> HIDE DEF q, u
  <2>5. FieldsOK(q, "cancel_reservation") /\ q.op \notin OnContract
        /\ "cancel_reservation" \in FirstStatement \cap StatementsOf(q.op)
    BY <2>0, <2>1 DEF FieldsOK, OnContract, FirstStatement, StatementsOf
  <2> QED BY <1>3, <1>7, <2>2, <2>3, <2>4, <2>5
<1>11. ASSUME NEW u \in Units, NEW source \in Reservations \cup {Nil},
              NEW template \in BOOLEAN, CreateSalesContract(t, u, source, template)
       PROVE  Begun(t) /\ StorageTypeOK' /\ DirtyIsCommitted'
  <2> DEFINE q == [[Blank EXCEPT !.unit = u, !.reservation = source, !.template = template]
                     EXCEPT !.op = "create"]
  <2>1. q.op = "create" /\ q.unit = u /\ q.reservation = source
    BY DEF Blank
  <2>2. q \in Request
    BY <1>5, RequestFields, Zenon
  <2>3. /\ UNCHANGED storage
        /\ Asks("create",
                [Blank EXCEPT !.unit = u, !.reservation = source, !.template = template],
                "insert_contract")
    BY <1>2, <1>11 DEF CreateSalesContract
  <2>4. /\ pc[t] = "idle" /\ pc'[t] = "insert_contract" /\ req'[t] = q
        /\ todo'[t] = todo[t] /\ entry'[t] = entry[t] /\ UNCHANGED <<audit, byHand>>
    BY <2>3 DEF Asks
  <2> HIDE DEF q
  <2>5. FieldsOK(q, "insert_contract") /\ q.op \notin OnContract
        /\ "insert_contract" \in FirstStatement \cap StatementsOf(q.op)
    BY <2>1 DEF FieldsOK, OnContract, FirstStatement, StatementsOf
  <2> QED BY <1>3, <1>7, <2>2, <2>3, <2>4, <2>5
<1>12. ASSUME NEW q \in Request, req'[t] = q, FieldsOK(q, pc'[t]), q.op \in OnContract,
              pc[t] = "idle", pc'[t] \in FirstStatement \cap StatementsOf(q.op),
              todo'[t] = todo[t], entry'[t] = entry[t], UNCHANGED <<audit, byHand>>, UNCHANGED storage,
              ContractOf(t, q.contract).status # "none",
              q.op \in {"activate", "cancel", "terminate"} =>
                q.unit = ContractOf(t, q.contract).unit,
              pc'[t] = "end_contract" /\ q.from = "active" =>
                GetLatestSalesApprovalRequest(t, q.contract, q.type) = "approved",
              pc'[t] = "update_line" => LineOf(t, <<q.contract, q.line>>) # NoLine
       PROVE  Begun(t) /\ StorageTypeOK' /\ DirtyIsCommitted'
  BY <1>1, <1>3, <1>12 DEF Begun
<1>13. ASSUME NEW c \in Contracts, UpdateSalesContract(t, c)
       PROVE  Begun(t) /\ StorageTypeOK' /\ DirtyIsCommitted'
  <2> DEFINE q == [[Blank EXCEPT !.contract = c] EXCEPT !.op = "update"]
  <2>1. q.op = "update" /\ q.contract = c
    BY DEF Blank
  <2>2. q \in Request
    BY <1>5, RequestFields, Zenon
  <2>3. /\ UNCHANGED storage /\ ContractOf(t, c).status # "none"
        /\ Asks("update", [Blank EXCEPT !.contract = c], "update_contract")
    BY <1>2, <1>13 DEF UpdateSalesContract
  <2>4. /\ pc[t] = "idle" /\ pc'[t] = "update_contract" /\ req'[t] = q
        /\ todo'[t] = todo[t] /\ entry'[t] = entry[t] /\ UNCHANGED <<audit, byHand>>
    BY <2>3 DEF Asks
  <2> HIDE DEF q
  <2>5. FieldsOK(q, "update_contract") /\ q.op \in OnContract
        /\ "update_contract" \in FirstStatement \cap StatementsOf(q.op)
    BY <2>1 DEF FieldsOK, OnContract, FirstStatement, StatementsOf
  <2> QED BY <1>12, <2>1, <2>2, <2>3, <2>4, <2>5
<1>14. ASSUME NEW c \in Contracts, CompleteSalesContract(t, c)
       PROVE  Begun(t) /\ StorageTypeOK' /\ DirtyIsCommitted'
  <2> DEFINE q == [[Blank EXCEPT !.contract = c] EXCEPT !.op = "complete"]
  <2>1. q.op = "complete" /\ q.contract = c
    BY DEF Blank
  <2>2. q \in Request
    BY <1>5, RequestFields, Zenon
  <2>3. /\ UNCHANGED storage /\ ContractOf(t, c).status # "none"
        /\ Asks("complete", [Blank EXCEPT !.contract = c], "complete_status")
    BY <1>2, <1>14 DEF CompleteSalesContract
  <2>4. /\ pc[t] = "idle" /\ pc'[t] = "complete_status" /\ req'[t] = q
        /\ todo'[t] = todo[t] /\ entry'[t] = entry[t] /\ UNCHANGED <<audit, byHand>>
    BY <2>3 DEF Asks
  <2> HIDE DEF q
  <2>5. FieldsOK(q, "complete_status") /\ q.op \in OnContract
        /\ "complete_status" \in FirstStatement \cap StatementsOf(q.op)
    BY <2>1 DEF FieldsOK, OnContract, FirstStatement, StatementsOf
  <2> QED BY <1>12, <2>1, <2>2, <2>3, <2>4, <2>5
<1>15. ASSUME NEW c \in Contracts, MarkSalesContractDefaulted(t, c)
       PROVE  Begun(t) /\ StorageTypeOK' /\ DirtyIsCommitted'
  <2> DEFINE q == [[Blank EXCEPT !.contract = c] EXCEPT !.op = "default"]
  <2>1. q.op = "default" /\ q.contract = c
    BY DEF Blank
  <2>2. q \in Request
    BY <1>5, RequestFields, Zenon
  <2>3. /\ UNCHANGED storage /\ ContractOf(t, c).status # "none"
        /\ Asks("default", [Blank EXCEPT !.contract = c], "default_status")
    BY <1>2, <1>15 DEF MarkSalesContractDefaulted
  <2>4. /\ pc[t] = "idle" /\ pc'[t] = "default_status" /\ req'[t] = q
        /\ todo'[t] = todo[t] /\ entry'[t] = entry[t] /\ UNCHANGED <<audit, byHand>>
    BY <2>3 DEF Asks
  <2> HIDE DEF q
  <2>5. FieldsOK(q, "default_status") /\ q.op \in OnContract
        /\ "default_status" \in FirstStatement \cap StatementsOf(q.op)
    BY <2>1 DEF FieldsOK, OnContract, FirstStatement, StatementsOf
  <2> QED BY <1>12, <2>1, <2>2, <2>3, <2>4, <2>5
<1>16. ASSUME NEW c \in Contracts, GenerateSalesContractSchedule(t, c)
       PROVE  Begun(t) /\ StorageTypeOK' /\ DirtyIsCommitted'
  <2> DEFINE q == [[Blank EXCEPT !.contract = c] EXCEPT !.op = "generate"]
  <2>1. q.op = "generate" /\ q.contract = c
    BY DEF Blank
  <2>2. q \in Request
    BY <1>5, RequestFields, Zenon
  <2>3. /\ UNCHANGED storage /\ ContractOf(t, c).status # "none"
        /\ Asks("generate", [Blank EXCEPT !.contract = c], "insert_lines")
    BY <1>2, <1>16 DEF GenerateSalesContractSchedule
  <2>4. /\ pc[t] = "idle" /\ pc'[t] = "insert_lines" /\ req'[t] = q
        /\ todo'[t] = todo[t] /\ entry'[t] = entry[t] /\ UNCHANGED <<audit, byHand>>
    BY <2>3 DEF Asks
  <2> HIDE DEF q
  <2>5. FieldsOK(q, "insert_lines") /\ q.op \in OnContract
        /\ "insert_lines" \in FirstStatement \cap StatementsOf(q.op)
    BY <2>1 DEF FieldsOK, OnContract, FirstStatement, StatementsOf
  <2> QED BY <1>12, <2>1, <2>2, <2>3, <2>4, <2>5
<1>17. ASSUME NEW c \in Contracts, ActivateSalesContract(t, c)
       PROVE  Begun(t) /\ StorageTypeOK' /\ DirtyIsCommitted'
  <2> DEFINE u == ContractOf(t, c).unit
             b == ContractOf(t, c).template
             q == [[Blank EXCEPT !.contract = c, !.unit = u, !.template = b]
                     EXCEPT !.op = "activate"]
  <2>0. u \in Units /\ b \in BOOLEAN
    BY <1>17, ReadRows DEF ActivateSalesContract, ContractRow
  <2>1. q.op = "activate" /\ q.contract = c /\ q.unit = u
    BY DEF Blank
  <2>2. q \in Request
    <3> HIDE DEF u, b
    <3> QED BY <1>5, <2>0, RequestFields, Zenon
  <2>3. /\ UNCHANGED storage /\ ContractOf(t, c).status # "none"
        /\ Asks("activate", [Blank EXCEPT !.contract = c, !.unit = u, !.template = b],
                "list_lines")
    BY <1>2, <1>17 DEF ActivateSalesContract
  <2>4. /\ pc[t] = "idle" /\ pc'[t] = "list_lines" /\ req'[t] = q
        /\ todo'[t] = todo[t] /\ entry'[t] = entry[t] /\ UNCHANGED <<audit, byHand>>
    BY <2>3 DEF Asks
  <2> HIDE DEF q
  <2>5. FieldsOK(q, "list_lines") /\ q.op \in OnContract
        /\ "list_lines" \in FirstStatement \cap StatementsOf(q.op)
    <3> HIDE DEF u
    <3> QED BY <2>0, <2>1 DEF FieldsOK, OnContract, FirstStatement, StatementsOf
  <2> QED BY <1>12, <2>1, <2>2, <2>3, <2>4, <2>5
<1>18. ASSUME NEW c \in Contracts, CancelDraft(t, c)
       PROVE  Begun(t) /\ StorageTypeOK' /\ DirtyIsCommitted'
  <2> DEFINE u == ContractOf(t, c).unit
             q == [[Blank EXCEPT !.contract = c, !.unit = u, !.from = "draft",
                                 !.to = "cancelled"] EXCEPT !.op = "cancel"]
  <2>0. u \in Units
    BY <1>18, ReadRows DEF CancelDraft
  <2>1. /\ q.op = "cancel" /\ q.contract = c /\ q.unit = u
        /\ q.from = "draft" /\ q.to = "cancelled"
    BY DEF Blank
  <2>2. q \in Request
    <3> HIDE DEF u
    <3> QED BY <1>5, <2>0, RequestFields, Zenon
  <2>3. /\ UNCHANGED storage /\ ContractOf(t, c).status # "none"
        /\ Asks("cancel", [Blank EXCEPT !.contract = c, !.unit = u, !.from = "draft",
                                        !.to = "cancelled"], "end_contract")
    BY <1>2, <1>18 DEF CancelDraft
  <2>4. /\ pc[t] = "idle" /\ pc'[t] = "end_contract" /\ req'[t] = q
        /\ todo'[t] = todo[t] /\ entry'[t] = entry[t] /\ UNCHANGED <<audit, byHand>>
    BY <2>3 DEF Asks
  <2> HIDE DEF q
  <2>5. FieldsOK(q, "end_contract") /\ q.op \in OnContract
        /\ "end_contract" \in FirstStatement \cap StatementsOf(q.op)
    <3> HIDE DEF u
    <3> QED BY <2>0, <2>1 DEF FieldsOK, OnContract, FirstStatement, StatementsOf
  <2> QED BY <1>12, <2>1, <2>2, <2>3, <2>4, <2>5
<1>19. ASSUME NEW c \in Contracts, NEW op \in {"cancel", "terminate"},
              NEW type \in RequestType, NEW to \in {"cancelled", "terminated"},
              op = "cancel" => type = "contract_cancellation" /\ to = "cancelled",
              op = "terminate" => type = "contract_termination" /\ to = "terminated",
              ApprovalGate(t, op, c, type, to)
       PROVE  Begun(t) /\ StorageTypeOK' /\ DirtyIsCommitted'
  <2> DEFINE u == ContractOf(t, c).unit
             latest == GetLatestSalesApprovalRequest(t, c, type)
             stmt == IF latest = "approved" THEN "end_contract" ELSE "insert_approval"
             q0 == [Blank EXCEPT !.contract = c, !.unit = u, !.type = type,
                                 !.from = "active", !.to = to]
             q == [q0 EXCEPT !.op = op]
  <2>0. u \in Units
    BY <1>19, ReadRows DEF ApprovalGate
  <2>1. /\ q.op = op /\ q.contract = c /\ q.unit = u /\ q.type = type
        /\ q.from = "active" /\ q.to = to
    BY DEF Blank
  <2>2. q \in Request
    <3> HIDE DEF u
    <3>1. op \in AllOps /\ to \in ContractStatus /\ "active" \in ContractStatus
      BY <1>5
    <3> QED BY <2>0, <3>1, RequestFields, Zenon
  <2>3. /\ UNCHANGED storage /\ ContractOf(t, c).status # "none" /\ Asks(op, q0, stmt)
    BY <1>2, <1>19 DEF ApprovalGate
  <2> HIDE DEF q0, latest, u
  <2>4. /\ pc[t] = "idle" /\ pc'[t] = stmt /\ req'[t] = q
        /\ todo'[t] = todo[t] /\ entry'[t] = entry[t] /\ UNCHANGED <<audit, byHand>>
    BY <2>3 DEF Asks
  <2> HIDE DEF q
  <2>5. FieldsOK(q, stmt) /\ q.op \in OnContract
        /\ stmt \in FirstStatement \cap StatementsOf(q.op)
    BY <1>19, <2>0, <2>1 DEF FieldsOK, OnContract, FirstStatement, StatementsOf
  <2>6. stmt = "end_contract" => GetLatestSalesApprovalRequest(t, q.contract, q.type) = "approved"
    BY <2>1 DEF latest
  <2>7. q.unit = ContractOf(t, q.contract).unit /\ stmt # "update_line"
    BY <2>1 DEF u
  <2> HIDE DEF stmt
  <2> QED BY <1>12, <2>1, <2>2, <2>3, <2>4, <2>5, <2>6, <2>7
<1>20. ASSUME NEW c \in Contracts, CancelSalesContract(t, c) \/ TerminateSalesContract(t, c)
       PROVE  Begun(t) /\ StorageTypeOK' /\ DirtyIsCommitted'
  <2>1. ASSUME ApprovalGate(t, "cancel", c, "contract_cancellation", "cancelled")
        PROVE  Begun(t) /\ StorageTypeOK' /\ DirtyIsCommitted'
    BY <1>5, <1>19, <2>1
  <2>2. ASSUME ApprovalGate(t, "terminate", c, "contract_termination", "terminated")
        PROVE  Begun(t) /\ StorageTypeOK' /\ DirtyIsCommitted'
    BY <1>5, <1>19, <2>2
  <2> QED BY <1>18, <1>20, <2>1, <2>2 DEF CancelSalesContract, TerminateSalesContract
<1>21. ASSUME NEW c \in Contracts, NEW n \in LineNos, NEW p \in Principals,
              UpdateInstallmentScheduleLine(t, c, n, p)
       PROVE  Begun(t) /\ StorageTypeOK' /\ DirtyIsCommitted'
  <2> DEFINE stmt == IF ContractOf(t, c).status = "draft" THEN "update_line"
                                                         ELSE "insert_approval"
             q0 == [Blank EXCEPT !.contract = c, !.line = n, !.principal = p,
                                 !.type = "schedule_restructure"]
             q == [q0 EXCEPT !.op = "update_line"]
  <2>1. /\ q.op = "update_line" /\ q.contract = c /\ q.line = n /\ q.principal = p
        /\ q.type = "schedule_restructure"
    BY DEF Blank
  <2>2. q \in Request
    BY <1>5, RequestFields, Zenon
  <2>3. /\ UNCHANGED storage /\ ContractOf(t, c).status # "none"
        /\ LineOf(t, <<c, n>>) # NoLine /\ Asks("update_line", q0, stmt)
    BY <1>2, <1>21 DEF UpdateInstallmentScheduleLine
  <2> HIDE DEF q0
  <2>4. /\ pc[t] = "idle" /\ pc'[t] = stmt /\ req'[t] = q
        /\ todo'[t] = todo[t] /\ entry'[t] = entry[t] /\ UNCHANGED <<audit, byHand>>
    BY <2>3 DEF Asks
  <2> HIDE DEF q
  <2>5. FieldsOK(q, stmt) /\ q.op \in OnContract
        /\ stmt \in FirstStatement \cap StatementsOf(q.op) /\ stmt # "end_contract"
    BY <1>5, <2>1 DEF FieldsOK, OnContract, FirstStatement, StatementsOf
  <2> HIDE DEF stmt
  <2> QED BY <1>12, <2>1, <2>2, <2>3, <2>4, <2>5
<1> QED BY <1>8, <1>9, <1>10, <1>11, <1>13, <1>14, <1>15, <1>16, <1>17, <1>20, <1>21
   DEF Start

-----------------------------------------------------------------------------
(***************************************************************************)
(* What the statements of a request do.                                    *)
(***************************************************************************)
\* t goes on to another statement, or writes its audit entry: one that names
\* the contract's new status if it has changed that, or the contract a
\* reservation was converted to, and neither otherwise.
Keeps(t) == /\ OthersStay(t) /\ UNCHANGED <<audit, byHand>> /\ pc[t] # "idle"
            /\ RequestOK(t)

Goes(t, stmt) == /\ Keeps(t) /\ pc'[t] = stmt /\ req'[t] = req[t]
                 /\ todo'[t] = todo[t] /\ entry'[t] = entry[t]

Ending == {"sell_unit", "free_unit", "complete_status", "default_status"}
Event  == {"activate_contract", "cancelled", "terminated", "completed", "defaulted"}

EntryAt(t, e, id) ==
  IF pc[t] \in Ending THEN e = EventOf[To[req[t].op]] /\ id = req[t].contract
  ELSE IF pc[t] = "convert_status"
         THEN e = "convert_reservation" /\ id = req[t].contract
         ELSE e \notin Event \cup {"convert_reservation"}

Logs(t) ==
  /\ Keeps(t) /\ pc'[t] = "commit" /\ req'[t] = req[t] /\ todo'[t] = todo[t]
  /\ \E e, id : entry'[t] = {<<e, id>>} /\ EntryAt(t, e, id)

InsertsReservation(t) ==
  /\ pc[t] = "insert_reservation" /\ pc'[t] = "reserve_unit" /\ Keeps(t)
  /\ todo'[t] = todo[t] /\ entry'[t] = entry[t] /\ req[t].op = "reserve"
  /\ \E r \in Reservations :
       /\ NewRes(r) = NoReservation
       /\ \A q \in Reservations \ {r} : ~Holds(ReservationOf(t, q), req[t].unit)
                                        /\ ~Holds(NewRes(q), req[t].unit)
       /\ WritesRow(t, "reservations", r, [status |-> "active", unit |-> req[t].unit])
       /\ req'[t] = [req[t] EXCEPT !.reservation = r]

UnitStatusAt == [reserve_unit |-> "reserved", release_unit |-> "available",
                 sell_unit |-> "sold", free_unit |-> "available"]

ChangesUnit(t) ==
  /\ pc[t] \in DOMAIN UnitStatusAt /\ Logs(t) /\ req[t].unit \in Units
  /\ WritesRow(t, "units", req[t].unit, UnitStatusAt[pc[t]])

MovesReservation(t) ==
  /\ req[t].reservation \in Reservations /\ NewRes(req[t].reservation).status = "active"
  /\ \/ /\ pc[t] = "convert_status" /\ req[t].op = "convert" /\ Logs(t)
        /\ WritesRow(t, "reservations", req[t].reservation,
                     [NewRes(req[t].reservation) EXCEPT !.status = "converted"])
     \/ /\ pc[t] = "cancel_reservation" /\ req[t].op = "cancel_reservation"
        /\ Goes(t, "look_for_holder")
        /\ WritesRow(t, "reservations", req[t].reservation,
                     [NewRes(req[t].reservation) EXCEPT !.status = "cancelled"])

LooksForHolder(t) ==
  /\ pc[t] = "look_for_holder" /\ req[t].op = "cancel_reservation" /\ UNCHANGED storage
  /\ Logs(t) \/ Goes(t, "release_unit")

InsertsContract(t) ==
  \E c \in Contracts, b \in BOOLEAN :
    /\ NewCon(c) = NoContract /\ req[t].unit \in Units
    /\ WritesRow(t, "sales_contracts", c,
                 [status |-> "draft", unit |-> req[t].unit,
                  source |-> req[t].reservation, template |-> b])
    /\ \/ /\ pc[t] = "convert_insert" /\ pc'[t] = "convert_status" /\ Keeps(t)
          /\ todo'[t] = todo[t] /\ entry'[t] = entry[t] /\ req[t].op = "convert"
          /\ req'[t] = [req[t] EXCEPT !.contract = c]
       \/ pc[t] = "insert_contract" /\ req[t].op = "create" /\ Logs(t)

EditsContract(t) ==
  /\ pc[t] = "update_contract" /\ req[t].op = "update" /\ Logs(t)
  /\ req[t].contract \in Contracts /\ NewCon(req[t].contract).status = "draft"
  /\ WritesRow(t, "sales_contracts", req[t].contract,
               [NewCon(req[t].contract) EXCEPT !.template = TRUE])

MovesContract(t) ==
  /\ req[t].contract \in Contracts
  /\ NewCon(req[t].contract).status = From(req[t])
  /\ WritesRow(t, "sales_contracts", req[t].contract,
               [NewCon(req[t].contract) EXCEPT !.status = To[req[t].op]])
  /\ \/ /\ pc[t] = "bill_lines" /\ req[t].op = "activate" /\ DOMAIN todo[t] = {}
        /\ Goes(t, "sell_unit")
        /\ \A d \in Contracts \ {req[t].contract} :
             \A row \in {ContractOf(t, d), NewCon(d)} :
               ~(row.status = "active" /\ row.unit = NewCon(req[t].contract).unit)
     \/ /\ pc[t] = "end_contract" /\ req[t].op \in {"cancel", "terminate"}
        /\ Goes(t, "free_unit")
     \/ /\ pc[t] \in {"complete_status", "default_status"}
        /\ req[t].op \in {"complete", "default"} /\ Logs(t)

ListsLines(t) ==
  /\ pc[t] = "list_lines" /\ pc'[t] = "bill_lines" /\ Keeps(t) /\ UNCHANGED storage
  /\ req[t].op = "activate" /\ req[t].contract \in Contracts
  /\ req'[t] = req[t] /\ entry'[t] = entry[t]
  /\ \E n \in LineNos : LineOf(t, <<req[t].contract, n>>) # NoLine
  /\ todo'[t] = [n \in {m \in LineNos : /\ LineOf(t, <<req[t].contract, m>>) # NoLine
                                        /\ ~LineOf(t, <<req[t].contract, m>>).receivable} |->
                   LineOf(t, <<req[t].contract, n>>).principal]

\* The rows of a plan for contract c are inserted.
InsertsPlan(t, c, principal) ==
  /\ DOMAIN principal \subseteq LineNos /\ 1 \in DOMAIN principal
  /\ \A n \in DOMAIN principal :
       /\ principal[n] \in Principals
       /\ NewLine(<<c, n>>) = NoLine
       /\ RowWritten(t, "installment_schedule_lines", <<c, n>>,
                     [principal |-> principal[n], receivable |-> FALSE])
  /\ \A l \in Lines : (l[1] = c => l[2] \notin DOMAIN principal) =>
       RowStays("installment_schedule_lines", l)
  /\ \A tab \in TableName \ {"installment_schedule_lines"} : TableStays(tab)

PlansLines(t) ==
  /\ Keeps(t) /\ req[t].contract \in Contracts
  /\ \E principal \in Schedules :
       /\ InsertsPlan(t, req[t].contract, principal)
       /\ \/ /\ pc[t] = "list_lines" /\ pc'[t] = "bill_lines" /\ req[t].op = "activate"
             /\ \A n \in LineNos : LineOf(t, <<req[t].contract, n>>) = NoLine
             /\ req'[t] = req[t] /\ entry'[t] = entry[t] /\ todo'[t] = principal
          \/ pc[t] = "insert_lines" /\ req[t].op = "generate" /\ Logs(t)

BillsLine(t) ==
  /\ pc[t] = "bill_lines" /\ pc'[t] = "bill_lines" /\ Keeps(t)
  /\ req[t].op = "activate" /\ req[t].contract \in Contracts
  /\ req'[t] = req[t] /\ entry'[t] = entry[t]
  /\ \E n \in DOMAIN todo[t] :
       /\ todo'[t] = [m \in DOMAIN todo[t] \ {n} |-> todo[t][m]]
       /\ NewRec(<<req[t].contract, n>>) = NoReceivable
       /\ RowWritten(t, "receivables", <<req[t].contract, n>>,
                     [original |-> todo[t][n], status |-> "open"])
       /\ RowWritten(t, "installment_schedule_lines", <<req[t].contract, n>>,
                     [NewLine(<<req[t].contract, n>>) EXCEPT !.receivable = TRUE])
       /\ \A l \in Lines \ {<<req[t].contract, n>>} :
            RowStays("receivables", l) /\ RowStays("installment_schedule_lines", l)
  /\ \A tab \in TableName \ {"receivables", "installment_schedule_lines"} : TableStays(tab)

AsksApproval(t) ==
  /\ pc[t] = "insert_approval" /\ Logs(t)
  /\ \E a \in ApprovalIds :
       /\ dirty.approval_requests[a] = NoApproval
       /\ \A b \in ApprovalIds : dirty.approval_requests[b] = NoApproval => a <= b
       /\ WritesRow(t, "approval_requests", a,
                    [status |-> "pending", contract |-> req[t].contract,
                     type |-> req[t].type])

UpdatesLine(t) ==
  /\ pc[t] = "update_line" /\ req[t].op = "update_line" /\ Logs(t)
  /\ req[t].contract \in Contracts /\ req[t].line \in LineNos /\ req[t].principal \in Principals
  /\ WritesRow(t, "installment_schedule_lines", <<req[t].contract, req[t].line>>,
               [NewLine(<<req[t].contract, req[t].line>>) EXCEPT
                  !.principal = req[t].principal])

\* All that t has written is committed, or undone.
CommitsRows(t) ==
  \A tab \in TableName : \A id \in Rows[tab] :
    /\ owner'[tab][id] = IF owner[tab][id] = t THEN Nil ELSE owner[tab][id]
    /\ dirty'[tab][id] = dirty[tab][id]
    /\ db'[tab][id] = IF owner[tab][id] = t THEN dirty[tab][id] ELSE db[tab][id]

RollsBackRows(t) ==
  \A tab \in TableName : \A id \in Rows[tab] :
    /\ owner'[tab][id] = IF owner[tab][id] = t THEN Nil ELSE owner[tab][id]
    /\ db'[tab][id] = db[tab][id]
    /\ dirty'[tab][id] = IF owner[tab][id] = t THEN db[tab][id] ELSE dirty[tab][id]

Commits(t)   == /\ pc[t] = "commit" /\ CommitsRows(t) /\ audit' = audit \cup entry[t]
                /\ byHand' = {u \in byHand : owner.units[u] # t}
RollsBack(t) == RollsBackRows(t) /\ UNCHANGED <<audit, byHand>>

Ends(t) ==
  /\ OthersStay(t) /\ pc[t] # "idle" /\ pc'[t] = "idle" /\ req'[t] = Nil
  /\ todo'[t] = <<>> /\ entry'[t] = {}
  /\ Commits(t) \/ RollsBack(t)

LEMMA EndRows ==
  ASSUME StorageTypeOK, NEW t \in Tx
  PROVE  (CommitTx(t) => CommitsRows(t)) /\ (RollbackTx(t) => RollsBackRows(t))
<1>1. /\ Tabular /\ DOMAIN db = TableName
      /\ \A x \in TableName : DOMAIN db[x] = Rows[x]
  BY StorageTabular
<1>2. CommitTx(t) => CommitsRows(t)
  BY <1>1, EndChanges DEF CommitsRows
<1>3. RollbackTx(t) => RollsBackRows(t)
  BY <1>1, EndChanges DEF RollsBackRows
<1> QED BY <1>2, <1>3

\* The rows there are, and who has locked them.
LEMMA TypedRows ==
  ASSUME Typed
  PROVE  /\ StorageTypeOK /\ DirtyIsCommitted /\ \A t \in Tx : RequestOK(t) /\ TodoOK(t)
         /\ \A r \in Reservations :
              /\ Res(r) \in ReservationRow /\ NewRes(r) \in ReservationRow
              /\ ResLocker(r) \in Tx \cup {Nil} /\ (ResLocker(r) = Nil => NewRes(r) = Res(r))
              /\ ReservationRowOK(Res(r)) /\ ReservationRowOK(NewRes(r))
         /\ \A c \in Contracts :
              /\ Con(c) \in ContractRow /\ NewCon(c) \in ContractRow
              /\ ConLocker(c) \in Tx \cup {Nil} /\ (ConLocker(c) = Nil => NewCon(c) = Con(c))
              /\ ContractRowOK(Con(c)) /\ ContractRowOK(NewCon(c))
         /\ \A l \in Lines :
              /\ Line(l) \in LineRow /\ NewLine(l) \in LineRow
              /\ LineLocker(l) \in Tx \cup {Nil} /\ (LineLocker(l) = Nil => NewLine(l) = Line(l))
              /\ Rec(l) \in ReceivableRow /\ NewRec(l) \in ReceivableRow
              /\ RecLocker(l) \in Tx \cup {Nil} /\ (RecLocker(l) = Nil => NewRec(l) = Rec(l))
<1>1. StorageTypeOK /\ DirtyIsCommitted /\ RowsOK /\ \A t \in Tx : RequestOK(t) /\ TodoOK(t)
  BY DEF Typed, ControlTypeOK
<1>2. /\ Tabular /\ DOMAIN db = TableName
      /\ \A x \in TableName : DOMAIN db[x] = Rows[x]
  BY <1>1, StorageTabular
<1>3. \A tab \in TableName : \A id \in Rows[tab] :
        /\ db[tab][id] \in RowType[tab] /\ dirty[tab][id] \in RowType[tab]
        /\ owner[tab][id] \in Tx \cup {Nil}
        /\ owner[tab][id] = Nil => dirty[tab][id] = db[tab][id]
  BY <1>1, <1>2 DEF StorageTypeOK, DirtyIsCommitted, Tabular
<1>4. /\ {"reservations", "sales_contracts", "installment_schedule_lines",
          "receivables"} \subseteq TableName
      /\ Rows["reservations"] = Reservations /\ Rows["sales_contracts"] = Contracts
      /\ Rows["installment_schedule_lines"] = Lines /\ Rows["receivables"] = Lines
      /\ RowType["reservations"] = ReservationRow
      /\ RowType["sales_contracts"] = ContractRow
      /\ RowType["installment_schedule_lines"] = LineRow
      /\ RowType["receivables"] = ReceivableRow
  BY DEF TableName, Rows, RowType
<1>5. /\ \A r \in Reservations :
           /\ Res(r) \in ReservationRow /\ NewRes(r) \in ReservationRow
           /\ ResLocker(r) \in Tx \cup {Nil} /\ (ResLocker(r) = Nil => NewRes(r) = Res(r))
      /\ \A c \in Contracts :
           /\ Con(c) \in ContractRow /\ NewCon(c) \in ContractRow
           /\ ConLocker(c) \in Tx \cup {Nil} /\ (ConLocker(c) = Nil => NewCon(c) = Con(c))
  BY <1>3, <1>4 DEF Res, NewRes, ResLocker, Con, NewCon, ConLocker
<1>6. \A l \in Lines :
        /\ Line(l) \in LineRow /\ NewLine(l) \in LineRow
        /\ LineLocker(l) \in Tx \cup {Nil} /\ (LineLocker(l) = Nil => NewLine(l) = Line(l))
        /\ Rec(l) \in ReceivableRow /\ NewRec(l) \in ReceivableRow
        /\ RecLocker(l) \in Tx \cup {Nil} /\ (RecLocker(l) = Nil => NewRec(l) = Rec(l))
  BY <1>3, <1>4 DEF Line, NewLine, LineLocker, Rec, NewRec, RecLocker
<1> QED BY <1>1, <1>5, <1>6 DEF RowsOK

LEMMA StepEffect ==
  ASSUME Typed, NEW t \in Tx, Step(t)
  PROVE  /\ \/ InsertsReservation(t) \/ ChangesUnit(t) \/ MovesReservation(t)
            \/ LooksForHolder(t) \/ InsertsContract(t) \/ EditsContract(t)
            \/ MovesContract(t) \/ ListsLines(t) \/ PlansLines(t) \/ BillsLine(t)
            \/ AsksApproval(t) \/ UpdatesLine(t) \/ Ends(t)
         /\ StorageTypeOK' /\ DirtyIsCommitted'
<1>1. /\ pc \in [Tx -> Statement] /\ req \in [Tx -> Request \cup {Nil}]
      /\ DOMAIN todo = Tx /\ DOMAIN entry = Tx
      /\ StorageTypeOK /\ DirtyIsCommitted /\ OthersStay(t) /\ RequestOK(t) /\ TodoOK(t)
  BY ControlFrame DEF Typed, ControlTypeOK
<1>2. \A stmt : Next_(t, stmt) /\ pc[t] # "idle" => Goes(t, stmt)
  BY <1>1 DEF Goes, Keeps
<1>3. \A e, id : Log(t, e, id) /\ pc[t] # "idle" /\ EntryAt(t, e, id) => Logs(t)
  <2> SUFFICES ASSUME NEW e, NEW id, Log(t, e, id), pc[t] # "idle", EntryAt(t, e, id)
               PROVE  Logs(t)
    OBVIOUS
  <2>1. /\ pc'[t] = "commit" /\ req'[t] = req[t] /\ todo'[t] = todo[t]
        /\ UNCHANGED <<audit, byHand>>
        /\ entry'[t] = {<<e, id>>}
    BY <1>1 DEF Log
  <2> QED BY <1>1, <2>1 DEF Logs, Keeps
<1>4. /\ UNCHANGED storage => StorageTypeOK' /\ DirtyIsCommitted'
      /\ \A tab \in TableName : \A id \in Rows[tab] : \A row :
           Write(t, tab, id, row) =>
             /\ WritesRow(t, tab, id, row)
             /\ row \in RowType[tab] => StorageTypeOK' /\ DirtyIsCommitted'
  <2>1. UNCHANGED storage => StorageTypeOK' /\ DirtyIsCommitted'
    BY <1>1 DEF storage, StorageTypeOK, Shaped, DirtyIsCommitted
  <2>2. ASSUME NEW tab \in TableName, NEW id \in Rows[tab], NEW row, Write(t, tab, id, row)
        PROVE  /\ WritesRow(t, tab, id, row)
               /\ row \in RowType[tab] => StorageTypeOK' /\ DirtyIsCommitted'
    BY <1>1, <2>2, WriteEffect
  <2> QED BY <2>1, <2>2
<1>5. /\ TableName = {"units", "reservations", "sales_contracts",
                      "installment_schedule_lines", "receivables", "approval_requests"}
      /\ Rows["units"] = Units /\ RowType["units"] = SalesStatus
      /\ Rows["reservations"] = Reservations /\ RowType["reservations"] = ReservationRow
      /\ Rows["sales_contracts"] = Contracts /\ RowType["sales_contracts"] = ContractRow
      /\ Rows["installment_schedule_lines"] = Lines
      /\ RowType["installment_schedule_lines"] = LineRow
      /\ Rows["receivables"] = Lines /\ RowType["receivables"] = ReceivableRow
      /\ Rows["approval_requests"] = ApprovalIds
      /\ RowType["approval_requests"] = ApprovalRow
  BY DEF TableName, Rows, RowType
<1>6. /\ Tabular /\ DOMAIN db = TableName
      /\ \A x \in TableName : DOMAIN db[x] = Rows[x]
  BY <1>1, StorageTabular
<1> HIDE DEF Next_
<1>7. CASE InsertReservation(t)
  <2>1. /\ req[t].op = "reserve" /\ req[t].unit \in Units /\ req[t] \in Request
    BY <1>1, <1>7 DEF InsertReservation, RequestOK, StatementsOf, FieldsOK
  <2> DEFINE u == req[t].unit
             row == [status |-> "active", unit |-> u]
  <2>2. PICK r \in Reservations : /\ CreateReservationRow(t, r, u)
                                  /\ req' = [req EXCEPT ![t].reservation = r]
    BY <1>7 DEF InsertReservation
  <2>3. row \in ReservationRow
    BY <2>1 DEF ReservationRow, ReservationStatus
  <2>4. NewRes(r) = NoReservation /\ Write(t, "reservations", r, row)
    BY <2>2 DEF CreateReservationRow, NewRes
  <2>5. \A q \in Reservations \ {r} : ~Holds(ReservationOf(t, q), u) /\ ~Holds(NewRes(q), u)
    <3>1. row \notin OtherRows(t, "reservations", r)
      BY <2>2 DEF CreateReservationRow
    <3>2. DOMAIN db["reservations"] = Reservations
      BY <1>5, <1>6
    <3>3. ASSUME NEW q \in Reservations \ {r}
          PROVE  Sees(t, "reservations", q) # row /\ dirty["reservations"][q] # row
      <4> HIDE DEF row
      <4> QED BY <3>1, <3>2 DEF OtherRows
    <3> QED BY <3>3 DEF Holds, ReservationOf, NewRes
  <2>6. WritesRow(t, "reservations", r, row) /\ StorageTypeOK' /\ DirtyIsCommitted'
    <3> HIDE DEF row
    <3> QED BY <1>4, <1>5, <2>3, <2>4
  <2>7. /\ pc'[t] = "reserve_unit" /\ todo'[t] = todo[t] /\ entry'[t] = entry[t]
        /\ UNCHANGED <<audit, byHand>> /\ pc[t] = "insert_reservation"
        /\ req'[t] = [req[t] EXCEPT !.reservation = r]
    BY <1>1, <1>7, <2>2 DEF InsertReservation
  <2>8. InsertsReservation(t)
    BY <1>1, <2>1, <2>4, <2>5, <2>6, <2>7 DEF InsertsReservation, Keeps
  <2> QED BY <2>6, <2>8
<1>8. CASE ReserveUnit(t) \/ ReleaseUnit(t) \/ SellUnit(t) \/ FreeUnit(t)
  <2>1. /\ pc[t] \in DOMAIN UnitStatusAt /\ UnitStatusAt[pc[t]] \in SalesStatus
        /\ Write(t, "units", req[t].unit, UnitStatusAt[pc[t]])
    BY <1>8 DEF ReserveUnit, ReleaseUnit, SellUnit, FreeUnit, UnitStatusAt, SalesStatus
  <2>2. req[t].unit \in Units
    BY <1>1, <2>1 DEF UnitStatusAt, RequestOK, StatementsOf, FieldsOK
  <2>3. Logs(t)
    <3>1. CASE ReserveUnit(t) \/ ReleaseUnit(t)
      BY <1>3, <3>1 DEF ReserveUnit, ReleaseUnit, EntryAt, Ending, Event
    <3>2. CASE SellUnit(t)
      <4>1. req[t].op = "activate"
        BY <1>1, <3>2 DEF SellUnit, RequestOK, StatementsOf
      <4> QED BY <1>3, <3>2, <4>1 DEF SellUnit, EntryAt, Ending, EventOf, To
    <3>3. CASE FreeUnit(t)
      <4>1. /\ req[t].op \in {"cancel", "terminate"} /\ EventOf[To[req[t].op]] = req[t].to
            /\ pc[t] = "free_unit"
        BY <1>1, <3>3 DEF FreeUnit, RequestOK, StatementsOf, FieldsOK, EventOf, To
      <4> QED BY <1>3, <3>3, <4>1 DEF FreeUnit, EntryAt, Ending
    <3> QED BY <1>8, <3>1, <3>2, <3>3
  <2>4. WritesRow(t, "units", req[t].unit, UnitStatusAt[pc[t]])
        /\ StorageTypeOK' /\ DirtyIsCommitted'
    BY <1>4, <1>5, <2>1, <2>2
  <2> QED BY <2>1, <2>2, <2>3, <2>4 DEF ChangesUnit
<1>9. CASE ConvertStatus(t) \/ CancelReservationStatus(t)
  <2> DEFINE to == IF pc[t] = "convert_status" THEN "converted" ELSE "cancelled"
             row == [NewRes(req[t].reservation) EXCEPT !.status = to]
  <2>1. /\ req[t].reservation \in Reservations
        /\ \/ pc[t] = "convert_status" /\ req[t].op = "convert" /\ Logs(t)
           \/ /\ pc[t] = "cancel_reservation" /\ req[t].op = "cancel_reservation"
              /\ Goes(t, "look_for_holder")
    <3>1. CASE ConvertStatus(t)
      BY <1>1, <1>3, <3>1
         DEF ConvertStatus, RequestOK, StatementsOf, FieldsOK, EntryAt, Ending, Event
    <3>2. CASE CancelReservationStatus(t)
      BY <1>1, <1>2, <3>2 DEF CancelReservationStatus, RequestOK, StatementsOf, FieldsOK
    <3> QED BY <1>9, <3>1, <3>2
  <2>2. UpdateReservationStatus(t, req[t].reservation, to, "active")
    BY <1>9, <2>1 DEF ConvertStatus, CancelReservationStatus
  <2>3. /\ NewRes(req[t].reservation).status = "active"
        /\ Write(t, "reservations", req[t].reservation, row)
    <3> HIDE DEF to
    <3> QED BY <2>2 DEF UpdateReservationStatus, NewRes
  <2>4. row \in ReservationRow
    <3>1. NewRes(req[t].reservation) \in ReservationRow /\ to \in ReservationStatus
      BY <2>1, TypedRows DEF ReservationStatus
    <3> HIDE DEF to
    <3> QED BY <3>1 DEF ReservationRow
  <2>5. pc[t] = "convert_status" => to = "converted"
    OBVIOUS
  <2>6. pc[t] = "cancel_reservation" => to = "cancelled"
    OBVIOUS
  <2> HIDE DEF row, to
  <2>7. WritesRow(t, "reservations", req[t].reservation, row)
        /\ StorageTypeOK' /\ DirtyIsCommitted'
    BY <1>4, <1>5, <2>1, <2>3, <2>4
  <2>8. MovesReservation(t)
    BY <2>1, <2>3, <2>5, <2>6, <2>7 DEF MovesReservation, row
  <2> QED BY <2>7, <2>8
<1>10. CASE LookForHolder(t)
  <2>1. /\ pc[t] = "look_for_holder" /\ req[t].op = "cancel_reservation"
        /\ UNCHANGED storage
    BY <1>1, <1>10 DEF LookForHolder, RequestOK, StatementsOf
  <2>2. Logs(t) \/ Goes(t, "release_unit")
    BY <1>2, <1>3, <1>10 DEF LookForHolder, EntryAt, Ending, Event
  <2> QED BY <1>4, <2>1, <2>2 DEF LooksForHolder
<1>11. CASE ConvertInsertContract(t) \/ InsertContract(t)
  <2> DEFINE Row(b) == [status |-> "draft", unit |-> req[t].unit,
                        source |-> req[t].reservation, template |-> b]
  <2>1. /\ req[t] \in Request /\ req[t].unit \in Units
        /\ pc[t] = "convert_insert" => req[t].op = "convert"
        /\ pc[t] = "insert_contract" => req[t].op = "create"
        /\ pc[t] \in {"convert_insert", "insert_contract"}
    BY <1>1, <1>11 DEF ConvertInsertContract, InsertContract, RequestOK, StatementsOf,
       FieldsOK
  <2>2. PICK c \in Contracts, b \in BOOLEAN :
          /\ CreateSalesContractRow(t, c, req[t].unit, req[t].reservation, b)
          /\ \/ pc[t] = "convert_insert" /\ req' = [req EXCEPT ![t].contract = c]
             \/ pc[t] = "insert_contract" /\ Log(t, "create_contract", c)
    <3>1. req[t].template \in BOOLEAN
      BY <2>1 DEF Request
    <3> QED BY <1>11, <2>1, <3>1 DEF ConvertInsertContract, InsertContract
  <2>3. Row(b) \in ContractRow
    <3>1. req[t].reservation \in Reservations \cup {Nil} /\ "draft" \in ContractStatus
      BY <2>1 DEF Request, ContractStatus
    <3> QED BY <2>1, <3>1 DEF ContractRow
  <2>4. NewCon(c) = NoContract /\ Write(t, "sales_contracts", c, Row(b))
    BY <2>2 DEF CreateSalesContractRow, NewCon
  <2> HIDE DEF Row
  <2>5. WritesRow(t, "sales_contracts", c, Row(b)) /\ StorageTypeOK' /\ DirtyIsCommitted'
    BY <1>4, <1>5, <2>3, <2>4
  <2>6. \/ /\ pc[t] = "convert_insert" /\ pc'[t] = "convert_status" /\ Keeps(t)
           /\ todo'[t] = todo[t] /\ entry'[t] = entry[t] /\ req[t].op = "convert"
           /\ req'[t] = [req[t] EXCEPT !.contract = c]
        \/ pc[t] = "insert_contract" /\ req[t].op = "create" /\ Logs(t)
    <3>1. CASE pc[t] = "convert_insert"
      BY <1>1, <1>11, <2>1, <2>2, <3>1 DEF ConvertInsertContract, InsertContract, Keeps
    <3>2. CASE pc[t] = "insert_contract"
      BY <1>3, <2>1, <2>2, <3>2 DEF EntryAt, Ending, Event
    <3> QED BY <2>1, <3>1, <3>2
  <2>7. InsertsContract(t)
    BY <2>1, <2>4, <2>5, <2>6 DEF InsertsContract, Row
  <2> QED BY <2>5, <2>7
<1>12. CASE UpdateContract(t)
  <2> DEFINE c == req[t].contract
             row == [NewCon(c) EXCEPT !.template = TRUE]
  <2>1. /\ pc[t] = "update_contract" /\ req[t].op = "update" /\ c \in Contracts
    BY <1>1, <1>12 DEF UpdateContract, RequestOK, StatementsOf, FieldsOK, OnContract
  <2>2. NewCon(c).status = "draft" /\ Write(t, "sales_contracts", c, row)
    BY <1>12 DEF UpdateContract, UpdateSalesContractRow, NewCon
  <2>3. row \in ContractRow
    <3>1. NewCon(c) \in ContractRow
      BY <2>1, TypedRows
    <3> HIDE DEF c
    <3> QED BY <3>1 DEF ContractRow
  <2>4. Logs(t)
    BY <1>3, <1>12, <2>1 DEF UpdateContract, EntryAt, Ending, Event
  <2> HIDE DEF row
  <2>5. WritesRow(t, "sales_contracts", c, row) /\ StorageTypeOK' /\ DirtyIsCommitted'
    BY <1>4, <1>5, <2>1, <2>2, <2>3
  <2> QED BY <2>1, <2>2, <2>4, <2>5 DEF EditsContract, row
<1>13. CASE ActivateStatus(t) \/ EndContract(t) \/ CompleteStatus(t) \/ DefaultStatus(t)
  <2> DEFINE c == req[t].contract
             to == To[req[t].op]
             row == [NewCon(c) EXCEPT !.status = to]
  <2>1. /\ c \in Contracts /\ to \in ContractStatus
        /\ UpdateSalesContractStatus(t, c, to, From(req[t]))
        /\ \/ /\ pc[t] = "bill_lines" /\ req[t].op = "activate" /\ DOMAIN todo[t] = {}
              /\ Goes(t, "sell_unit")
           \/ /\ pc[t] = "end_contract" /\ req[t].op \in {"cancel", "terminate"}
              /\ Goes(t, "free_unit")
           \/ /\ pc[t] \in {"complete_status", "default_status"}
              /\ req[t].op \in {"complete", "default"} /\ Logs(t)
    <3>1. CASE ActivateStatus(t)
      <4>1. req[t].op = "activate" /\ c \in Contracts
        BY <1>1, <3>1 DEF ActivateStatus, RequestOK, StatementsOf, FieldsOK, OnContract
      <4> QED BY <1>2, <3>1, <4>1 DEF ActivateStatus, From, To, ContractStatus
    <3>2. CASE EndContract(t)
      <4>1. /\ req[t].op \in {"cancel", "terminate"} /\ c \in Contracts
            /\ req[t].to = to /\ req[t].from = From(req[t]) /\ to \in ContractStatus
        BY <1>1, <3>2 DEF EndContract, RequestOK, StatementsOf, FieldsOK, OnContract,
           From, To, ContractStatus
      <4> QED BY <1>2, <3>2, <4>1 DEF EndContract
    <3>3. CASE CompleteStatus(t)
      <4>1. req[t].op = "complete" /\ c \in Contracts /\ pc[t] = "complete_status"
        BY <1>1, <3>3 DEF CompleteStatus, RequestOK, StatementsOf, FieldsOK, OnContract
      <4>2. Logs(t)
        BY <1>3, <3>3, <4>1 DEF CompleteStatus, EntryAt, Ending, EventOf, To
      <4> QED BY <3>3, <4>1, <4>2 DEF CompleteStatus, From, To, ContractStatus
    <3>4. CASE DefaultStatus(t)
      <4>1. req[t].op = "default" /\ c \in Contracts /\ pc[t] = "default_status"
        BY <1>1, <3>4 DEF DefaultStatus, RequestOK, StatementsOf, FieldsOK, OnContract
      <4>2. Logs(t)
        BY <1>3, <3>4, <4>1 DEF DefaultStatus, EntryAt, Ending, EventOf, To
      <4> QED BY <3>4, <4>1, <4>2 DEF DefaultStatus, From, To, ContractStatus
    <3> QED BY <1>13, <3>1, <3>2, <3>3, <3>4
  <2>2. /\ NewCon(c).status = From(req[t])
        /\ to = "active" => \A other \in OtherRows(t, "sales_contracts", c) :
             ~(other.status = "active" /\ other.unit = NewCon(c).unit)
        /\ Write(t, "sales_contracts", c, row)
    <3> HIDE DEF to
    <3> QED BY <2>1 DEF UpdateSalesContractStatus, NewCon
  <2>3. row \in ContractRow
    <3> HIDE DEF to
    <3> QED BY <2>1, TypedRows DEF ContractRow
  <2>4. req[t].op = "activate" =>
          \A d \in Contracts \ {c} : \A other \in {ContractOf(t, d), NewCon(d)} :
            ~(other.status = "active" /\ other.unit = NewCon(c).unit)
    <3>1. DOMAIN db["sales_contracts"] = Contracts
      BY <1>5, <1>6
    <3>2. \A d \in Contracts \ {c} :
            {ContractOf(t, d), NewCon(d)} \subseteq OtherRows(t, "sales_contracts", c)
      <4> HIDE DEF c
      <4> QED BY <3>1 DEF OtherRows, ContractOf, NewCon
    <3>3. req[t].op = "activate" => to = "active"
      BY DEF To
    <3> HIDE DEF c, to
    <3> QED BY <2>2, <3>2, <3>3
  <2> HIDE DEF row
  <2>5. WritesRow(t, "sales_contracts", c, row) /\ StorageTypeOK' /\ DirtyIsCommitted'
    <3> HIDE DEF c, to
    <3> QED BY <1>4, <1>5, <2>1, <2>2, <2>3
  <2>6. row = [NewCon(c) EXCEPT !.status = To[req[t].op]]
    BY DEF row
  <2> HIDE DEF to
  <2>7. MovesContract(t)
    BY <2>1, <2>2, <2>4, <2>5, <2>6 DEF MovesContract
  <2> QED BY <2>5, <2>7
<1>14. CASE InsertApproval(t)
  <2> DEFINE row == [status |-> "pending", contract |-> req[t].contract,
                     type |-> req[t].type]
  <2>1. /\ pc[t] = "insert_approval" /\ req[t] \in Request
        /\ req[t].type \in RequestType /\ req[t].contract \in Contracts
    BY <1>1, <1>14 DEF InsertApproval, RequestOK, StatementsOf, FieldsOK, OnContract
  <2>2. row \in ApprovalRow
    BY <2>1 DEF ApprovalRow, ApprovalStatus
  <2>3. PICK a \in ApprovalIds :
          /\ dirty.approval_requests[a] = NoApproval
          /\ \A b \in ApprovalIds : dirty.approval_requests[b] = NoApproval => a <= b
          /\ Write(t, "approval_requests", a, row)
    <3> HIDE DEF row
    <3>1. \E a \in NextApprovalId : Write(t, "approval_requests", a, row)
      BY <1>14 DEF InsertApproval, row
    <3> QED BY <3>1 DEF NextApprovalId
  <2>4. Logs(t)
    BY <1>3, <1>14, <2>1 DEF InsertApproval, EntryAt, Ending, Event, RequestType
  <2> HIDE DEF row
  <2>5. WritesRow(t, "approval_requests", a, row) /\ StorageTypeOK' /\ DirtyIsCommitted'
    BY <1>4, <1>5, <2>2, <2>3
  <2> QED BY <2>1, <2>3, <2>4, <2>5 DEF AsksApproval, row
<1>15. CASE UpdateLine(t)
  <2> DEFINE l == <<req[t].contract, req[t].line>>
             row == [NewLine(l) EXCEPT !.principal = req[t].principal]
  <2>1. /\ pc[t] = "update_line" /\ req[t].op = "update_line"
        /\ req[t].contract \in Contracts /\ req[t].line \in LineNos
        /\ req[t].principal \in Principals
    BY <1>1, <1>15 DEF UpdateLine, RequestOK, StatementsOf, FieldsOK, OnContract
  <2>2. l \in Lines /\ Write(t, "installment_schedule_lines", l, row)
    BY <1>15, <2>1 DEF UpdateLine, UpdateInstallmentScheduleLineRow, NewLine, Lines
  <2>3. row \in LineRow
    <3>1. NewLine(l) \in LineRow
      <4> HIDE DEF l
      <4> QED BY <2>2, TypedRows
    <3> HIDE DEF l
    <3> QED BY <2>1, <3>1 DEF LineRow
  <2>4. Logs(t)
    BY <1>3, <1>15, <2>1 DEF UpdateLine, EntryAt, Ending, Event
  <2> HIDE DEF row, l
  <2>5. /\ WritesRow(t, "installment_schedule_lines", l, row)
        /\ StorageTypeOK' /\ DirtyIsCommitted'
    BY <1>4, <1>5, <2>2, <2>3
  <2> QED BY <2>1, <2>4, <2>5 DEF UpdatesLine, row, l
<1>16. CASE Commit(t) \/ Rollback(t)
  <2>1. /\ pc[t] # "idle" /\ pc'[t] = "idle" /\ req'[t] = Nil
        /\ todo'[t] = <<>> /\ entry'[t] = {}
        /\ \/ /\ pc[t] = "commit" /\ CommitTx(t) /\ audit' = audit \cup entry[t]
              /\ byHand' = {u \in byHand : owner.units[u] # t}
           \/ RollbackTx(t) /\ UNCHANGED <<audit, byHand>>
    BY <1>1, <1>16 DEF Commit, Rollback, EndRequest
  <2>2. Ends(t)
    BY <1>1, <2>1, EndRows DEF Ends, Commits, RollsBack
  <2>3. StorageTypeOK' /\ DirtyIsCommitted'
    BY <1>1, <2>1, EndEffect
  <2> QED BY <2>2, <2>3
<1>17. ASSUME NEW c \in Contracts, NEW principal \in Schedules,
              CreateInstallmentScheduleLines(t, c, principal)
       PROVE  InsertsPlan(t, c, principal) /\ StorageTypeOK' /\ DirtyIsCommitted'
  <2> DEFINE tab == "installment_schedule_lines"
             Row(n) == [principal |-> principal[n], receivable |-> FALSE]
             rows == {<<tab, <<c, n>>, Row(n)>> : n \in DOMAIN principal}
  <2>1. /\ DOMAIN principal \subseteq LineNos /\ 1 \in DOMAIN principal
        /\ \A n \in DOMAIN principal : principal[n] \in Principals
    <3>1. PICK k \in LineNos : principal \in [1..k -> Principals]
      BY DEF Schedules
    <3>2. k \in Nat \ {0} /\ 1..k \subseteq LineNos
      BY SalesAssumption
    <3> QED BY <3>1, <3>2
  <2>2. /\ \A n \in DOMAIN principal : NewLine(<<c, n>>) = NoLine
        /\ WriteAll(t, rows)
    BY <1>17 DEF CreateInstallmentScheduleLines, NewLine
  <2>3. \A n \in DOMAIN principal : <<c, n>> \in Lines /\ Row(n) \in LineRow
    BY <2>1 DEF Lines, LineRow
  <2>4. /\ \A w \in rows : w[1] \in TableName /\ w[2] \in Rows[w[1]] /\ w[3] \in RowType[w[1]]
        /\ \A v, w \in rows : v[1] = w[1] /\ v[2] = w[2] => v = w
    <3>1. \A w \in rows : \E n \in DOMAIN principal : w = <<tab, <<c, n>>, Row(n)>>
      OBVIOUS
    <3> HIDE DEF Row, rows
    <3>2. \A w \in rows : w[1] \in TableName /\ w[2] \in Rows[w[1]] /\ w[3] \in RowType[w[1]]
      BY <1>5, <2>3, <3>1
    <3>3. ASSUME NEW v \in rows, NEW w \in rows, v[2] = w[2] PROVE v = w
      <4>1. PICK n \in DOMAIN principal : v = <<tab, <<c, n>>, Row(n)>>
        BY <3>1
      <4>2. PICK m \in DOMAIN principal : w = <<tab, <<c, m>>, Row(m)>>
        BY <3>1
      <4> QED BY <3>3, <4>1, <4>2
    <3> QED BY <3>2, <3>3
  <2>5. /\ \A x \in TableName : \A id \in Rows[x] :
             /\ \A w \in rows : w[1] = x /\ w[2] = id => RowWritten(t, x, id, w[3])
             /\ (\A w \in rows : ~(w[1] = x /\ w[2] = id)) => RowStays(x, id)
        /\ StorageTypeOK' /\ DirtyIsCommitted'
    <3> HIDE DEF rows
    <3> QED BY <1>1, <2>2, <2>4, WriteAllEffect
  <2>6. ASSUME NEW n \in DOMAIN principal PROVE RowWritten(t, tab, <<c, n>>, Row(n))
    <3>1. <<tab, <<c, n>>, Row(n)>> \in rows
      OBVIOUS
    <3>2. /\ <<tab, <<c, n>>, Row(n)>>[1] = tab /\ <<tab, <<c, n>>, Row(n)>>[2] = <<c, n>>
          /\ <<tab, <<c, n>>, Row(n)>>[3] = Row(n)
      OBVIOUS
    <3> HIDE DEF rows, Row
    <3> QED BY <1>5, <2>3, <2>5, <3>1, <3>2
  <2>7. ASSUME NEW l \in Lines, l[1] = c => l[2] \notin DOMAIN principal
        PROVE  RowStays(tab, l)
    <3>1. \A w \in rows : w[2] # l
      <4> HIDE DEF Row
      <4> QED BY <2>7
    <3> HIDE DEF rows
    <3> QED BY <1>5, <2>5, <3>1
  <2>8. ASSUME NEW x \in TableName \ {tab} PROVE TableStays(x)
    <3>1. \A w \in rows : w[1] # x
      <4> HIDE DEF Row
      <4> QED BY <2>8
    <3> HIDE DEF rows
    <3> QED BY <2>5, <3>1 DEF TableStays
  <2> QED BY <2>1, <2>2, <2>5, <2>6, <2>7, <2>8 DEF InsertsPlan
<1>18. CASE ActivateListLines(t)
  <2> DEFINE c == req[t].contract
             found == ListInstallmentScheduleLines(t, c)
             f == [n \in {m \in found : ~LineOf(t, <<c, m>>).receivable} |->
                     LineOf(t, <<c, n>>).principal]
  <2>1. /\ pc[t] = "list_lines" /\ req[t].op = "activate" /\ c \in Contracts
        /\ pc'[t] = "bill_lines" /\ req'[t] = req[t] /\ entry'[t] = entry[t] /\ Keeps(t)
    BY <1>1, <1>18 DEF ActivateListLines, RequestOK, StatementsOf, FieldsOK, OnContract,
       Keeps
  <2>2. CASE found # {} /\ todo' = [todo EXCEPT ![t] = f] /\ UNCHANGED storage
    <3>1. \E n \in LineNos : LineOf(t, <<c, n>>) # NoLine
      BY <2>2 DEF ListInstallmentScheduleLines
    <3>2. todo'[t] = f
      <4> HIDE DEF f
      <4> QED BY <1>1, <2>2
    <3>3. f = [n \in {m \in LineNos : /\ LineOf(t, <<c, m>>) # NoLine
                                      /\ ~LineOf(t, <<c, m>>).receivable} |->
                 LineOf(t, <<c, n>>).principal]
      BY DEF ListInstallmentScheduleLines
    <3>4. ListsLines(t)
      <4> HIDE DEF f
      <4> QED BY <2>1, <2>2, <3>1, <3>2, <3>3 DEF ListsLines
    <3> QED BY <1>4, <2>2, <3>4
  <2>3. CASE found = {} /\ \E principal \in Schedules :
               /\ CreateInstallmentScheduleLines(t, c, principal)
               /\ todo' = [todo EXCEPT ![t] = principal]
    <3>1. PICK principal \in Schedules :
               /\ CreateInstallmentScheduleLines(t, c, principal)
               /\ todo' = [todo EXCEPT ![t] = principal]
      BY <2>3
    <3>2. todo'[t] = principal /\ \A n \in LineNos : LineOf(t, <<c, n>>) = NoLine
      BY <1>1, <2>3, <3>1 DEF ListInstallmentScheduleLines
    <3>3. InsertsPlan(t, c, principal) /\ StorageTypeOK' /\ DirtyIsCommitted'
      BY <1>17, <2>1, <3>1
    <3>4. PlansLines(t)
      BY <2>1, <3>2, <3>3 DEF PlansLines
    <3> QED BY <3>3, <3>4
  <2> QED BY <1>18, <2>2, <2>3 DEF ActivateListLines
<1>19. CASE InsertLines(t)
  <2>1. pc[t] = "insert_lines" /\ req[t].op = "generate" /\ req[t].contract \in Contracts
    BY <1>1, <1>19 DEF InsertLines, RequestOK, StatementsOf, FieldsOK, OnContract
  <2>2. PICK principal \in Schedules :
          CreateInstallmentScheduleLines(t, req[t].contract, principal)
    BY <1>19 DEF InsertLines
  <2>3. InsertsPlan(t, req[t].contract, principal) /\ StorageTypeOK' /\ DirtyIsCommitted'
    BY <1>17, <2>1, <2>2
  <2>4. Logs(t)
    BY <1>3, <1>19, <2>1 DEF InsertLines, EntryAt, Ending, Event
  <2>5. PlansLines(t)
    BY <2>1, <2>3, <2>4 DEF PlansLines, Logs
  <2> QED BY <2>3, <2>5
<1>20. CASE BillLine(t)
  <2> DEFINE c == req[t].contract
  <2>1. /\ pc[t] = "bill_lines" /\ req[t].op = "activate" /\ c \in Contracts
        /\ pc'[t] = "bill_lines" /\ req'[t] = req[t] /\ entry'[t] = entry[t] /\ Keeps(t)
    BY <1>1, <1>20 DEF BillLine, RequestOK, StatementsOf, FieldsOK, OnContract, Keeps
  <2>2. PICK n \in DOMAIN todo[t] :
          /\ CreateLinkedReceivable(t, <<c, n>>, todo[t][n])
          /\ todo' = [todo EXCEPT ![t] = [m \in DOMAIN todo[t] \ {n} |-> todo[t][m]]]
    BY <1>20 DEF BillLine
  <2>3. todo'[t] = [m \in DOMAIN todo[t] \ {n} |-> todo[t][m]]
    BY <1>1, <2>2
  <2> DEFINE l == <<c, n>>
             rec == [original |-> todo[t][n], status |-> "open"]
             line == [NewLine(l) EXCEPT !.receivable = TRUE]
             rows == {<<"receivables", l, rec>>, <<"installment_schedule_lines", l, line>>}
  <2>4. NewRec(l) = NoReceivable /\ WriteAll(t, rows) /\ l \in Lines
    <3>1. n \in LineNos
      BY <1>1 DEF TodoOK
    <3> QED BY <2>1, <2>2, <3>1 DEF CreateLinkedReceivable, NewRec, NewLine, Lines
  <2>5. rec \in ReceivableRow /\ line \in LineRow
    <3>1. todo[t][n] \in Principals \cup {Nil}
      BY <1>1 DEF TodoOK
    <3>2. NewLine(l) \in LineRow
      <4> HIDE DEF l
      <4> QED BY <2>4, TypedRows
    <3> HIDE DEF l
    <3> QED BY <3>1, <3>2 DEF ReceivableRow, ReceivableStatus, LineRow
  <2> HIDE DEF rec, line, l
  <2>6. /\ \A w \in rows : w[1] \in TableName /\ w[2] \in Rows[w[1]] /\ w[3] \in RowType[w[1]]
        /\ \A v, w \in rows : v[1] = w[1] /\ v[2] = w[2] => v = w
    BY <1>5, <2>4, <2>5
  <2>7. /\ \A x \in TableName : \A id \in Rows[x] :
             /\ \A w \in rows : w[1] = x /\ w[2] = id => RowWritten(t, x, id, w[3])
             /\ (\A w \in rows : ~(w[1] = x /\ w[2] = id)) => RowStays(x, id)
        /\ StorageTypeOK' /\ DirtyIsCommitted'
    <3> HIDE DEF rows
    <3> QED BY <1>1, <2>4, <2>6, WriteAllEffect
  <2>8. /\ RowWritten(t, "receivables", l, rec)
        /\ RowWritten(t, "installment_schedule_lines", l, line)
    BY <1>5, <2>4, <2>7
  <2>9. \A k \in Lines \ {l} :
          RowStays("receivables", k) /\ RowStays("installment_schedule_lines", k)
    BY <1>5, <2>7
  <2>10. \A x \in TableName \ {"receivables", "installment_schedule_lines"} : TableStays(x)
    BY <2>7 DEF TableStays
  <2>11. BillsLine(t)
    BY <2>1, <2>3, <2>4, <2>8, <2>9, <2>10 DEF BillsLine, rec, line, l
  <2> QED BY <2>7, <2>11
<1> QED BY <1>7, <1>8, <1>9, <1>10, <1>11, <1>12, <1>13, <1>14, <1>15, <1>16, <1>18,
           <1>19, <1>20 DEF Step

\* What others do: a client sets a unit, or one row of receivables or of
\* approvals changes, which is not an approval that was given, or the clock
\* goes on, or nothing happens.
UnitEntered ==
  \E u \in Units, row \in SalesStatus :
    ReplacesRow("units", u, row) /\ byHand' = byHand \cup {u}

SettlesOther ==
  /\ UNCHANGED <<pc, req, todo, entry, audit>> /\ late' \subseteq Reservations
  /\ \/ UnitEntered
     \/ byHand' = byHand /\ UNCHANGED storage
     \/ /\ byHand' = byHand
        /\ \E l \in Lines, row \in ReceivableRow :
             row # NoReceivable /\ ReplacesRow("receivables", l, row)
     \/ /\ byHand' = byHand
        /\ \E a \in ApprovalIds, row \in ApprovalRow :
             /\ db.approval_requests[a].status # "approved"
             /\ ReplacesRow("approval_requests", a, row)

LEMMA OthersEffect ==
  ASSUME Typed, Others \/ UNCHANGED vars
  PROVE  SettlesOther /\ StorageTypeOK' /\ DirtyIsCommitted'
<1>1. /\ StorageTypeOK /\ DirtyIsCommitted /\ late \subseteq Reservations
  BY DEF Typed, ControlTypeOK
<1>2. /\ {"units", "receivables", "approval_requests"} \subseteq TableName
      /\ Rows["units"] = Units /\ RowType["units"] = SalesStatus
      /\ Rows["receivables"] = Lines /\ RowType["receivables"] = ReceivableRow
      /\ Rows["approval_requests"] = ApprovalIds
      /\ RowType["approval_requests"] = ApprovalRow
  BY DEF TableName, Rows, RowType
<1>3. UNCHANGED storage => StorageTypeOK' /\ DirtyIsCommitted'
  BY <1>1 DEF storage, StorageTypeOK, Shaped, DirtyIsCommitted
<1>4. CASE UNCHANGED vars
  BY <1>1, <1>3, <1>4 DEF vars, storage, SettlesOther
<1>5. ASSUME NEW r \in Reservations, ExpiryPasses(r)
      PROVE  SettlesOther /\ StorageTypeOK' /\ DirtyIsCommitted'
  BY <1>1, <1>3, <1>5 DEF ExpiryPasses, SettlesOther
<1>6. ASSUME NEW tab \in {"units", "receivables", "approval_requests"}, NEW id \in Rows[tab],
             NEW row \in RowType[tab], WriteAndCommit(tab, id, row)
      PROVE  ReplacesRow(tab, id, row) /\ StorageTypeOK' /\ DirtyIsCommitted'
  BY <1>1, <1>2, <1>6, WriteAndCommitEffect
<1>7. ASSUME NEW l \in Lines, NEW s \in {"open", "partially_paid", "paid"},
             SettleReceivable(l, s)
      PROVE  SettlesOther /\ StorageTypeOK' /\ DirtyIsCommitted'
  <2> DEFINE row == [db["receivables"][l] EXCEPT !.status = s]
  <2>1. row \in ReceivableRow /\ row # NoReceivable
    <3>1. db["receivables"][l] \in ReceivableRow
      BY <1>1, <1>2 DEF StorageTypeOK
    <3> QED BY <3>1 DEF ReceivableRow, ReceivableStatus, NoReceivable
  <2>2. WriteAndCommit("receivables", l, row) /\ UNCHANGED <<late, byHand, pc, req, todo, entry, audit>>
    BY <1>7 DEF SettleReceivable
  <2> HIDE DEF row
  <2>3. ReplacesRow("receivables", l, row) /\ StorageTypeOK' /\ DirtyIsCommitted'
    BY <1>2, <1>6, <2>1, <2>2
  <2> QED BY <1>1, <2>1, <2>2, <2>3 DEF SettlesOther
<1>8. ASSUME NEW a \in ApprovalIds, NEW row \in ApprovalRow,
             db.approval_requests[a].status # "approved",
             WriteAndCommit("approval_requests", a, row),
             UNCHANGED <<late, byHand, pc, req, todo, entry, audit>>
      PROVE  SettlesOther /\ StorageTypeOK' /\ DirtyIsCommitted'
  <2>1. ReplacesRow("approval_requests", a, row) /\ StorageTypeOK' /\ DirtyIsCommitted'
    BY <1>2, <1>6, <1>8
  <2> QED BY <1>1, <1>8, <2>1 DEF SettlesOther
<1>9. ASSUME NEW a \in ApprovalIds, NEW s \in {"approved", "rejected", "cancelled"},
             DecideApproval(a, s)
      PROVE  SettlesOther /\ StorageTypeOK' /\ DirtyIsCommitted'
  <2> DEFINE row == [db["approval_requests"][a] EXCEPT !.status = s]
  <2>1. row \in ApprovalRow
    <3>1. db["approval_requests"][a] \in ApprovalRow
      BY <1>1, <1>2 DEF StorageTypeOK
    <3> QED BY <3>1 DEF ApprovalRow, ApprovalStatus
  <2>2. /\ WriteAndCommit("approval_requests", a, row)
        /\ UNCHANGED <<late, byHand, pc, req, todo, entry, audit>>
        /\ db.approval_requests[a].status = "pending"
    BY <1>9 DEF DecideApproval
  <2> HIDE DEF row
  <2> QED BY <1>8, <2>1, <2>2
<1>10. ASSUME NEW c \in Contracts, NEW type \in RequestType,
              NEW s \in ApprovalStatus \ {"none"}, SubmitApproval(c, type, s)
       PROVE  SettlesOther /\ StorageTypeOK' /\ DirtyIsCommitted'
  <2> DEFINE row == [status |-> s, contract |-> c, type |-> type]
  <2>1. row \in ApprovalRow
    BY DEF ApprovalRow, ApprovalStatus
  <2> HIDE DEF row
  <2>2. /\ UNCHANGED <<late, byHand, pc, req, todo, entry, audit>>
        /\ \E a \in NextApprovalId : WriteAndCommit("approval_requests", a, row)
    BY <1>10 DEF SubmitApproval, row
  <2>3. PICK a \in ApprovalIds : /\ dirty["approval_requests"][a] = NoApproval
                                 /\ WriteAndCommit("approval_requests", a, row)
    BY <2>2 DEF NextApprovalId
  <2>4. owner["approval_requests"][a] = Nil
    BY <2>3 DEF WriteAndCommit
  <2>5. db["approval_requests"][a] = NoApproval
    <3>1. /\ "approval_requests" \in DOMAIN owner
          /\ a \in DOMAIN owner["approval_requests"]
      BY <1>1, <1>2, StorageTabular DEF Tabular
    <3> QED BY <1>1, <2>3, <2>4, <3>1 DEF DirtyIsCommitted
  <2> QED BY <1>8, <2>1, <2>2, <2>3, <2>5 DEF NoApproval
<1>11. ASSUME NEW u \in Units, NEW s \in SalesStatus, UpdateUnit(u, s)
       PROVE  SettlesOther /\ StorageTypeOK' /\ DirtyIsCommitted'
  <2>1. /\ WriteAndCommit("units", u, s) /\ byHand' = byHand \cup {u}
        /\ UNCHANGED <<late, pc, req, todo, entry, audit>>
    BY <1>11 DEF UpdateUnit
  <2>2. ReplacesRow("units", u, s) /\ StorageTypeOK' /\ DirtyIsCommitted'
    BY <1>2, <1>6, <2>1
  <2> QED BY <1>1, <2>1, <2>2 DEF SettlesOther, UnitEntered
<1> QED BY <1>4, <1>5, <1>7, <1>9, <1>10, <1>11 DEF Others

\* The statements of t, and then every step there is.
Acts(t) ==
  \/ InsertsReservation(t) \/ ChangesUnit(t) \/ MovesReservation(t)
  \/ LooksForHolder(t) \/ InsertsContract(t) \/ EditsContract(t)
  \/ MovesContract(t) \/ ListsLines(t) \/ PlansLines(t) \/ BillsLine(t)
  \/ AsksApproval(t) \/ UpdatesLine(t)

LEMMA StepCases ==
  ASSUME Typed, [Next]_vars
  PROVE  /\ \/ SettlesOther
            \/ \E t \in Tx : (Begun(t) \/ Acts(t) \/ Ends(t)) /\ (Start(t) \/ Step(t))
         /\ StorageTypeOK' /\ DirtyIsCommitted'
<1>1. Others \/ UNCHANGED vars => SettlesOther /\ StorageTypeOK' /\ DirtyIsCommitted'
  BY OthersEffect
<1>2. ASSUME NEW t \in Tx, Start(t) PROVE Begun(t) /\ StorageTypeOK' /\ DirtyIsCommitted'
  BY <1>2, StartEffect
<1>3. ASSUME NEW t \in Tx, Step(t)
      PROVE  (Acts(t) \/ Ends(t)) /\ StorageTypeOK' /\ DirtyIsCommitted'
  BY <1>3, StepEffect DEF Acts
<1> QED BY <1>1, <1>2, <1>3 DEF Next

\* What is left as it is.
ReservationsStay == \A r \in Reservations : /\ Res(r)' = Res(r) /\ NewRes(r)' = NewRes(r)
                                            /\ ResLocker(r)' = ResLocker(r)
ContractsStay    == \A c \in Contracts : /\ Con(c)' = Con(c) /\ NewCon(c)' = NewCon(c)
                                         /\ ConLocker(c)' = ConLocker(c)
LinesStay        == \A l \in Lines : /\ Line(l)' = Line(l) /\ NewLine(l)' = NewLine(l)
                                     /\ LineLocker(l)' = LineLocker(l)
ReceivablesStay  == \A l \in Lines : /\ Rec(l)' = Rec(l) /\ NewRec(l)' = NewRec(l)
                                     /\ RecLocker(l)' = RecLocker(l)
UnitsStay        == \A u \in Units : RowStays("units", u)
ApprovalsStay    == \A a \in ApprovalIds : RowStays("approval_requests", a)

\* t writes one of the reservations, or one of the contracts.
ReservationWritten(t, r, row) ==
  /\ ResLocker(r) \in {Nil, t}
  /\ \A q \in Reservations : /\ Res(q)' = Res(q)
                             /\ NewRes(q)' = IF q = r THEN row ELSE NewRes(q)
                             /\ ResLocker(q)' = IF q = r THEN t ELSE ResLocker(q)

ContractWritten(t, c, row) ==
  /\ ConLocker(c) \in {Nil, t}
  /\ \A d \in Contracts : /\ Con(d)' = Con(d)
                          /\ NewCon(d)' = IF d = c THEN row ELSE NewCon(d)
                          /\ ConLocker(d)' = IF d = c THEN t ELSE ConLocker(d)

\* What a table's rows become is what its table becomes.
LEMMA TableViews ==
  /\ TableStays("units") => UnitsStay
  /\ TableStays("reservations") => ReservationsStay
  /\ TableStays("sales_contracts") => ContractsStay
  /\ TableStays("installment_schedule_lines") => LinesStay
  /\ TableStays("receivables") => ReceivablesStay
  /\ TableStays("approval_requests") => ApprovalsStay
  /\ \A t \in Tx : \A row :
       /\ \A r \in Reservations :
            WritesRow(t, "reservations", r, row) => ReservationWritten(t, r, row)
       /\ \A c \in Contracts :
            WritesRow(t, "sales_contracts", c, row) => ContractWritten(t, c, row)
<1>1. /\ Rows["units"] = Units /\ Rows["reservations"] = Reservations
      /\ Rows["sales_contracts"] = Contracts /\ Rows["installment_schedule_lines"] = Lines
      /\ Rows["receivables"] = Lines /\ Rows["approval_requests"] = ApprovalIds
  BY DEF Rows
<1>2. /\ TableStays("units") => UnitsStay
      /\ TableStays("approval_requests") => ApprovalsStay
      /\ TableStays("reservations") => ReservationsStay
      /\ TableStays("sales_contracts") => ContractsStay
      /\ TableStays("installment_schedule_lines") => LinesStay
      /\ TableStays("receivables") => ReceivablesStay
  BY <1>1 DEF TableStays, RowStays, UnitsStay, ApprovalsStay, ReservationsStay,
     ContractsStay, LinesStay, ReceivablesStay, Res, NewRes, ResLocker, Con, NewCon,
     ConLocker, Line, NewLine, LineLocker, Rec, NewRec, RecLocker
<1>3. ASSUME NEW t \in Tx, NEW row, NEW r \in Reservations,
             WritesRow(t, "reservations", r, row)
      PROVE  ReservationWritten(t, r, row)
  BY <1>1, <1>3 DEF WritesRow, OthersStayBut, RowWritten, RowStays, ReservationWritten,
     Res, NewRes, ResLocker
<1>4. ASSUME NEW t \in Tx, NEW row, NEW c \in Contracts,
             WritesRow(t, "sales_contracts", c, row)
      PROVE  ContractWritten(t, c, row)
  BY <1>1, <1>4 DEF WritesRow, OthersStayBut, RowWritten, RowStays, ContractWritten,
     Con, NewCon, ConLocker
<1> QED BY <1>2, <1>3, <1>4

\* Each table is written by few statements.
LEMMA Untouched ==
  /\ UNCHANGED storage => \A tab \in TableName : TableStays(tab)
  /\ \A t \in Tx : Acts(t) =>
       /\ ChangesUnit(t) \/ TableStays("units")
       /\ InsertsReservation(t) \/ MovesReservation(t) \/ TableStays("reservations")
       /\ InsertsContract(t) \/ EditsContract(t) \/ MovesContract(t)
            \/ TableStays("sales_contracts")
       /\ PlansLines(t) \/ BillsLine(t) \/ UpdatesLine(t)
            \/ TableStays("installment_schedule_lines")
       /\ BillsLine(t) \/ TableStays("receivables")
       /\ AsksApproval(t) \/ TableStays("approval_requests")
  /\ \A t \in Tx : Begun(t) => \A tab \in TableName \ {"reservations"} : TableStays(tab)
  /\ SettlesOther =>
       /\ \A tab \in TableName \ {"units", "receivables", "approval_requests"} :
            TableStays(tab)
       /\ UnitEntered \/ (TableStays("units") /\ byHand' = byHand)
<1>0. TableName = {"units", "reservations", "sales_contracts",
                   "installment_schedule_lines", "receivables", "approval_requests"}
  BY DEF TableName
<1>1. UNCHANGED storage => \A tab \in TableName : TableStays(tab)
  BY DEF storage, TableStays, RowStays
<1>2. \A t, tab, id, row : WritesRow(t, tab, id, row) \/ ReplacesRow(tab, id, row) =>
        \A other \in TableName \ {tab} : TableStays(other)
  BY DEF WritesRow, ReplacesRow, OthersStayBut
<1>3. ASSUME NEW t \in Tx, Acts(t)
      PROVE  /\ ChangesUnit(t) \/ TableStays("units")
             /\ InsertsReservation(t) \/ MovesReservation(t) \/ TableStays("reservations")
             /\ InsertsContract(t) \/ EditsContract(t) \/ MovesContract(t)
                  \/ TableStays("sales_contracts")
             /\ PlansLines(t) \/ BillsLine(t) \/ UpdatesLine(t)
                  \/ TableStays("installment_schedule_lines")
             /\ BillsLine(t) \/ TableStays("receivables")
             /\ AsksApproval(t) \/ TableStays("approval_requests")
  <2>1. CASE InsertsReservation(t) \/ MovesReservation(t)
    <3>1. \E id, row : WritesRow(t, "reservations", id, row)
      BY <2>1 DEF InsertsReservation, MovesReservation
    <3> QED BY <1>0, <1>2, <2>1, <3>1
  <2>2. CASE InsertsContract(t) \/ EditsContract(t) \/ MovesContract(t)
    <3>1. \E id, row : WritesRow(t, "sales_contracts", id, row)
      BY <2>2 DEF InsertsContract, EditsContract, MovesContract
    <3> QED BY <1>0, <1>2, <2>2, <3>1
  <2>3. CASE ChangesUnit(t) \/ AsksApproval(t) \/ UpdatesLine(t)
    BY <1>0, <1>2, <2>3 DEF ChangesUnit, AsksApproval, UpdatesLine
  <2>4. CASE LooksForHolder(t) \/ ListsLines(t)
    BY <1>0, <1>1, <2>4 DEF LooksForHolder, ListsLines
  <2>5. CASE PlansLines(t) \/ BillsLine(t)
    BY <1>0, <2>5 DEF PlansLines, InsertsPlan, BillsLine
  <2> QED BY <1>3, <2>1, <2>2, <2>3, <2>4, <2>5 DEF Acts
<1>4. ASSUME NEW t \in Tx, Begun(t), NEW tab \in TableName \ {"reservations"}
      PROVE  TableStays(tab)
  BY <1>1, <1>4 DEF Begun, ExpiresLate
<1>5. ASSUME SettlesOther,
             NEW tab \in TableName \ {"units", "receivables", "approval_requests"}
      PROVE  TableStays(tab)
  BY <1>1, <1>2, <1>5 DEF SettlesOther, UnitEntered
<1>6. ASSUME SettlesOther PROVE UnitEntered \/ (TableStays("units") /\ byHand' = byHand)
  <2>1. ASSUME NEW tab \in {"receivables", "approval_requests"}, NEW id, NEW row,
               ReplacesRow(tab, id, row)
        PROVE  TableStays("units")
    BY <1>0, <2>1 DEF ReplacesRow, OthersStayBut
  <2>2. UNCHANGED storage => TableStays("units")
    BY <1>0, <1>1
  <2> QED BY <1>6, <2>1, <2>2 DEF SettlesOther
<1> QED BY <1>1, <1>3, <1>4, <1>5, <1>6

\* A request that goes on remembers what fits its handler.
LEMMA ControlNext ==
  ASSUME Typed, NEW t \in Tx, Begun(t) \/ Acts(t) \/ Ends(t)
  PROVE  /\ RequestOK(t)' /\ TodoOK(t)' /\ OthersStay(t)
         /\ pc'[t] \in Statement /\ req'[t] \in Request \cup {Nil}
<1>1. /\ RequestOK(t) /\ TodoOK(t)
      /\ \A l \in Lines : LineOf(t, l) \in LineRow
  BY TypedRows, ReadRows
<1>2. CASE Begun(t)
  <2>1. RequestOK(t)' /\ pc'[t] \in Statement
    BY <1>2 DEF Begun, RequestOK, FirstStatement, Statement
  <2> QED BY <1>1, <1>2, <2>1 DEF Begun, TodoOK
<1>3. CASE Ends(t)
  <2>1. DOMAIN (<<>>) = {}
    OBVIOUS
  <2> QED BY <1>3, <2>1 DEF Ends, RequestOK, TodoOK, Statement
<1>4. ASSUME pc[t] # "idle", req'[t] = req[t], pc'[t] \in StatementsOf(req[t].op),
             FieldsOK(req[t], pc'[t]), pc'[t] \in Statement
      PROVE  /\ RequestOK(t)' /\ pc'[t] \in Statement /\ req'[t] \in Request \cup {Nil}
  BY <1>1, <1>4 DEF RequestOK
<1>5. ASSUME todo'[t] = todo[t] PROVE TodoOK(t)'
  BY <1>1, <1>5 DEF TodoOK
<1>6. ASSUME Logs(t), pc[t] \notin {"insert_reservation", "convert_insert"}
      PROVE  /\ RequestOK(t)' /\ TodoOK(t)' /\ pc'[t] \in Statement
             /\ req'[t] \in Request \cup {Nil}
  <2>1. /\ pc[t] # "idle" /\ req'[t] = req[t] /\ pc'[t] = "commit" /\ todo'[t] = todo[t]
        /\ pc[t] \in StatementsOf(req[t].op) /\ FieldsOK(req[t], pc[t])
        /\ req[t] \in Request
    BY <1>1, <1>6 DEF Logs, Keeps, RequestOK
  <2>2. "commit" \in StatementsOf(req[t].op)
    BY <2>1 DEF StatementsOf
  <2>3. FieldsOK(req[t], "commit")
    <3>1. req[t].op = "reserve" => req[t].reservation \in Reservations
      BY <1>6, <2>1 DEF StatementsOf, FieldsOK
    <3>2. req[t].op = "convert" => req[t].contract \in Contracts
      BY <1>6, <2>1 DEF StatementsOf, FieldsOK
    <3> QED BY <2>1, <3>1, <3>2 DEF FieldsOK
  <2>4. "commit" \in Statement
    BY DEF Statement
  <2> QED BY <1>4, <1>5, <2>1, <2>2, <2>3, <2>4
<1>7. CASE InsertsReservation(t)
  <2>1. PICK r \in Reservations : req'[t] = [req[t] EXCEPT !.reservation = r]
    BY <1>7 DEF InsertsReservation
  <2>2. /\ req[t].op = "reserve" /\ req[t] \in Request /\ pc'[t] = "reserve_unit"
        /\ todo'[t] = todo[t] /\ OthersStay(t) /\ FieldsOK(req[t], pc[t])
    BY <1>7 DEF InsertsReservation, Keeps, RequestOK
  <2>3. req'[t] \in Request
    BY <2>1, <2>2, RequestFields
  <2>4. /\ req'[t].op = "reserve" /\ req'[t].reservation = r /\ req'[t].unit = req[t].unit
    BY <2>1, <2>2 DEF Request
  <2>5. FieldsOK(req'[t], "reserve_unit")
    BY <2>2, <2>4 DEF FieldsOK, OnContract
  <2>6. "reserve_unit" \in StatementsOf("reserve") \cap Statement
    BY DEF StatementsOf, Statement
  <2> QED BY <1>5, <2>2, <2>3, <2>4, <2>5, <2>6 DEF RequestOK
<1>8. CASE InsertsContract(t)
  <2>1. CASE Logs(t) /\ pc[t] = "insert_contract"
    BY <1>6, <2>1 DEF Logs, Keeps
  <2>2. CASE pc[t] = "convert_insert"
    <3>1. PICK c \in Contracts : req'[t] = [req[t] EXCEPT !.contract = c]
      BY <1>8, <2>2 DEF InsertsContract
    <3>2. /\ req[t].op = "convert" /\ req[t] \in Request /\ pc'[t] = "convert_status"
          /\ todo'[t] = todo[t] /\ OthersStay(t) /\ FieldsOK(req[t], pc[t])
      BY <1>8, <2>2 DEF InsertsContract, Keeps, RequestOK
    <3>3. req'[t] \in Request
      BY <3>1, <3>2, RequestFields
    <3>4. /\ req'[t].op = "convert" /\ req'[t].contract = c
          /\ req'[t].unit = req[t].unit /\ req'[t].reservation = req[t].reservation
      BY <3>1, <3>2 DEF Request
    <3>5. FieldsOK(req'[t], "convert_status")
      BY <3>2, <3>4 DEF FieldsOK, OnContract
    <3>6. "convert_status" \in StatementsOf("convert") \cap Statement
      BY DEF StatementsOf, Statement
    <3> QED BY <1>5, <3>2, <3>3, <3>4, <3>5, <3>6 DEF RequestOK
  <2> QED BY <1>8, <2>1, <2>2 DEF InsertsContract
<1>9. CASE \/ ChangesUnit(t) \/ MovesReservation(t) \/ LooksForHolder(t)
           \/ EditsContract(t) \/ MovesContract(t)
           \/ AsksApproval(t) \/ UpdatesLine(t)
  <2>1. CASE Logs(t)
    <3>1. pc[t] \notin {"insert_reservation", "convert_insert"}
      BY <1>9 DEF ChangesUnit, UnitStatusAt, MovesReservation, LooksForHolder,
         EditsContract, MovesContract, AsksApproval, UpdatesLine
    <3> QED BY <1>6, <2>1, <3>1 DEF Logs, Keeps
  <2>2. CASE ~Logs(t)
    <3>1. PICK stmt : Goes(t, stmt) /\ stmt \in StatementsOf(req[t].op) /\ stmt \in Statement
                      /\ stmt \in {"look_for_holder", "release_unit", "sell_unit", "free_unit"}
      BY <1>9, <2>2 DEF ChangesUnit, MovesReservation, LooksForHolder, EditsContract,
         MovesContract, AsksApproval, UpdatesLine, StatementsOf, Statement
    <3>2. FieldsOK(req[t], stmt)
      <4>1. FieldsOK(req[t], pc[t]) /\ req[t].op \notin {"reserve", "convert"}
        BY <3>1 DEF Goes, Keeps, RequestOK, StatementsOf
      <4> QED BY <3>1, <4>1 DEF FieldsOK
    <3> QED BY <1>4, <1>5, <3>1, <3>2 DEF Goes, Keeps
  <2> QED BY <2>1, <2>2
<1>10. CASE ListsLines(t) \/ BillsLine(t) \/ PlansLines(t)
  <2>1. CASE Logs(t) /\ pc[t] = "insert_lines"
    BY <1>6, <2>1 DEF Logs, Keeps
  <2>2. CASE pc'[t] = "bill_lines"
    <3>1. /\ req[t].op = "activate" /\ req'[t] = req[t] /\ Keeps(t)
          /\ FieldsOK(req[t], pc[t])
      BY <1>10, <2>2 DEF ListsLines, BillsLine, PlansLines, Logs, Keeps, RequestOK
    <3>2. "bill_lines" \in StatementsOf("activate") \cap Statement
      BY DEF StatementsOf, Statement
    <3>3. FieldsOK(req[t], "bill_lines")
      BY <3>1 DEF FieldsOK
    <3>4. TodoOK(t)'
      <4>1. CASE ListsLines(t)
        <5>1. \A n \in LineNos :
                LineOf(t, <<req[t].contract, n>>).principal \in Principals \cup {Nil}
          <6>1. \A n \in LineNos : <<req[t].contract, n>> \in Lines
            BY <4>1 DEF ListsLines, Lines
          <6> QED BY <1>1, <6>1 DEF LineRow
        <5> QED BY <4>1, <5>1 DEF ListsLines, TodoOK
      <4>2. CASE BillsLine(t)
        BY <1>1, <4>2 DEF BillsLine, TodoOK
      <4>3. CASE PlansLines(t)
        BY <2>2, <4>3 DEF PlansLines, InsertsPlan, TodoOK, Logs
      <4> QED BY <1>10, <4>1, <4>2, <4>3
    <3> QED BY <1>4, <2>2, <3>1, <3>2, <3>3, <3>4 DEF Keeps
  <2> QED BY <1>10, <2>1, <2>2 DEF ListsLines, BillsLine, PlansLines
<1>11. OthersStay(t)
  BY DEF Begun, Ends, Acts, InsertsReservation, ChangesUnit, MovesReservation,
     LooksForHolder, InsertsContract, EditsContract, MovesContract, ListsLines,
     PlansLines, BillsLine, AsksApproval, UpdatesLine, Goes, Logs, Keeps
<1> QED BY <1>2, <1>3, <1>7, <1>8, <1>9, <1>10, <1>11 DEF Acts

LEMMA TypedNext == Typed /\ [Next]_vars => Typed'
<1> SUFFICES ASSUME Typed, [Next]_vars PROVE Typed'
  OBVIOUS
<1>1. /\ \/ SettlesOther
         \/ \E t \in Tx : (Begun(t) \/ Acts(t) \/ Ends(t)) /\ (Start(t) \/ Step(t))
      /\ StorageTypeOK' /\ DirtyIsCommitted'
  BY StepCases
<1>2. /\ pc \in [Tx -> Statement] /\ req \in [Tx -> Request \cup {Nil}]
      /\ DOMAIN todo = Tx /\ DOMAIN entry = Tx /\ late \subseteq Reservations
      /\ byHand \subseteq Units /\ \A x \in Tx : RequestOK(x) /\ TodoOK(x)
  BY DEF Typed, ControlTypeOK
<1>3. ControlTypeOK'
  <2>1. CASE SettlesOther
    <3>1. byHand' \subseteq Units
      BY <1>2, <2>1 DEF SettlesOther, UnitEntered
    <3> QED BY <1>2, <2>1, <3>1 DEF SettlesOther, ControlTypeOK, RequestOK, TodoOK
  <2>2. ASSUME NEW t \in Tx, Start(t) \/ Step(t), Begun(t) \/ Acts(t) \/ Ends(t)
        PROVE  ControlTypeOK'
    <3>1. /\ RequestOK(t)' /\ TodoOK(t)' /\ OthersStay(t)
          /\ pc'[t] \in Statement /\ req'[t] \in Request \cup {Nil}
      BY <2>2, ControlNext
    <3>2. /\ pc' \in [Tx -> Statement] /\ req' \in [Tx -> Request \cup {Nil}]
          /\ DOMAIN todo' = Tx /\ DOMAIN entry' = Tx /\ late' = late
          /\ byHand' \subseteq Units
      BY <2>2, <3>1, ControlFrame DEF Typed
    <3>3. \A x \in Tx \ {t} : RequestOK(x)' /\ TodoOK(x)'
      BY <1>2, <3>1 DEF OthersStay, RequestOK, TodoOK
    <3> QED BY <1>2, <3>1, <3>2, <3>3 DEF ControlTypeOK
  <2> QED BY <1>1, <2>1, <2>2
<1>4. /\ \A r \in Reservations :
           /\ Res(r) \in ReservationRow /\ NewRes(r) \in ReservationRow
           /\ ReservationRowOK(Res(r)) /\ ReservationRowOK(NewRes(r))
      /\ \A c \in Contracts :
           /\ Con(c) \in ContractRow /\ NewCon(c) \in ContractRow
           /\ ContractRowOK(Con(c)) /\ ContractRowOK(NewCon(c))
  BY TypedRows
<1>5. \A r \in Reservations : ReservationRowOK(Res(r))' /\ ReservationRowOK(NewRes(r))'
  <2>1. CASE ReservationsStay
    BY <1>4, <2>1 DEF ReservationsStay, ReservationRowOK
  <2>2. ASSUME NEW t \in Tx, NEW r \in Reservations, NEW row, ReservationRowOK(row),
               ReservationWritten(t, r, row)
        PROVE  <1>5
    BY <1>4, <2>2 DEF ReservationWritten, ReservationRowOK
  <2>3. ASSUME NEW r \in Reservations, NewRes(r).status = "active", NEW s, s # "none"
        PROVE  ReservationRowOK([NewRes(r) EXCEPT !.status = s])
    <3>1. NewRes(r) \in ReservationRow /\ ReservationRowOK(NewRes(r))
      BY <1>4
    <3> QED BY <2>3, <3>1 DEF ReservationRow, ReservationRowOK, NoReservation
  <2>4. CASE SettlesOther
    BY <2>1, <2>4, Untouched, TableViews DEF TableName
  <2>5. ASSUME NEW t \in Tx, Begun(t) PROVE <1>5
    <3>1. CASE UNCHANGED storage
      BY <2>1, <3>1, Untouched, TableViews DEF TableName
    <3>2. CASE ExpiresLate(t)
      <4>1. \A r \in Reservations :
              /\ Res(r)' = Res(r)
              /\ \/ NewRes(r)' = NewRes(r)
                 \/ /\ NewRes(r).status = "active"
                    /\ NewRes(r)' = [NewRes(r) EXCEPT !.status = "expired"]
        BY <3>2 DEF ExpiresLate, RowStays, RowWritten, Res, NewRes
      <4>2. \A r \in Reservations : \E row : NewRes(r)' = row /\ ReservationRowOK(row)
        BY <1>4, <2>3, <4>1
      <4> QED BY <1>4, <4>1, <4>2 DEF ReservationRowOK
    <3> QED BY <2>5, <3>1, <3>2 DEF Begun
  <2>6. ASSUME NEW t \in Tx, Acts(t) PROVE <1>5
    <3>1. CASE InsertsReservation(t)
      <4> DEFINE row == [status |-> "active", unit |-> req[t].unit]
      <4>1. ReservationRowOK(row) /\ \E r \in Reservations : WritesRow(t, "reservations", r, row)
        <5>1. req[t].unit \in Units
          BY <3>1 DEF InsertsReservation, Keeps, RequestOK, FieldsOK
        <5> QED BY <3>1, <5>1 DEF InsertsReservation, ReservationRowOK
      <4> HIDE DEF row
      <4> QED BY <2>2, <4>1, TableViews
    <3>2. CASE MovesReservation(t)
      <4>1. PICK s \in {"converted", "cancelled"} :
              /\ req[t].reservation \in Reservations
              /\ NewRes(req[t].reservation).status = "active"
              /\ WritesRow(t, "reservations", req[t].reservation,
                           [NewRes(req[t].reservation) EXCEPT !.status = s])
        BY <3>2 DEF MovesReservation
      <4> QED BY <2>2, <2>3, <4>1, TableViews
    <3> QED BY <2>1, <2>6, <3>1, <3>2, Untouched, TableViews
  <2>7. ASSUME NEW t \in Tx, Ends(t) PROVE <1>5
    <3>1. \A r \in Reservations : Res(r)' \in {Res(r), NewRes(r)}
                                  /\ NewRes(r)' \in {Res(r), NewRes(r)}
      <4>1. "reservations" \in TableName /\ Rows["reservations"] = Reservations
        BY DEF TableName, Rows
      <4> QED BY <2>7, <4>1 DEF Ends, Commits, RollsBack, CommitsRows, RollsBackRows,
              Res, NewRes
    <3> QED BY <1>4, <3>1 DEF ReservationRowOK
  <2> QED BY <1>1, <2>4, <2>5, <2>6, <2>7
<1>6. \A c \in Contracts : ContractRowOK(Con(c))' /\ ContractRowOK(NewCon(c))'
  <2>1. CASE ContractsStay
    BY <1>4, <2>1 DEF ContractsStay, ContractRowOK
  <2>2. ASSUME NEW t \in Tx, NEW c \in Contracts, NEW row, ContractRowOK(row),
               WritesRow(t, "sales_contracts", c, row)
        PROVE  <1>6
    <3>1. ContractWritten(t, c, row)
      BY <2>2, TableViews
    <3> QED BY <1>4, <2>2, <3>1 DEF ContractWritten, ContractRowOK
  <2>3. ASSUME NEW c \in Contracts, NewCon(c).status # "none"
        PROVE  /\ \A s : s # "none" => ContractRowOK([NewCon(c) EXCEPT !.status = s])
               /\ ContractRowOK([NewCon(c) EXCEPT !.template = TRUE])
    <3>1. NewCon(c) \in ContractRow /\ ContractRowOK(NewCon(c))
      BY <1>4
    <3> QED BY <2>3, <3>1 DEF ContractRow, ContractRowOK, NoContract
  <2>4. CASE SettlesOther
    BY <2>1, <2>4, Untouched, TableViews DEF TableName
  <2>5. ASSUME NEW t \in Tx, Begun(t) PROVE <1>6
    BY <2>1, <2>5, Untouched, TableViews DEF TableName
  <2>6. ASSUME NEW t \in Tx, Acts(t) PROVE <1>6
    <3>1. CASE InsertsContract(t)
      <4>1. PICK c \in Contracts, b \in BOOLEAN :
              /\ req[t].unit \in Units
              /\ WritesRow(t, "sales_contracts", c,
                   [status |-> "draft", unit |-> req[t].unit,
                    source |-> req[t].reservation, template |-> b])
        BY <3>1 DEF InsertsContract
      <4> DEFINE row == [status |-> "draft", unit |-> req[t].unit,
                         source |-> req[t].reservation, template |-> b]
      <4>2. ContractRowOK(row) /\ WritesRow(t, "sales_contracts", c, row)
        BY <4>1 DEF ContractRowOK
      <4> HIDE DEF row
      <4> QED BY <2>2, <4>2
    <3>2. CASE EditsContract(t)
      <4>1. /\ req[t].contract \in Contracts /\ NewCon(req[t].contract).status = "draft"
            /\ WritesRow(t, "sales_contracts", req[t].contract,
                         [NewCon(req[t].contract) EXCEPT !.template = TRUE])
        BY <3>2 DEF EditsContract
      <4> QED BY <2>2, <2>3, <4>1
    <3>3. CASE MovesContract(t)
      <4> DEFINE s == To[req[t].op]
      <4>1. /\ req[t].contract \in Contracts
            /\ NewCon(req[t].contract).status = From(req[t])
            /\ WritesRow(t, "sales_contracts", req[t].contract,
                         [NewCon(req[t].contract) EXCEPT !.status = s])
        BY <3>3 DEF MovesContract
      <4>2. From(req[t]) # "none" /\ s # "none"
        BY <3>3 DEF MovesContract, Goes, Logs, Keeps, RequestOK, FieldsOK, From, To
      <4> HIDE DEF s
      <4> QED BY <2>2, <2>3, <4>1, <4>2
    <3> QED BY <2>1, <2>6, <3>1, <3>2, <3>3, Untouched, TableViews
  <2>7. ASSUME NEW t \in Tx, Ends(t) PROVE <1>6
    <3>1. \A c \in Contracts : /\ Con(c)' \in {Con(c), NewCon(c)}
                               /\ NewCon(c)' \in {Con(c), NewCon(c)}
      <4>1. "sales_contracts" \in TableName /\ Rows["sales_contracts"] = Contracts
        BY DEF TableName, Rows
      <4> QED BY <2>7, <4>1 DEF Ends, Commits, RollsBack, CommitsRows, RollsBackRows,
              Con, NewCon
    <3> QED BY <1>4, <3>1 DEF ContractRowOK
  <2> QED BY <1>1, <2>4, <2>5, <2>6, <2>7
<1> QED BY <1>1, <1>3, <1>5, <1>6 DEF Typed, RowsOK

\* At first there is nothing, and nobody has begun.
LEMMA InitFacts ==
  ASSUME Init
  PROVE  /\ Typed /\ audit = {} /\ \A t \in Tx : pc[t] = "idle" /\ entry[t] = {}
         /\ \A c \in Contracts : Con(c) = NoContract /\ NewCon(c) = NoContract
         /\ \A r \in Reservations : Res(r) = NoReservation /\ NewRes(r) = NoReservation
         /\ \A l \in Lines : Line(l) = NoLine /\ Rec(l) = NoReceivable
         /\ byHand = Units
         /\ \A tab \in TableName : \A id \in Rows[tab] : owner[tab][id] = Nil
<1>0. PICK sales_status \in [Units -> SalesStatus] : db = EmptyTables(sales_status)
  BY DEF Init
<1> DEFINE Empty == EmptyTables(sales_status)
<1>1. /\ db = Empty /\ dirty = Empty /\ byHand = Units
      /\ owner = [tab \in DOMAIN Rows |-> [id \in Rows[tab] |-> Nil]]
      /\ late = {} /\ audit = {}
      /\ pc = [t \in Tx |-> "idle"] /\ req = [t \in Tx |-> Nil]
      /\ todo = [t \in Tx |-> <<>>] /\ entry = [t \in Tx |-> {}]
  BY <1>0 DEF Init
<1>2. /\ DOMAIN Rows = TableName
      /\ Rows["units"] = Units /\ RowType["units"] = SalesStatus
      /\ Rows["reservations"] = Reservations /\ RowType["reservations"] = ReservationRow
      /\ Rows["sales_contracts"] = Contracts /\ RowType["sales_contracts"] = ContractRow
      /\ Rows["installment_schedule_lines"] = Lines
      /\ RowType["installment_schedule_lines"] = LineRow
      /\ Rows["receivables"] = Lines /\ RowType["receivables"] = ReceivableRow
      /\ Rows["approval_requests"] = ApprovalIds
      /\ RowType["approval_requests"] = ApprovalRow
      /\ TableName = {"units", "reservations", "sales_contracts",
                      "installment_schedule_lines", "receivables", "approval_requests"}
  BY DEF Rows, RowType, TableName
<1>3. /\ NoReservation \in ReservationRow /\ NoContract \in ContractRow
      /\ NoLine \in LineRow /\ NoReceivable \in ReceivableRow /\ NoApproval \in ApprovalRow
  BY DEF NoReservation, ReservationRow, ReservationStatus, NoContract, ContractRow,
     ContractStatus, NoLine, LineRow, NoReceivable, ReceivableRow, ReceivableStatus,
     NoApproval, ApprovalRow, ApprovalStatus
<1>4. /\ DOMAIN Empty = TableName
      /\ Empty["units"] = sales_status
      /\ Empty["reservations"] = [r \in Reservations |-> NoReservation]
      /\ Empty["sales_contracts"] = [c \in Contracts |-> NoContract]
      /\ Empty["installment_schedule_lines"] = [l \in Lines |-> NoLine]
      /\ Empty["receivables"] = [l \in Lines |-> NoReceivable]
      /\ Empty["approval_requests"] = [a \in ApprovalIds |-> NoApproval]
  <2> HIDE DEF NoReservation, NoContract, NoLine, NoReceivable, NoApproval
  <2> QED BY DEF EmptyTables, TableName
<1>5. Shaped(db) /\ Shaped(dirty)
  <2>1. Empty = [tab \in TableName |-> Empty[tab]]
    BY <1>4 DEF EmptyTables
  <2>2. sales_status = [u \in Units |-> sales_status[u]]
    OBVIOUS
  <2> HIDE DEF Empty
  <2>3. \A tab \in TableName : Empty[tab] = [id \in Rows[tab] |-> Empty[tab][id]]
    BY <1>2, <1>4, <2>2
  <2> QED BY <1>1, <2>1, <2>3 DEF Shaped
<1>6. Shaped(owner) /\ \A tab \in TableName : \A id \in Rows[tab] : owner[tab][id] = Nil
  <2>1. owner = [tab \in TableName |-> [id \in Rows[tab] |-> Nil]]
    BY <1>1, <1>2
  <2> QED BY <2>1 DEF Shaped
<1>7. StorageTypeOK
  <2>1. \A tab \in TableName : \A id \in Rows[tab] : Empty[tab][id] \in RowType[tab]
    BY <1>2, <1>3, <1>4
  <2> HIDE DEF Empty
  <2> QED BY <1>1, <1>5, <1>6, <2>1 DEF StorageTypeOK
<1>8. ControlTypeOK
  <2>1. DOMAIN (<<>>) = {}
    OBVIOUS
  <2> QED BY <1>1, <2>1 DEF ControlTypeOK, RequestOK, TodoOK, Statement
<1>9. /\ \A c \in Contracts : Con(c) = NoContract /\ NewCon(c) = NoContract
      /\ \A r \in Reservations : Res(r) = NoReservation /\ NewRes(r) = NoReservation
      /\ \A l \in Lines : Line(l) = NoLine /\ Rec(l) = NoReceivable
  BY <1>1, <1>4 DEF Con, NewCon, Res, NewRes, Line, Rec
<1>10. RowsOK
  BY <1>9 DEF RowsOK, ContractRowOK, ReservationRowOK
<1>11. DirtyIsCommitted
  BY <1>1 DEF DirtyIsCommitted
<1> QED BY <1>1, <1>6, <1>7, <1>8, <1>9, <1>10, <1>11 DEF Typed

LEMMA SpecTyped == Spec => []Typed
<1>1. Init => Typed
  BY InitFacts
<1> QED BY <1>1, TypedNext, PTL DEF Spec

\* The tables, the locks and the requests are of their types, whatever the
\* handlers interleave.
THEOREM TypeCorrect == Spec => []TypeOK
<1> DEFINE Tables == [units : [Units -> SalesStatus],
                      reservations : [Reservations -> ReservationRow],
                      sales_contracts : [Contracts -> ContractRow],
                      installment_schedule_lines : [Lines -> LineRow],
                      receivables : [Lines -> ReceivableRow],
                      approval_requests : [ApprovalIds -> ApprovalRow]]
<1>1. /\ Rows["units"] = Units /\ RowType["units"] = SalesStatus
      /\ Rows["reservations"] = Reservations /\ RowType["reservations"] = ReservationRow
      /\ Rows["sales_contracts"] = Contracts /\ RowType["sales_contracts"] = ContractRow
      /\ Rows["installment_schedule_lines"] = Lines
      /\ RowType["installment_schedule_lines"] = LineRow
      /\ Rows["receivables"] = Lines /\ RowType["receivables"] = ReceivableRow
      /\ Rows["approval_requests"] = ApprovalIds
      /\ RowType["approval_requests"] = ApprovalRow
      /\ DOMAIN Rows = TableName
      /\ TableName = {"units", "reservations", "sales_contracts",
                      "installment_schedule_lines", "receivables", "approval_requests"}
  BY DEF Rows, RowType, TableName
<1>2. ASSUME NEW f, Shaped(f), \A tab \in TableName : \A id \in Rows[tab] : f[tab][id] \in RowType[tab]
      PROVE  f \in Tables
  <2>1. f = [tab \in TableName |-> f[tab]]
    BY <1>2 DEF Shaped
  <2>2. ASSUME NEW tab \in TableName PROVE f[tab] \in [Rows[tab] -> RowType[tab]]
    <3>1. f[tab] = [id \in Rows[tab] |-> f[tab][id]]
      BY <1>2 DEF Shaped
    <3> QED BY <1>2, <3>1
  <2>3. /\ f.units \in [Units -> SalesStatus]
        /\ f.reservations \in [Reservations -> ReservationRow]
        /\ f.sales_contracts \in [Contracts -> ContractRow]
        /\ f.installment_schedule_lines \in [Lines -> LineRow]
        /\ f.receivables \in [Lines -> ReceivableRow]
        /\ f.approval_requests \in [ApprovalIds -> ApprovalRow]
    BY <1>1, <2>2
  <2>4. f = [units |-> f.units, reservations |-> f.reservations,
             sales_contracts |-> f.sales_contracts,
             installment_schedule_lines |-> f.installment_schedule_lines,
             receivables |-> f.receivables, approval_requests |-> f.approval_requests]
    BY <1>1, <2>1
  <2> QED BY <2>3, <2>4
<1>3. ASSUME Typed PROVE TypeOK
  <2>1. /\ Shaped(db) /\ Shaped(dirty) /\ Shaped(owner) /\ ControlTypeOK
        /\ \A tab \in TableName : \A id \in Rows[tab] :
             /\ db[tab][id] \in RowType[tab] /\ dirty[tab][id] \in RowType[tab]
             /\ owner[tab][id] \in Tx \cup {Nil}
    BY <1>3 DEF Typed, StorageTypeOK
  <2>2. db \in Tables /\ dirty \in Tables
    BY <1>2, <2>1
  <2>3. /\ DOMAIN owner = DOMAIN Rows
        /\ \A tab \in DOMAIN Rows : owner[tab] \in [Rows[tab] -> Tx \cup {Nil}]
    <3>1. owner = [tab \in TableName |-> owner[tab]]
      BY <2>1 DEF Shaped
    <3>2. ASSUME NEW tab \in TableName PROVE owner[tab] \in [Rows[tab] -> Tx \cup {Nil}]
      <4>1. owner[tab] = [id \in Rows[tab] |-> owner[tab][id]]
        BY <2>1 DEF Shaped
      <4> QED BY <2>1, <4>1
    <3>3. DOMAIN owner = TableName
      BY <3>1, Zenon
    <3> QED BY <1>1, <3>2, <3>3
  <2>4. /\ late \subseteq Reservations /\ byHand \subseteq Units
        /\ pc \in [Tx -> Statement]
        /\ req \in [Tx -> Request \cup {Nil}] /\ \A t \in Tx : DOMAIN todo[t] \subseteq LineNos
    BY <2>1 DEF ControlTypeOK, TodoOK
  <2> QED BY <2>2, <2>3, <2>4 DEF TypeOK
<1> QED BY <1>3, SpecTyped, PTL

-----------------------------------------------------------------------------
(***************************************************************************)
(* The locks on contracts.                                                 *)
(***************************************************************************)
\* t commits or undoes what it has written of the contracts, or reservations.
ContractsEnd(t) ==
  /\ \A c \in Contracts : ConLocker(c)' = IF ConLocker(c) = t THEN Nil ELSE ConLocker(c)
  /\ \/ /\ Commits(t)
        /\ \A c \in Contracts :
             /\ NewCon(c)' = NewCon(c)
             /\ Con(c)' = IF ConLocker(c) = t THEN NewCon(c) ELSE Con(c)
     \/ /\ RollsBack(t)
        /\ \A c \in Contracts :
             /\ Con(c)' = Con(c)
             /\ NewCon(c)' = IF ConLocker(c) = t THEN Con(c) ELSE NewCon(c)

ReservationsEnd(t) ==
  /\ \A r \in Reservations : ResLocker(r)' = IF ResLocker(r) = t THEN Nil ELSE ResLocker(r)
  /\ \/ /\ Commits(t)
        /\ \A r \in Reservations :
             /\ NewRes(r)' = NewRes(r)
             /\ Res(r)' = IF ResLocker(r) = t THEN NewRes(r) ELSE Res(r)
     \/ /\ RollsBack(t)
        /\ \A r \in Reservations :
             /\ Res(r)' = Res(r)
             /\ NewRes(r)' = IF ResLocker(r) = t THEN Res(r) ELSE NewRes(r)

LEMMA EndViews ==
  ASSUME NEW t \in Tx, Ends(t)
  PROVE  ContractsEnd(t) /\ ReservationsEnd(t)
<1>1. /\ "sales_contracts" \in TableName /\ Rows["sales_contracts"] = Contracts
      /\ "reservations" \in TableName /\ Rows["reservations"] = Reservations
  BY DEF TableName, Rows
<1>2. ContractsEnd(t)
  BY <1>1 DEF Ends, Commits, RollsBack, CommitsRows, RollsBackRows, ContractsEnd,
     Con, NewCon, ConLocker
<1>3. ReservationsEnd(t)
  BY <1>1 DEF Ends, Commits, RollsBack, CommitsRows, RollsBackRows, ReservationsEnd,
     Res, NewRes, ResLocker
<1> QED BY <1>2, <1>3

\* What a step does to the contracts.
LEMMA ContractSteps ==
  ASSUME Typed, [Next]_vars
  PROVE  \/ SettlesOther /\ ContractsStay
         \/ \E t \in Tx :
              /\ OthersStay(t)
              /\ \/ Begun(t) /\ ContractsStay
                 \/ Acts(t) /\ ContractsStay
                 \/ InsertsContract(t) \/ EditsContract(t) \/ MovesContract(t)
                 \/ Ends(t) /\ ContractsEnd(t)
<1>1. CASE SettlesOther
  BY <1>1, Untouched, TableViews DEF TableName
<1>2. ASSUME NEW t \in Tx, Begun(t) \/ Acts(t) \/ Ends(t)
      PROVE  /\ OthersStay(t)
             /\ \/ Begun(t) /\ ContractsStay
                \/ Acts(t) /\ ContractsStay
                \/ InsertsContract(t) \/ EditsContract(t) \/ MovesContract(t)
                \/ Ends(t) /\ ContractsEnd(t)
  <2>1. OthersStay(t)
    BY <1>2, ControlNext
  <2>2. Begun(t) => ContractsStay
    BY Untouched, TableViews DEF TableName
  <2>3. Acts(t) => InsertsContract(t) \/ EditsContract(t) \/ MovesContract(t) \/ ContractsStay
    BY Untouched, TableViews
  <2>4. Ends(t) => ContractsEnd(t)
    BY EndViews
  <2> QED BY <1>2, <2>1, <2>2, <2>3, <2>4
<1> QED BY <1>1, <1>2, StepCases

\* A transaction has locked only a contract it has written.
LEMMA ContractLocked ==
  ASSUME ContractsSound, NEW t \in Tx, NEW c \in Contracts, ConLocker(c) = t
  PROVE  /\ pc[t] \in {"sell_unit", "free_unit", "convert_status", "commit"}
         /\ Moves(t, c) \/ Edits(t, c) \/ Inserts(t, c)
BY DEF ContractsSound, ContractsSoundFor, ContractLocks, Moves, Edits, Inserts

\* The unit of a contract and where it comes from never change.
ContractKept(c) ==
  Con(c).status # "none" =>
    /\ Con(c)'.status # "none" /\ Con(c)'.unit = Con(c).unit
    /\ Con(c)'.source = Con(c).source

LEMMA ContractsAreKept ==
  ASSUME Typed, ContractsSound, NEW t \in Tx, ContractsEnd(t), NEW c \in Contracts
  PROVE  ContractKept(c)
<1>1. /\ Con(c) \in ContractRow
      /\ Con(c)' \in {Con(c), NewCon(c)}
      /\ Con(c)' # Con(c) => ConLocker(c) = t
  BY TypedRows DEF ContractsEnd
<1>2. CASE ConLocker(c) # t
  BY <1>1, <1>2 DEF ContractKept
<1>3. CASE ConLocker(c) = t
  <2>1. Moves(t, c) \/ Edits(t, c) \/ Inserts(t, c)
    BY <1>3, ContractLocked
  <2>2. CASE Moves(t, c)
    <3>1. /\ NewCon(c) = [Con(c) EXCEPT !.status = To[req[t].op]]
          /\ To[req[t].op] # "none"
      BY <2>2 DEF Moves, To, Mover
    <3> QED BY <1>1, <3>1 DEF ContractKept, ContractRow
  <2>3. CASE Edits(t, c)
    BY <1>1, <2>3 DEF Edits, ContractKept, ContractRow
  <2>4. CASE Inserts(t, c)
    BY <2>4 DEF Inserts, ContractKept, NoContract
  <2> QED BY <2>1, <2>2, <2>3, <2>4
<1> QED BY <1>2, <1>3

\* What is said of a transaction stays so as long as it does nothing.
LEMMA ContractsOfOthers ==
  ASSUME Typed, ContractsSound, NEW x \in Tx, pc'[x] = pc[x], req'[x] = req[x],
         \A c \in Contracts :
           /\ ConLocker(c)' = x <=> ConLocker(c) = x
           /\ ConLocker(c) = x => Con(c)' = Con(c) /\ NewCon(c)' = NewCon(c)
           /\ ContractKept(c)
  PROVE  ContractsSoundFor(x)'
<1>1. ContractsSoundFor(x) /\ RequestOK(x)
  BY TypedRows DEF ContractsSound
<1>2. ContractLocks(x)'
  BY <1>1 DEF ContractsSoundFor, ContractLocks, Moves, Edits, Inserts
<1>3. pc[x] # "idle" /\ req[x].op \in OnContract => req[x].contract \in Contracts
  BY <1>1 DEF RequestOK, FieldsOK
<1>4. HasWritten(x) => req[x].contract \in Contracts
  <2>1. HasWritten(x) => /\ pc[x] # "idle" /\ req[x].op \in OnContract \cup {"convert"}
                         /\ pc[x] \in {"sell_unit", "free_unit", "convert_status", "commit"}
    BY <1>1 DEF HasWritten, RequestOK, StatementsOf, OnContract
  <2> QED BY <1>1, <1>3, <2>1 DEF RequestOK, FieldsOK, StatementsOf
<1>5. WriterLocks(x)'
  BY <1>1, <1>4 DEF ContractsSoundFor, WriterLocks, HasWritten
<1>6. UnitIsRemembered(x)'
  BY <1>1, <1>3 DEF ContractsSoundFor, UnitIsRemembered, ContractKept
<1> QED BY <1>2, <1>5, <1>6 DEF ContractsSoundFor

LEMMA ContractsNext == Typed /\ ContractsSound /\ [Next]_vars => ContractsSound'
<1> SUFFICES ASSUME Typed, ContractsSound, [Next]_vars PROVE ContractsSound'
  OBVIOUS
<1>1. /\ StorageTypeOK /\ \A t \in Tx : RequestOK(t) /\ ContractsSoundFor(t)
      /\ Nil \notin Tx
      /\ \A c \in Contracts :
           /\ Con(c) \in ContractRow /\ NewCon(c) \in ContractRow
           /\ ConLocker(c) = Nil => NewCon(c) = Con(c)
  BY TypedRows, NilAssumption DEF ContractsSound
<1>2. CASE SettlesOther /\ ContractsStay
  <2>1. \A x \in Tx : pc'[x] = pc[x] /\ req'[x] = req[x]
    BY <1>2 DEF SettlesOther
  <2> QED BY <1>2, <2>1, ContractsOfOthers DEF ContractsSound, ContractsStay, ContractKept
<1>3. ASSUME NEW t \in Tx, OthersStay(t), ContractsStay, ContractsSoundFor(t)'
      PROVE  ContractsSound'
  BY <1>3, ContractsOfOthers DEF OthersStay, ContractsSound, ContractsStay, ContractKept
<1>4. ASSUME NEW t \in Tx, OthersStay(t), Begun(t), ContractsStay PROVE ContractsSound'
  <2>1. pc[t] = "idle"
    BY <1>4 DEF Begun
  <2>2. \A c \in Contracts : ConLocker(c) # t /\ ConLocker(c)' # t
    BY <1>4, <2>1, ContractLocked DEF ContractsStay
  <2>3. \A c \in Contracts : ContractOf(t, c) = Con(c)
    BY <2>2 DEF ContractOf, Sees, Con, ConLocker
  <2>4. ContractLocks(t)' /\ WriterLocks(t)'
    BY <1>4, <2>2 DEF ContractLocks, WriterLocks, HasWritten, Begun, FirstStatement
  <2>5. UnitIsRemembered(t)'
    <3>1. req'[t].op \in OnContract => req'[t].contract \in Contracts
      BY <1>4 DEF Begun, FieldsOK
    <3> QED BY <1>4, <2>3, <3>1 DEF UnitIsRemembered, Begun, ContractsStay
  <2> QED BY <1>3, <1>4, <2>4, <2>5 DEF ContractsSoundFor
<1>5. ASSUME NEW t \in Tx, OthersStay(t), ContractsStay,
             \/ InsertsReservation(t) \/ ChangesUnit(t) \/ MovesReservation(t)
             \/ LooksForHolder(t) \/ ListsLines(t) \/ PlansLines(t) \/ BillsLine(t)
             \/ AsksApproval(t) \/ UpdatesLine(t)
      PROVE  ContractsSound'
  <2>1. /\ pc[t] # "idle" /\ req[t] \in Request
        /\ \/ req'[t] = req[t]
           \/ req[t].op = "reserve" /\ \E r : req'[t] = [req[t] EXCEPT !.reservation = r]
    BY <1>1, <1>5 DEF InsertsReservation, ChangesUnit, MovesReservation, LooksForHolder,
       ListsLines, PlansLines, BillsLine, AsksApproval, UpdatesLine, Logs, Goes, Keeps,
       RequestOK
  <2>2. /\ req'[t].op = req[t].op /\ req'[t].contract = req[t].contract
        /\ req'[t].unit = req[t].unit /\ req'[t].from = req[t].from
        /\ req[t].op # "reserve" => req'[t].reservation = req[t].reservation
    BY <2>1 DEF Request
  <2>3. ASSUME pc[t] \in {"sell_unit", "free_unit", "convert_status", "commit"}
        PROVE  /\ pc'[t] = "commit"
               /\ pc[t] \in {"sell_unit", "free_unit"} \/ req[t].op = "convert"
    BY <1>5, <2>3 DEF InsertsReservation, ChangesUnit, MovesReservation, LooksForHolder,
       ListsLines, PlansLines, BillsLine, AsksApproval, UpdatesLine, Logs, Goes, Keeps,
       UnitStatusAt
  <2>4. HasWritten(t)' => HasWritten(t)
    <3>1. pc'[t] = "sell_unit" \/ pc'[t] = "free_unit" \/ pc'[t] = "convert_status" => FALSE
      BY <1>5 DEF InsertsReservation, ChangesUnit, MovesReservation, LooksForHolder,
         ListsLines, PlansLines, BillsLine, AsksApproval, UpdatesLine, Logs, Goes, Keeps
    <3>2. pc'[t] = "commit" /\ req[t].op = "convert" => pc[t] = "convert_status"
      BY <1>1, <1>5 DEF InsertsReservation, ChangesUnit, MovesReservation, LooksForHolder,
         ListsLines, PlansLines, BillsLine, AsksApproval, UpdatesLine, Logs, Goes, Keeps,
         UnitStatusAt, RequestOK, StatementsOf
    <3>3. pc'[t] = "commit" /\ req[t].op \in {"activate", "complete", "default"} =>
            pc[t] \in {"sell_unit", "commit"}
      BY <1>1, <1>5 DEF InsertsReservation, ChangesUnit, MovesReservation, LooksForHolder,
         ListsLines, PlansLines, BillsLine, AsksApproval, UpdatesLine, Logs, Goes, Keeps,
         UnitStatusAt, RequestOK, StatementsOf
    <3>4. pc'[t] = "commit" /\ req[t].op \in {"activate", "complete", "default"}
            /\ pc[t] = "commit" => HasWritten(t)
      BY DEF HasWritten
    <3> QED BY <2>2, <3>1, <3>2, <3>3, <3>4 DEF HasWritten
  <2>5. ASSUME NEW c \in Contracts, ConLocker(c)' = t
        PROVE  (Moves(t, c) \/ Edits(t, c) \/ Inserts(t, c))'
    <3>1. /\ ConLocker(c) = t /\ Con(c)' = Con(c) /\ NewCon(c)' = NewCon(c)
      BY <1>5, <2>5 DEF ContractsStay
    <3>2. /\ pc[t] \in {"sell_unit", "free_unit", "convert_status", "commit"}
          /\ Moves(t, c) \/ Edits(t, c) \/ Inserts(t, c)
      BY <3>1, ContractLocked
    <3>3. From(req[t])' = From(req[t])
      BY <2>2 DEF From
    <3>4. Moves(t, c) => Moves(t, c)'
      BY <2>2, <2>3, <3>1, <3>2, <3>3 DEF Moves
    <3>5. Edits(t, c) => FALSE
      BY <2>3, <3>2 DEF Edits
    <3>6. Inserts(t, c) => Inserts(t, c)'
      BY <2>2, <2>3, <3>1, <3>2 DEF Inserts
    <3> QED BY <3>2, <3>4, <3>5, <3>6
  <2>6. ContractLocks(t)'
    BY <2>5 DEF ContractLocks
  <2>7. WriterLocks(t)'
    <3>1. HasWritten(t) => ConLocker(req[t].contract) = t /\ req[t].contract \in Contracts
      <4>1. HasWritten(t) => req[t].op \in OnContract \cup {"convert"}
                             /\ (req[t].op = "convert" => pc[t] \in {"convert_status", "commit"})
        BY <1>1, <2>1 DEF HasWritten, RequestOK, StatementsOf, OnContract
      <4> QED BY <1>1, <2>1, <4>1 DEF ContractsSoundFor, WriterLocks, RequestOK, FieldsOK
    <3> QED BY <1>5, <2>2, <2>4, <3>1 DEF WriterLocks, ContractsStay
  <2>8. UnitIsRemembered(t)'
    <3>1. req[t].op \in OnContract => req[t].contract \in Contracts
      BY <1>1, <2>1 DEF RequestOK, FieldsOK
    <3> QED BY <1>1, <1>5, <2>1, <2>2, <3>1
            DEF ContractsSoundFor, UnitIsRemembered, ContractsStay
  <2> QED BY <1>3, <1>5, <2>6, <2>7, <2>8 DEF ContractsSoundFor
<1>6. ASSUME NEW t \in Tx, NEW c \in Contracts, NEW row, ContractWritten(t, c, row),
             OthersStay(t), ContractsSoundFor(t)'
      PROVE  ContractsSound'
  <2>1. ASSUME NEW x \in Tx \ {t} PROVE ContractsSoundFor(x)'
    <3>1. /\ pc'[x] = pc[x] /\ req'[x] = req[x]
          /\ \A d \in Contracts :
               /\ ConLocker(d)' = x <=> ConLocker(d) = x
               /\ ConLocker(d) = x => Con(d)' = Con(d) /\ NewCon(d)' = NewCon(d)
               /\ ContractKept(d)
      BY <1>1, <1>6 DEF OthersStay, ContractWritten, ContractKept
    <3> QED BY <3>1, ContractsOfOthers
  <2> QED BY <1>6, <2>1 DEF ContractsSound
<1>7. ASSUME NEW t \in Tx, OthersStay(t), InsertsContract(t) PROVE ContractsSound'
  <2>1. PICK c \in Contracts, b \in BOOLEAN :
          /\ NewCon(c) = NoContract
          /\ WritesRow(t, "sales_contracts", c,
                 [status |-> "draft", unit |-> req[t].unit,
                  source |-> req[t].reservation, template |-> b])
          /\ \/ /\ pc[t] = "convert_insert" /\ pc'[t] = "convert_status" /\ Keeps(t)
                /\ req[t].op = "convert" /\ req'[t] = [req[t] EXCEPT !.contract = c]
             \/ pc[t] = "insert_contract" /\ req[t].op = "create" /\ Logs(t)
    BY <1>7 DEF InsertsContract
  <2> DEFINE row == [status |-> "draft", unit |-> req[t].unit,
                     source |-> req[t].reservation, template |-> b]
  <2>2. row.status = "draft" /\ row.source = req[t].reservation
    OBVIOUS
  <2>3. ContractWritten(t, c, row)
    <3> HIDE DEF row
    <3>1. WritesRow(t, "sales_contracts", c, row)
      BY <2>1 DEF row
    <3> QED BY <3>1, TableViews
  <2> HIDE DEF row
  <2>4. /\ req'[t].op = req[t].op /\ req'[t].reservation = req[t].reservation
        /\ req[t].op = "convert" => req'[t].contract = c /\ pc'[t] = "convert_status"
        /\ req[t].op = "create" => pc'[t] = "commit"
        /\ req[t].op \in {"convert", "create"}
    <3>1. req[t] \in Request
      BY <1>1, <2>1 DEF Logs, Keeps, RequestOK
    <3> QED BY <2>1, <3>1 DEF Logs, Request
  <2>5. \A d \in Contracts : ConLocker(d) # t
    BY <2>1, ContractLocked
  <2>6. Con(c) = NoContract
    BY <1>1, <2>1, <2>3, <2>5 DEF ContractWritten
  <2>7. Inserts(t, c)'
    BY <2>2, <2>3, <2>4, <2>6 DEF Inserts, ContractWritten
  <2>8. ContractLocks(t)'
    BY <2>3, <2>5, <2>7 DEF ContractLocks, ContractWritten
  <2>9. WriterLocks(t)' /\ UnitIsRemembered(t)'
    BY <2>3, <2>4 DEF WriterLocks, HasWritten, UnitIsRemembered, OnContract, ContractWritten
  <2> QED BY <1>6, <1>7, <2>3, <2>8, <2>9 DEF ContractsSoundFor
<1>8. ASSUME NEW t \in Tx, OthersStay(t), EditsContract(t) \/ MovesContract(t)
      PROVE  ContractsSound'
  <2> DEFINE c == req[t].contract
             row == IF EditsContract(t) THEN [NewCon(c) EXCEPT !.template = TRUE]
                    ELSE [NewCon(c) EXCEPT !.status = To[req[t].op]]
  <2>1. /\ req'[t] = req[t] /\ c \in Contracts /\ pc[t] # "idle"
        /\ pc[t] \in {"update_contract", "bill_lines", "end_contract", "complete_status",
                     "default_status"}
        /\ req[t].op \in OnContract
        /\ WritesRow(t, "sales_contracts", c, row)
    <3>1. CASE EditsContract(t)
      BY <3>1 DEF EditsContract, Logs, Keeps, OnContract
    <3>2. CASE ~EditsContract(t) /\ MovesContract(t)
      BY <3>2 DEF MovesContract, Logs, Goes, Keeps, OnContract
    <3> QED BY <1>8, <3>1, <3>2
  <2>2. ContractWritten(t, c, row)
    <3> HIDE DEF row, c
    <3> QED BY <2>1, TableViews
  <2>3. \A d \in Contracts : ConLocker(d) # t
    BY <2>1, ContractLocked
  <2>4. NewCon(c) = Con(c) /\ Con(c)' = Con(c) /\ NewCon(c)' = row /\ ConLocker(c)' = t
    <3> HIDE DEF row
    <3> QED BY <1>1, <2>1, <2>2, <2>3 DEF ContractWritten
  <2>5. (Moves(t, c) \/ Edits(t, c))'
    <3>1. CASE EditsContract(t)
      BY <2>1, <2>4, <3>1 DEF EditsContract, Logs, Edits
    <3>2. CASE ~EditsContract(t) /\ MovesContract(t)
      <4>1. /\ pc'[t] \in {"sell_unit", "free_unit", "commit"} /\ req[t].op \in Mover
            /\ Con(c).status = From(req[t])
        BY <2>4, <3>2 DEF MovesContract, Logs, Goes, Mover
      <4>2. row = [Con(c) EXCEPT !.status = To[req[t].op]]
        BY <2>4, <3>2
      <4>3. /\ Con(c)'.status = From(req[t]) /\ NewCon(c)' = [Con(c) EXCEPT !.status = To[req[t].op]]
            /\ Con(c)' = Con(c) /\ c = req'[t].contract
        BY <2>1, <2>4, <4>1, <4>2
      <4> HIDE DEF row
      <4>4. From(req'[t]) = From(req[t]) /\ To[req'[t].op] = To[req[t].op]
        BY <2>1
      <4>5. Moves(t, c)'
        BY <2>1, <4>1, <4>3, <4>4 DEF Moves
      <4> QED BY <4>5
    <3> QED BY <1>8, <3>1, <3>2
  <2>6. \A d \in Contracts : ConLocker(d)' = t => d = c
    BY <2>2, <2>3 DEF ContractWritten
  <2> HIDE DEF row
  <2>7. ContractLocks(t)'
    BY <2>1, <2>5, <2>6 DEF ContractLocks
  <2>8. WriterLocks(t)' /\ UnitIsRemembered(t)'
    BY <1>1, <2>1, <2>4 DEF WriterLocks, UnitIsRemembered, ContractsSoundFor
  <2> QED BY <1>6, <1>8, <2>1, <2>2, <2>7, <2>8 DEF ContractsSoundFor
<1>9. ASSUME NEW t \in Tx, OthersStay(t), Ends(t), ContractsEnd(t) PROVE ContractsSound'
  <2>1. pc'[t] = "idle"
    BY <1>9 DEF Ends
  <2>2. ContractsSoundFor(t)'
    BY <1>1, <1>9, <2>1 DEF ContractsSoundFor, ContractLocks, WriterLocks, HasWritten,
       UnitIsRemembered, ContractsEnd
  <2>3. ASSUME NEW x \in Tx \ {t} PROVE ContractsSoundFor(x)'
    <3>1. \A c \in Contracts : ContractKept(c)
      BY <1>9, ContractsAreKept
    <3>2. /\ pc'[x] = pc[x] /\ req'[x] = req[x]
          /\ \A c \in Contracts :
               /\ ConLocker(c)' = x <=> ConLocker(c) = x
               /\ ConLocker(c) = x => Con(c)' = Con(c) /\ NewCon(c)' = NewCon(c)
      BY <1>1, <1>9 DEF OthersStay, ContractsEnd
    <3> QED BY <3>1, <3>2, ContractsOfOthers
  <2> QED BY <2>2, <2>3 DEF ContractsSound
<1> QED BY <1>2, <1>4, <1>5, <1>7, <1>8, <1>9, ContractSteps DEF Acts

LEMMA OneActiveNext == Typed /\ ContractsSound /\ OneActive /\ [Next]_vars => OneActive'
<1> SUFFICES ASSUME Typed, ContractsSound, OneActive, [Next]_vars PROVE OneActive'
  OBVIOUS
<1>1. /\ \A t \in Tx : RequestOK(t)
      /\ \A c \in Contracts : Con(c) \in ContractRow /\ NewCon(c) \in ContractRow
  BY TypedRows
<1>2. ASSUME \A c \in Contracts :
               /\ Con(c)' \in {Con(c), NewCon(c)}
               /\ NewCon(c)' \in {Con(c), NewCon(c)} \/ NewCon(c)'.status # "active"
      PROVE  OneActive'
  BY <1>2 DEF OneActive
<1>3. ContractsStay => OneActive'
  BY <1>2 DEF ContractsStay
<1>4. ASSUME NEW t \in Tx, ContractsEnd(t) PROVE OneActive'
  BY <1>2, <1>4 DEF ContractsEnd
<1>5. ASSUME NEW t \in Tx, NEW c \in Contracts, NEW row, ContractWritten(t, c, row),
             row.status # "active"
      PROVE  OneActive'
  BY <1>2, <1>5 DEF ContractWritten
<1>6. ASSUME NEW t \in Tx, InsertsContract(t) PROVE OneActive'
  <2>1. PICK c \in Contracts : \E row : /\ row.status = "draft"
                                        /\ WritesRow(t, "sales_contracts", c, row)
    BY <1>6 DEF InsertsContract
  <2> QED BY <1>5, <2>1, TableViews
<1>7. ASSUME NEW t \in Tx, EditsContract(t) PROVE OneActive'
  <2> DEFINE row == [NewCon(req[t].contract) EXCEPT !.template = TRUE]
  <2>1. /\ req[t].contract \in Contracts /\ row.status = "draft"
        /\ WritesRow(t, "sales_contracts", req[t].contract, row)
    BY <1>1, <1>7 DEF EditsContract, ContractRow
  <2> HIDE DEF row
  <2> QED BY <1>5, <2>1, TableViews
<1>8. ASSUME NEW t \in Tx, MovesContract(t) PROVE OneActive'
  <2> DEFINE c == req[t].contract
             row == [NewCon(c) EXCEPT !.status = To[req[t].op]]
  <2>1. /\ c \in Contracts /\ pc[t] \in {"bill_lines", "end_contract", "complete_status",
                                         "default_status"}
    BY <1>8 DEF MovesContract
  <2>2. /\ row.status = To[req[t].op] /\ row.unit = NewCon(c).unit
        /\ WritesRow(t, "sales_contracts", c, row)
    BY <1>1, <1>8, <2>1 DEF MovesContract, ContractRow
  <2>3. ContractWritten(t, c, row)
    <3> HIDE DEF row, c
    <3> QED BY <2>1, <2>2, TableViews
  <2>4. CASE req[t].op # "activate"
    <3>1. row.status # "active"
      BY <1>8, <2>2, <2>4 DEF MovesContract, To
    <3> HIDE DEF row
    <3> QED BY <1>5, <2>1, <2>3, <3>1
  <2>5. CASE req[t].op = "activate"
    <3>1. \A d \in Contracts : ContractOf(t, d) = Con(d)
      <4>1. \A d \in Contracts : ConLocker(d) # t
        BY <2>1, ContractLocked
      <4> QED BY <4>1 DEF ContractOf, Sees, Con, ConLocker
    <3>2. \A d \in Contracts \ {c} : \A y \in {Con(d), NewCon(d)} :
            ~(y.status = "active" /\ y.unit = row.unit)
      BY <1>8, <2>2, <2>5, <3>1 DEF MovesContract
    <3> HIDE DEF row, c
    <3> QED BY <2>1, <2>3, <3>2 DEF OneActive, ContractWritten
  <2> QED BY <2>4, <2>5
<1> QED BY <1>3, <1>4, <1>6, <1>7, <1>8, ContractSteps

LEMMA SpecSound == Spec => []Sound
<1>1. Init => Sound
  <2> SUFFICES ASSUME Init PROVE Sound
    OBVIOUS
  <2>1. Typed /\ \A t \in Tx : pc[t] = "idle"
    BY InitFacts
  <2>2. \A c \in Contracts : Con(c) = NoContract /\ NewCon(c) = NoContract /\ ConLocker(c) = Nil
    <3>1. "sales_contracts" \in TableName /\ Rows["sales_contracts"] = Contracts
      BY DEF TableName, Rows
    <3>2. \A c \in Contracts : ConLocker(c) = Nil
      BY <3>1, InitFacts DEF ConLocker
    <3> QED BY <3>2, InitFacts
  <2>3. ContractsSound
    BY <2>1, <2>2, NilAssumption DEF ContractsSound, ContractsSoundFor, ContractLocks,
       WriterLocks, HasWritten, UnitIsRemembered
  <2>4. OneActive
    BY <2>2 DEF OneActive, NoContract
  <2> QED BY <2>1, <2>3, <2>4 DEF Sound
<1>2. Sound /\ [Next]_vars => Sound'
  BY TypedNext, ContractsNext, OneActiveNext DEF Sound
<1> QED BY <1>1, <1>2, PTL DEF Spec

-----------------------------------------------------------------------------
(***************************************************************************)
(* Contracts implement UnitHolding.                                        *)
(***************************************************************************)
Ended == {c \in Contracts : StatusOf(c) \notin {"none", "draft", "active"}}

\* c neither begins nor ends to hold a unit, and is not given up.
Unmoved(c) ==
  \/ StatusOf(c)' = StatusOf(c) /\ UnitOf(c)' = UnitOf(c)
  \/ StatusOf(c) \in {"none", "draft"} /\ StatusOf(c)' \in {"none", "draft"}

\* t commits that its contract is activated or ended.
CommitsMove(t, c) ==
  /\ c = req[t].contract /\ req[t].op \in Mover /\ ConLocker(c) = t
  /\ Ends(t) /\ Commits(t)
  /\ StatusOf(c) = From(req[t]) /\ StatusOf(c)' = To[req[t].op]
  /\ UnitOf(c)' = UnitOf(c) /\ UnitOf(c) \in Units
  /\ NewCon(c).status = StatusOf(c)' /\ NewCon(c).unit = UnitOf(c)
  /\ \A d \in Contracts \ {c} : Unmoved(d)

\* What a step does to the statuses of the contracts that are committed.
LEMMA CommittedMoves ==
  ASSUME Sound, [Next]_vars
  PROVE  \/ \A c \in Contracts : Unmoved(c)
         \/ \E t \in Tx : \E c \in Contracts : CommitsMove(t, c)
<1>1. /\ Typed /\ ContractsSound
      /\ \A c \in Contracts : /\ Con(c) \in ContractRow /\ NewCon(c) \in ContractRow
                              /\ ContractRowOK(Con(c))
  BY TypedRows DEF Sound
<1>2. ASSUME \A c \in Contracts : Con(c)' = Con(c)
      PROVE  \A c \in Contracts : Unmoved(c)
  BY <1>2 DEF Unmoved, StatusOf, UnitOf, Con
<1>3. ContractsStay => \A c \in Contracts : Unmoved(c)
  BY <1>2 DEF ContractsStay
<1>4. ASSUME NEW t \in Tx, NEW c \in Contracts, NEW row, ContractWritten(t, c, row)
      PROVE  \A d \in Contracts : Unmoved(d)
  BY <1>2, <1>4 DEF ContractWritten
<1>5. ASSUME NEW t \in Tx, InsertsContract(t) \/ EditsContract(t) \/ MovesContract(t)
      PROVE  \A d \in Contracts : Unmoved(d)
  <2>1. PICK c \in Contracts : \E row : WritesRow(t, "sales_contracts", c, row)
    BY <1>5 DEF InsertsContract, EditsContract, MovesContract
  <2> QED BY <1>4, <2>1, TableViews
<1>6. ASSUME NEW t \in Tx, Ends(t), ContractsEnd(t)
      PROVE  \/ \A c \in Contracts : Unmoved(c)
             \/ \E c \in Contracts : CommitsMove(t, c)
  <2>1. CASE \A c \in Contracts : Con(c)' = Con(c)
    BY <1>2, <2>1
  <2>2. CASE /\ Commits(t)
             /\ \A c \in Contracts : Con(c)' = IF ConLocker(c) = t THEN NewCon(c) ELSE Con(c)
    <3>1. ASSUME NEW d \in Contracts, ~(ConLocker(d) = t /\ Moves(t, d)) PROVE Unmoved(d)
      <4>1. CASE ConLocker(d) # t
        BY <2>2, <4>1 DEF Unmoved, StatusOf, UnitOf, Con
      <4>2. CASE ConLocker(d) = t /\ (Edits(t, d) \/ Inserts(t, d))
        BY <1>1, <2>2, <4>2 DEF Edits, Inserts, Unmoved, StatusOf, Con, ContractRow, NoContract
      <4> QED BY <1>1, <3>1, <4>1, <4>2, ContractLocked
    <3>2. ASSUME NEW c \in Contracts, ConLocker(c) = t, Moves(t, c) PROVE CommitsMove(t, c)
      <4>1. /\ c = req[t].contract /\ req[t].op \in Mover
            /\ Con(c).status = From(req[t]) /\ Con(c) \in ContractRow
            /\ NewCon(c) = [Con(c) EXCEPT !.status = To[req[t].op]]
            /\ Con(c)' = NewCon(c)
        BY <1>1, <2>2, <3>2 DEF Moves
      <4>2. NewCon(c).status = To[req[t].op] /\ NewCon(c).unit = Con(c).unit
        BY <4>1 DEF ContractRow
      <4>3. Con(c).unit \in Units
        <5>1. RequestOK(t) /\ pc[t] # "idle"
          BY <1>1, <2>2, TypedRows DEF Commits
        <5>2. From(req[t]) # "none"
          BY <4>1, <5>1 DEF From, RequestOK, FieldsOK
        <5> QED BY <1>1, <4>1, <5>2 DEF ContractRowOK, NoContract
      <4>4. \A d \in Contracts \ {c} : Unmoved(d)
        BY <3>1, <4>1 DEF Moves
      <4> QED BY <1>6, <2>2, <3>2, <4>1, <4>2, <4>3, <4>4
              DEF CommitsMove, StatusOf, UnitOf, Con
    <3> QED BY <3>1, <3>2
  <2> QED BY <1>6, <2>1, <2>2 DEF ContractsEnd
<1> QED BY <1>1, <1>3, <1>5, <1>6, ContractSteps

\* A unit is held by the contract that is active.
LEMMA HolderOf ==
  ASSUME OneActive, NEW u
  PROVE  \A c \in ActiveFor(u) : ActiveFor(u) = {c}
BY DEF OneActive, ActiveFor, StatusOf, UnitOf, Con

\* However conversions, activations and cancellations interleave, a unit has
\* one active contract at a time, and a contract that was completed, cancelled,
\* terminated or defaulted is never active again: the guard of
\* UpdateSalesContractStatus and the unique index decide, not what
\* ActivateSalesContract read before.
THEOREM OneContractPerUnit == Spec => HoldsUnitOnce
<1> DEFINE Only(S) == IF S = {} THEN Nil ELSE CHOOSE c \in S : TRUE
           H == [u \in Units |-> Only(ActiveFor(u))]
<1>0. Only({}) = Nil /\ \A c : Only({c}) = c
  <2>1. \A c : Only({c}) = c
    OBVIOUS
  <2> QED BY <2>1
<1> HIDE DEF Only
<1>1. ASSUME Sound
      PROVE  \A u \in Units : /\ ActiveFor(u) = {} => H[u] = Nil
                              /\ \A c \in ActiveFor(u) : H[u] = c
  BY <1>0, <1>1, HolderOf DEF Sound
<1>2. ASSUME Sound'
      PROVE  \A u \in Units : /\ ActiveFor(u)' = {} => H'[u] = Nil
                              /\ \A c \in ActiveFor(u)' : H'[u] = c
  <2>1. ASSUME NEW u \in Units, NEW c \in ActiveFor(u)' PROVE ActiveFor(u)' = {c}
    BY <1>2, <2>1 DEF Sound, OneActive, ActiveFor, StatusOf, UnitOf, Con
  <2> QED BY <1>0, <2>1
<1>3. ASSUME \A c \in Contracts : Unmoved(c)
      PROVE  H' = H /\ Ended' = Ended
  <2>1. /\ \A u \in Units : ActiveFor(u)' = ActiveFor(u)
        /\ Ended' = Ended
    BY <1>3 DEF Unmoved, ActiveFor, Ended
  <2> QED BY <2>1
<1>4. ASSUME Sound, Sound', NEW t \in Tx, NEW c \in Contracts, CommitsMove(t, c)
      PROVE  \/ \E u \in Units : Holding!Leave(u) \/ Holding!Take(u, c)
             \/ Holding!GiveUp(c)
  <2>0. PICK unit \in Units : unit = UnitOf(c)
    BY <1>4 DEF CommitsMove
  <2>1. c # Nil /\ UnitOf(c) = unit /\ UnitOf(c)' = unit
    BY <1>4, <2>0, SalesAssumption DEF CommitsMove
  <2>2. \A d \in Contracts \ {c} :
          /\ \A u \in Units : d \in ActiveFor(u)' <=> d \in ActiveFor(u)
          /\ d \in Ended' <=> d \in Ended
    BY <1>4 DEF CommitsMove, Unmoved, ActiveFor, Ended
  <2>3. \A u \in Units \ {unit} : ActiveFor(u)' = ActiveFor(u)
    BY <2>1, <2>2 DEF ActiveFor
  <2>4. CASE req[t].op = "activate"
    <3>1. /\ c \notin Ended /\ c \notin Ended' /\ c \in ActiveFor(unit)'
          /\ \A u \in Units : c \notin ActiveFor(u)
      BY <1>4, <2>1, <2>4 DEF CommitsMove, From, To, Ended, ActiveFor
    <3>2. ActiveFor(unit) = {}
      <4>1. NewCon(c).status = "active" /\ NewCon(c).unit = unit
        BY <1>4, <2>1, <2>4 DEF CommitsMove, To
      <4>2. \A d \in Contracts \ {c} : ~(Con(d).status = "active" /\ Con(d).unit = unit)
        BY <1>4, <4>1 DEF Sound, OneActive
      <4> QED BY <3>1, <2>1, <4>2 DEF ActiveFor, StatusOf, UnitOf, Con
    <3>3. H[unit] = Nil /\ H'[unit] = c
      BY <1>1, <1>2, <1>4, <2>1, <3>1, <3>2
    <3>4. H' = [H EXCEPT ![unit] = c]
      <4>1. \A u \in Units : H'[u] = IF u = unit THEN c ELSE H[u]
        BY <2>1, <2>3, <3>3
      <4> QED BY <2>1, <4>1
    <3>5. Ended' = Ended
      BY <2>2, <3>1 DEF Ended
    <3>6. \A u \in Units : H[u] # c
      BY <1>1, <1>4, <2>1, <3>1
    <3>7. Holding!Take(unit, c)
      <4>1. c \notin Ended \cup Holding!Holding
        BY <3>1, <3>6 DEF Holding!Holding
      <4> QED BY <3>3, <3>4, <3>5, <4>1 DEF Holding!Take, Only, Ended
    <3> QED BY <2>1, <3>7
  <2>5. CASE req[t].op # "activate" /\ StatusOf(c) = "active"
    <3>1. /\ c \in ActiveFor(unit) /\ c \notin ActiveFor(unit)' /\ c \in Ended'
      BY <1>4, <2>1, <2>5 DEF CommitsMove, To, Mover, Ended, ActiveFor
    <3>2. ActiveFor(unit) = {c}
      BY <1>4, <3>1, HolderOf DEF Sound
    <3>3. ActiveFor(unit)' = {}
      BY <2>1, <2>2, <3>1, <3>2 DEF ActiveFor
    <3>4. H[unit] = c /\ H'[unit] = Nil
      BY <1>1, <1>2, <1>4, <2>1, <3>1, <3>3
    <3>5. H' = [H EXCEPT ![unit] = Nil]
      <4>1. \A u \in Units : H'[u] = IF u = unit THEN Nil ELSE H[u]
        BY <2>1, <2>3, <3>4
      <4> QED BY <2>1, <4>1
    <3>6. Ended' = Ended \cup {c}
      BY <2>2, <3>1 DEF Ended
    <3>7. Holding!Leave(unit)
      BY <2>1, <3>4, <3>5, <3>6 DEF Holding!Leave, Only, Ended
    <3> QED BY <2>1, <3>7
  <2>6. CASE req[t].op # "activate" /\ StatusOf(c) = "draft"
    <3>1. /\ c \notin Ended /\ c \in Ended'
          /\ \A u \in Units : c \notin ActiveFor(u) /\ c \notin ActiveFor(u)'
      BY <1>4, <2>6 DEF CommitsMove, To, Mover, Ended, ActiveFor
    <3>2. \A u \in Units : ActiveFor(u)' = ActiveFor(u)
      BY <2>2, <3>1 DEF ActiveFor
    <3>3. H' = H
      BY <3>2
    <3>4. \A u \in Units : H[u] # c
      BY <1>1, <1>4, <2>1, <3>1
    <3>5. Ended' = Ended \cup {c}
      BY <2>2, <3>1 DEF Ended
    <3>6. c \notin Ended \cup Holding!Holding
      BY <3>1, <3>4 DEF Holding!Holding
    <3>7. Holding!GiveUp(c)
      BY <3>3, <3>5, <3>6 DEF Holding!GiveUp, Only, Ended
    <3> QED BY <3>7
  <2>7. StatusOf(c) \in {"active", "draft"}
    <3>1. RequestOK(t) /\ pc[t] # "idle"
      BY <1>4, TypedRows DEF Sound, CommitsMove, Ends
    <3> QED BY <1>4, <3>1 DEF CommitsMove, From, RequestOK, FieldsOK
  <2> QED BY <2>4, <2>5, <2>6, <2>7
<1>5. Init => Holding!Init
  <2> SUFFICES ASSUME Init PROVE Holding!Init
    OBVIOUS
  <2>1. \A c \in Contracts : StatusOf(c) = "none"
    BY InitFacts DEF StatusOf, Con, NoContract
  <2>2. Ended = {} /\ \A u \in Units : ActiveFor(u) = {}
    BY <2>1 DEF Ended, ActiveFor
  <2> QED BY <2>2 DEF Holding!Init, Ended
<1>6. Sound /\ Sound' /\ [Next]_vars => [Holding!Next]_<<H, Ended>>
  BY <1>3, <1>4, CommittedMoves DEF Holding!Next
<1> QED BY <1>5, <1>6, SpecSound, PTL DEF Spec, HoldsUnitOnce, Holding!Spec, Only, Ended

-----------------------------------------------------------------------------
(***************************************************************************)
(* The locks on reservations.                                              *)
(***************************************************************************)
\* A request that acts keeps what it remembers.
LEMMA ActsControl ==
  ASSUME Typed, NEW t \in Tx, Acts(t)
  PROVE  /\ pc[t] \notin {"idle", "commit"} /\ pc'[t] # "idle"
         /\ OthersStay(t) /\ UNCHANGED <<audit, byHand>>
         /\ RequestOK(t) /\ req[t] \in Request
         /\ \A f \in {"op", "unit", "line", "type", "from", "to"} : req'[t][f] = req[t][f]
         /\ req[t].op # "reserve" => req'[t].reservation = req[t].reservation
         /\ req[t].op # "convert" => req'[t].contract = req[t].contract
         /\ InsertsContract(t) \/ req'[t].contract = req[t].contract
         /\ InsertsReservation(t) \/ req'[t].reservation = req[t].reservation
<1>1. /\ pc[t] \notin {"idle", "commit"} /\ pc'[t] # "idle" /\ Keeps(t)
      /\ \/ req'[t] = req[t]
         \/ /\ req[t].op = "reserve" /\ InsertsReservation(t)
            /\ \E r : req'[t] = [req[t] EXCEPT !.reservation = r]
         \/ /\ req[t].op = "convert" /\ InsertsContract(t)
            /\ \E c : req'[t] = [req[t] EXCEPT !.contract = c]
  <2>1. CASE InsertsReservation(t) \/ InsertsContract(t)
    BY <2>1 DEF InsertsReservation, InsertsContract, Logs, Keeps
  <2>2. CASE ChangesUnit(t) \/ MovesReservation(t) \/ LooksForHolder(t) \/ EditsContract(t)
             \/ MovesContract(t) \/ AsksApproval(t) \/ UpdatesLine(t)
    BY <2>2 DEF ChangesUnit, MovesReservation, LooksForHolder, EditsContract, MovesContract,
       AsksApproval, UpdatesLine, Logs, Goes, Keeps, UnitStatusAt
  <2>3. CASE ListsLines(t) \/ PlansLines(t) \/ BillsLine(t)
    BY <2>3 DEF ListsLines, PlansLines, BillsLine, Logs, Keeps
  <2> QED BY <2>1, <2>2, <2>3 DEF Acts
<1>2. RequestOK(t) /\ req[t] \in Request /\ OthersStay(t) /\ UNCHANGED <<audit, byHand>>
  BY <1>1 DEF Keeps, RequestOK
<1>3. /\ req'[t].op = req[t].op /\ req'[t].unit = req[t].unit /\ req'[t].line = req[t].line
      /\ req'[t].type = req[t].type /\ req'[t].from = req[t].from /\ req'[t].to = req[t].to
      /\ req[t].op # "reserve" => req'[t].reservation = req[t].reservation
      /\ req[t].op # "convert" => req'[t].contract = req[t].contract
      /\ InsertsContract(t) \/ req'[t].contract = req[t].contract
      /\ InsertsReservation(t) \/ req'[t].reservation = req[t].reservation
  BY <1>1, <1>2 DEF Request
<1> QED BY <1>1, <1>2, <1>3

\* What a step does to the reservations.
LEMMA ReservationSteps ==
  ASSUME Typed, [Next]_vars
  PROVE  \/ SettlesOther /\ ReservationsStay
         \/ \E t \in Tx :
              \/ Begun(t) /\ (ReservationsStay \/ ExpiresLate(t))
              \/ Acts(t) /\ ReservationsStay /\ ~MovesReservation(t)
              \/ Acts(t) /\ (InsertsReservation(t) \/ MovesReservation(t))
              \/ Ends(t) /\ ReservationsEnd(t) /\ ContractsEnd(t) /\ OthersStay(t)
<1>1. CASE SettlesOther
  BY <1>1, Untouched, TableViews DEF TableName
<1>2. ASSUME NEW t \in Tx, Begun(t) PROVE ReservationsStay \/ ExpiresLate(t)
  BY <1>2, Untouched, TableViews DEF Begun, TableName
<1>3. ASSUME NEW t \in Tx, Acts(t)
      PROVE  InsertsReservation(t) \/ MovesReservation(t) \/ ReservationsStay
  BY <1>3, Untouched, TableViews
<1>4. ASSUME NEW t \in Tx, Ends(t) PROVE ReservationsEnd(t) /\ ContractsEnd(t) /\ OthersStay(t)
  BY <1>4, EndViews DEF Ends
<1> QED BY <1>1, <1>2, <1>3, <1>4, StepCases

\* What is said of a transaction stays so as long as it does nothing.
LEMMA ReservationsOfOthers ==
  ASSUME Typed, NEW x \in Tx, ReservationLocks(x), Converts(x),
         pc'[x] = pc[x], req'[x] = req[x],
         \A r \in Reservations :
           /\ ResLocker(r)' = x <=> ResLocker(r) = x
           /\ ResLocker(r) = x => Res(r)' = Res(r) /\ NewRes(r)' = NewRes(r)
  PROVE  ReservationLocks(x)' /\ Converts(x)'
<1>1. ReservationLocks(x)'
  BY DEF ReservationLocks
<1>2. pc[x] = "commit" /\ req[x].op = "convert" => req[x].reservation \in Reservations
  BY TypedRows DEF RequestOK, FieldsOK
<1> QED BY <1>1, <1>2 DEF Converts

\* One transaction at a time locks a reservation, and it is one that is or
\* becomes active.
LEMMA LocksNext ==
  ASSUME Typed, \A t \in Tx : ReservationLocks(t) /\ Converts(t), [Next]_vars
  PROVE  \A t \in Tx : ReservationLocks(t)' /\ Converts(t)'
<1>1. /\ \A t \in Tx : RequestOK(t)
      /\ Nil \notin Tx
      /\ \A r \in Reservations :
           /\ Res(r) \in ReservationRow /\ NewRes(r) \in ReservationRow
           /\ ResLocker(r) = Nil => NewRes(r) = Res(r)
  BY TypedRows, NilAssumption
<1>2. CASE SettlesOther /\ ReservationsStay
  <2>1. \A x \in Tx : pc'[x] = pc[x] /\ req'[x] = req[x]
    BY <1>2 DEF SettlesOther
  <2> QED BY <1>2, <2>1, ReservationsOfOthers DEF ReservationsStay
<1>3. ASSUME NEW t \in Tx, OthersStay(t), ReservationLocks(t)', Converts(t)',
             \A r \in Reservations :
               \/ /\ Res(r)' = Res(r) /\ NewRes(r)' = NewRes(r)
                  /\ ResLocker(r)' = ResLocker(r)
               \/ ResLocker(r) \in {Nil, t} /\ ResLocker(r)' \in {Nil, t}
      PROVE  \A x \in Tx : ReservationLocks(x)' /\ Converts(x)'
  <2>1. ASSUME NEW x \in Tx \ {t} PROVE ReservationLocks(x)' /\ Converts(x)'
    <3>1. /\ pc'[x] = pc[x] /\ req'[x] = req[x]
          /\ \A r \in Reservations :
               /\ ResLocker(r)' = x <=> ResLocker(r) = x
               /\ ResLocker(r) = x => Res(r)' = Res(r) /\ NewRes(r)' = NewRes(r)
      BY <1>1, <1>3 DEF OthersStay
    <3> QED BY <3>1, ReservationsOfOthers
  <2> QED BY <1>3, <2>1
<1>4. ASSUME NEW t \in Tx, Begun(t), ReservationsStay \/ ExpiresLate(t)
      PROVE  \A x \in Tx : ReservationLocks(x)' /\ Converts(x)'
  <2>1. /\ pc[t] = "idle" /\ OthersStay(t) /\ pc'[t] \notin {"idle", "commit"}
    BY <1>4 DEF Begun, FirstStatement
  <2>2. \A r \in Reservations : ResLocker(r) # t
    BY <2>1 DEF Converts
  <2>3. \A r \in Reservations :
          \/ /\ Res(r)' = Res(r) /\ NewRes(r)' = NewRes(r)
             /\ ResLocker(r)' = ResLocker(r)
          \/ /\ NewRes(r).status = "active" /\ NewRes(r)' = [NewRes(r) EXCEPT !.status = "expired"]
             /\ Res(r)' = Res(r) /\ ResLocker(r) \in {Nil, t} /\ ResLocker(r)' = t
    BY <1>4 DEF ReservationsStay, ExpiresLate, RowStays, RowWritten, Res, NewRes, ResLocker
  <2>4. ReservationLocks(t)'
    <3>1. ASSUME NEW r \in Reservations, ResLocker(r)' = t
          PROVE  Res(r)'.status = "active" /\ NewRes(r)'.status = "expired"
      BY <1>1, <2>2, <2>3, <3>1 DEF ReservationRow
    <3> QED BY <3>1 DEF ReservationLocks
  <2>5. Converts(t)'
    BY <2>1 DEF Converts
  <2>6. \A r \in Reservations :
          \/ /\ Res(r)' = Res(r) /\ NewRes(r)' = NewRes(r)
             /\ ResLocker(r)' = ResLocker(r)
          \/ ResLocker(r) \in {Nil, t} /\ ResLocker(r)' \in {Nil, t}
    BY <2>3
  <2> QED BY <1>3, <2>1, <2>4, <2>5, <2>6
<1>5. ASSUME NEW t \in Tx, Acts(t), ReservationsStay, ~MovesReservation(t)
      PROVE  \A x \in Tx : ReservationLocks(x)' /\ Converts(x)'
  <2>1. /\ pc[t] \notin {"idle", "commit"} /\ pc'[t] # "idle" /\ OthersStay(t)
        /\ req'[t].op = req[t].op /\ pc[t] \in StatementsOf(req[t].op)
        /\ req[t].op # "reserve" => req'[t].reservation = req[t].reservation
    <3>1. \A f \in {"op"} : req'[t][f] = req[t][f]
      BY <1>5, ActsControl
    <3> QED BY <1>5, <3>1, ActsControl DEF RequestOK
  <2>2. /\ pc[t] = "reserve_unit" => pc'[t] = "commit"
        /\ pc[t] = "look_for_holder" => pc'[t] \in {"release_unit", "commit"}
        /\ pc[t] = "release_unit" => pc'[t] = "commit"
        /\ pc'[t] = "commit" => req[t].op # "convert"
    <3>1. CASE InsertsReservation(t) \/ ChangesUnit(t) \/ LooksForHolder(t)
               \/ InsertsContract(t) \/ EditsContract(t) \/ MovesContract(t)
      BY <2>1, <3>1 DEF InsertsReservation, ChangesUnit, LooksForHolder, InsertsContract,
         EditsContract, MovesContract, Logs, Goes, UnitStatusAt, StatementsOf
    <3>2. CASE ListsLines(t) \/ PlansLines(t) \/ BillsLine(t) \/ AsksApproval(t) \/ UpdatesLine(t)
      BY <2>1, <3>2 DEF ListsLines, PlansLines, BillsLine, AsksApproval, UpdatesLine, Logs, StatementsOf
    <3> QED BY <1>5, <3>1, <3>2 DEF Acts
  <2>3. ReservationLocks(t)'
    <3>1. ASSUME NEW r \in Reservations, ResLocker(r)' = t
          PROVE  /\ ResLocker(r) = t /\ Res(r)' = Res(r) /\ NewRes(r)' = NewRes(r)
      BY <1>5, <3>1 DEF ReservationsStay
    <3> QED BY <2>1, <2>2, <3>1 DEF ReservationLocks
  <2>4. Converts(t)'
    BY <2>1, <2>2 DEF Converts
  <2> QED BY <1>3, <1>5, <2>1, <2>3, <2>4 DEF ReservationsStay
<1>6. ASSUME NEW t \in Tx, NEW r \in Reservations, NEW row, ReservationWritten(t, r, row),
             OthersStay(t), ReservationLocks(t)', Converts(t)'
      PROVE  \A x \in Tx : ReservationLocks(x)' /\ Converts(x)'
  <2>1. \A q \in Reservations :
          \/ /\ Res(q)' = Res(q) /\ NewRes(q)' = NewRes(q)
             /\ ResLocker(q)' = ResLocker(q)
          \/ ResLocker(q) \in {Nil, t} /\ ResLocker(q)' \in {Nil, t}
    BY <1>6 DEF ReservationWritten
  <2> QED BY <1>3, <1>6, <2>1
<1>7. ASSUME NEW t \in Tx, Acts(t), InsertsReservation(t)
      PROVE  \A x \in Tx : ReservationLocks(x)' /\ Converts(x)'
  <2>1. PICK r \in Reservations :
          /\ NewRes(r) = NoReservation
          /\ WritesRow(t, "reservations", r, [status |-> "active", unit |-> req[t].unit])
    BY <1>7 DEF InsertsReservation
  <2>2. /\ pc[t] = "insert_reservation" /\ pc'[t] = "reserve_unit"
        /\ req[t].op = "reserve" /\ req'[t].op = "reserve" /\ OthersStay(t)
    <3>1. \A f \in {"op"} : req'[t][f] = req[t][f]
      BY <1>7, ActsControl
    <3> QED BY <1>7, <3>1, ActsControl DEF InsertsReservation
  <2> DEFINE row == [status |-> "active", unit |-> req[t].unit]
  <2>3. row.status = "active"
    OBVIOUS
  <2>4. ReservationWritten(t, r, row)
    <3> HIDE DEF row
    <3>1. WritesRow(t, "reservations", r, row)
      BY <2>1 DEF row
    <3> QED BY <3>1, TableViews
  <2> HIDE DEF row
  <2>5. Res(r) = NoReservation
    <3>1. ResLocker(r) # t
      BY <2>1 DEF ReservationLocks, NoReservation
    <3> QED BY <1>1, <2>1, <2>4, <3>1 DEF ReservationWritten
  <2>6. ReservationLocks(t)'
    <3>1. ASSUME NEW q \in Reservations \ {r}, ResLocker(q)' = t
          PROVE  /\ Res(q)'.status = "active" /\ NewRes(q)'.status = "expired"
      BY <2>2, <2>4, <3>1 DEF ReservationLocks, ReservationWritten
    <3>2. Res(r)' = NoReservation /\ NewRes(r)'.status = "active"
      BY <2>3, <2>4, <2>5 DEF ReservationWritten
    <3> QED BY <2>2, <3>1, <3>2 DEF ReservationLocks
  <2>7. Converts(t)'
    BY <2>2 DEF Converts
  <2> QED BY <1>6, <2>2, <2>4, <2>6, <2>7
<1>8. ASSUME NEW t \in Tx, Acts(t), MovesReservation(t)
      PROVE  \A x \in Tx : ReservationLocks(x)' /\ Converts(x)'
  <2> DEFINE r   == req[t].reservation
             to  == IF pc[t] = "convert_status" THEN "converted" ELSE "cancelled"
             row == [NewRes(r) EXCEPT !.status = to]
  <2>1. /\ r \in Reservations /\ NewRes(r).status = "active" /\ OthersStay(t)
        /\ req'[t] = req[t]
        /\ \/ pc[t] = "convert_status" /\ req[t].op = "convert" /\ pc'[t] = "commit"
           \/ /\ pc[t] = "cancel_reservation" /\ req[t].op = "cancel_reservation"
              /\ pc'[t] = "look_for_holder"
        /\ WritesRow(t, "reservations", r, row)
    BY <1>8, ActsControl DEF MovesReservation, Logs, Goes
  <2>2. row.status = to
    BY <1>1, <2>1 DEF ReservationRow
  <2>3. ReservationWritten(t, r, row)
    <3> HIDE DEF row, r
    <3> QED BY <2>1, TableViews
  <2>4. ResLocker(r) # t
    BY <2>1 DEF ReservationLocks
  <2>5. /\ Res(r)' = Res(r) /\ Res(r).status = "active" /\ NewRes(r)' = row
        /\ ResLocker(r)' = t
    <3> HIDE DEF row
    <3> QED BY <1>1, <2>1, <2>3, <2>4 DEF ReservationWritten
  <2>6. ReservationLocks(t)'
    <3>1. ASSUME NEW q \in Reservations \ {r}, ResLocker(q)' = t
          PROVE  /\ Res(q)'.status = "active" /\ NewRes(q)'.status = "expired"
      <4> HIDE DEF row
      <4> QED BY <2>1, <2>3, <3>1 DEF ReservationLocks, ReservationWritten
    <3>2. /\ Res(r)'.status = "active" /\ NewRes(r)'.status = to
          /\ r = req'[t].reservation
      BY <2>1, <2>2, <2>5
    <3>3. \/ to = "converted" /\ req'[t].op = "convert" /\ pc'[t] = "commit"
          \/ to = "cancelled" /\ req'[t].op = "cancel_reservation" /\ pc'[t] = "look_for_holder"
      BY <2>1
    <3> HIDE DEF row, to
    <3>4. ASSUME NEW q \in Reservations, ResLocker(q)' = t
          PROVE  \/ Res(q)'.status = "active" /\ NewRes(q)'.status = "expired"
                 \/ /\ q = req'[t].reservation /\ Res(q)'.status = "active"
                    /\ NewRes(q)'.status = to
      BY <2>1, <3>1, <3>2, <3>4
    <3> QED BY <3>3, <3>4 DEF ReservationLocks
  <2>7. Converts(t)'
    BY <2>1, <2>2, <2>5 DEF Converts
  <2> HIDE DEF row
  <2> QED BY <1>6, <2>1, <2>3, <2>6, <2>7
<1>9. ASSUME NEW t \in Tx, Ends(t), ReservationsEnd(t), OthersStay(t)
      PROVE  \A x \in Tx : ReservationLocks(x)' /\ Converts(x)'
  <2>1. pc'[t] = "idle" /\ \A r \in Reservations : ResLocker(r)' # t
    BY <1>1, <1>9 DEF Ends, ReservationsEnd
  <2>2. ReservationLocks(t)' /\ Converts(t)'
    BY <2>1 DEF ReservationLocks, Converts
  <2> QED BY <1>3, <1>9, <2>2 DEF ReservationsEnd
<1> QED BY <1>2, <1>4, <1>5, <1>7, <1>8, <1>9, ReservationSteps

\* The unique index, and who has locked what it waits for.
LEMMA OneReservationNext ==
  ASSUME Typed, \A t \in Tx : ReservationLocks(t) /\ Converts(t), OneReservation, [Next]_vars
  PROVE  OneReservation'
<1>1. /\ Nil \notin Tx
      /\ \A r \in Reservations :
           /\ Res(r) \in ReservationRow /\ NewRes(r) \in ReservationRow
           /\ ResLocker(r) = Nil => NewRes(r) = Res(r)
      /\ \A row, u : Holds(row, u) => row.status = "active" /\ row.unit = u
  BY TypedRows, NilAssumption DEF Holds
<1>2. \A q, r \in Reservations, u \in Units : q # r =>
        /\ ~(Holds(Res(q), u) /\ Holds(Res(r), u))
        /\ ~(Holds(NewRes(q), u) /\ Holds(NewRes(r), u))
        /\ Holds(Res(q), u) /\ Holds(NewRes(r), u) => ResLocker(q) = ResLocker(r)
  BY DEF OneReservation
<1>3. ReservationsStay => OneReservation'
  BY <1>2 DEF ReservationsStay, OneReservation
<1>4. ASSUME NEW t \in Tx,
             \A r \in Reservations :
               /\ Res(r)' = Res(r)
               /\ \/ NewRes(r)' = NewRes(r) /\ ResLocker(r)' = ResLocker(r)
                  \/ /\ NewRes(r)'.status # "active" /\ NewRes(r).status = "active"
                     /\ ResLocker(r) = Nil
      PROVE  OneReservation'
  <2>1. ASSUME NEW r \in Reservations, NEW u \in Units, Holds(NewRes(r), u)'
        PROVE  /\ NewRes(r)' = NewRes(r) /\ ResLocker(r)' = ResLocker(r)
               /\ Holds(NewRes(r), u)
    BY <1>1, <1>4, <2>1 DEF Holds
  <2>2. \A r \in Reservations, u \in Units : Holds(Res(r), u)' <=> Holds(Res(r), u)
    BY <1>4 DEF Holds
  <2>3. ASSUME NEW q \in Reservations, NEW r \in Reservations, NEW u \in Units, q # r,
               Holds(Res(q), u), Holds(NewRes(r), u)
        PROVE  ResLocker(q)' = ResLocker(q)
    <3>1. ~Holds(NewRes(q), u)
      BY <1>2, <2>3
    <3> QED BY <1>1, <1>4, <2>3, <3>1
  <2> QED BY <1>2, <2>1, <2>2, <2>3 DEF OneReservation
<1>5. ASSUME NEW t \in Tx, NEW r \in Reservations, NewRes(r).status = "active",
             pc[t] \notin {"reserve_unit", "look_for_holder", "release_unit", "commit"}
      PROVE  ResLocker(r) # t
  BY <1>5 DEF ReservationLocks
<1>6. ASSUME NEW t \in Tx, Begun(t), ExpiresLate(t) PROVE OneReservation'
  <2>1. ASSUME NEW r \in Reservations
        PROVE  /\ Res(r)' = Res(r)
               /\ \/ NewRes(r)' = NewRes(r) /\ ResLocker(r)' = ResLocker(r)
                  \/ /\ NewRes(r)'.status # "active" /\ NewRes(r).status = "active"
                     /\ ResLocker(r) \in {Nil, t}
    BY <1>1, <1>6 DEF ExpiresLate, RowStays, RowWritten, Res, NewRes, ResLocker, ReservationRow
  <2>2. pc[t] = "idle"
    BY <1>6 DEF Begun
  <2> QED BY <1>4, <1>5, <2>1, <2>2
<1>7. ASSUME NEW t \in Tx, MovesReservation(t) PROVE OneReservation'
  <2> DEFINE r   == req[t].reservation
             to  == IF pc[t] = "convert_status" THEN "converted" ELSE "cancelled"
             row == [NewRes(r) EXCEPT !.status = to]
  <2>1. /\ r \in Reservations /\ NewRes(r).status = "active"
        /\ pc[t] \in {"convert_status", "cancel_reservation"}
        /\ WritesRow(t, "reservations", r, row)
    BY <1>7 DEF MovesReservation
  <2>2. row.status # "active"
    BY <1>1, <2>1 DEF ReservationRow
  <2>3. ResLocker(r) # t
    BY <1>5, <2>1
  <2> HIDE DEF row, r
  <2>4. ReservationWritten(t, r, row)
    BY <2>1, TableViews
  <2>5. \A q \in Reservations :
          /\ Res(q)' = Res(q)
          /\ \/ NewRes(q)' = NewRes(q) /\ ResLocker(q)' = ResLocker(q)
             \/ /\ NewRes(q)'.status # "active" /\ NewRes(q).status = "active"
                /\ ResLocker(q) = Nil
    BY <2>1, <2>2, <2>3, <2>4 DEF ReservationWritten
  <2> QED BY <1>4, <2>5
<1>8. ASSUME NEW t \in Tx, InsertsReservation(t) PROVE OneReservation'
  <2> DEFINE v   == req[t].unit
             row == [status |-> "active", unit |-> v]
  <2>1. PICK r \in Reservations :
          /\ NewRes(r) = NoReservation
          /\ \A q \in Reservations \ {r} : ~Holds(ReservationOf(t, q), v) /\ ~Holds(NewRes(q), v)
          /\ WritesRow(t, "reservations", r, row)
    BY <1>8 DEF InsertsReservation
  <2>2. row.unit = v
    OBVIOUS
  <2> HIDE DEF row
  <2>3. ReservationWritten(t, r, row)
    BY <2>1, TableViews
  <2>4. Res(r) = NoReservation /\ NewRes(r).status = "none"
    <3>1. ResLocker(r) # t
      BY <2>1 DEF ReservationLocks, NoReservation
    <3> QED BY <1>1, <2>1, <2>3, <3>1 DEF ReservationWritten, NoReservation
  <2>5. \A q \in Reservations \ {r} : Holds(Res(q), v) => ResLocker(q) = t
    BY <2>1 DEF ReservationOf, Sees, Res, ResLocker
  <2>6. \A q \in Reservations \ {r} : NewRes(q)' = NewRes(q) /\ ResLocker(q)' = ResLocker(q)
    BY <2>3 DEF ReservationWritten
  <2>7. /\ \A q \in Reservations : Res(q)' = Res(q)
        /\ ResLocker(r)' = t /\ NewRes(r)' = row
    BY <2>3 DEF ReservationWritten
  <2>8. \A u \in Units : ~Holds(Res(r), u) /\ (Holds(row, u) => u = v)
    BY <1>1, <2>2, <2>4 DEF NoReservation
  <2> HIDE DEF v
  <2>9. \A q \in Reservations, u \in Units :
          /\ Holds(Res(q), u)' <=> Holds(Res(q), u)
          /\ q # r => (Holds(NewRes(q), u)' <=> Holds(NewRes(q), u))
          /\ Holds(NewRes(r), u)' => u = v
    BY <2>6, <2>7, <2>8 DEF Holds
  <2> QED BY <1>2, <2>1, <2>5, <2>6, <2>7, <2>8, <2>9 DEF OneReservation
<1>9. ASSUME NEW t \in Tx, ReservationsEnd(t) PROVE OneReservation'
  <2>0. \A q \in Reservations :
          ResLocker(q)' = IF ResLocker(q) = t THEN Nil ELSE ResLocker(q)
    BY <1>9 DEF ReservationsEnd
  <2>1. CASE \A r \in Reservations :
               /\ NewRes(r)' = NewRes(r)
               /\ Res(r)' = IF ResLocker(r) = t THEN NewRes(r) ELSE Res(r)
    <3>1. \A r \in Reservations, u \in Units :
            /\ Holds(NewRes(r), u)' <=> Holds(NewRes(r), u)
            /\ ResLocker(r) = t => (Holds(Res(r), u)' <=> Holds(NewRes(r), u))
            /\ ResLocker(r) # t => (Holds(Res(r), u)' <=> Holds(Res(r), u))
      BY <2>1 DEF Holds
    <3> QED BY <1>2, <2>0, <3>1 DEF OneReservation
  <2>2. CASE \A r \in Reservations :
               /\ Res(r)' = Res(r)
               /\ NewRes(r)' = IF ResLocker(r) = t THEN Res(r) ELSE NewRes(r)
    <3>1. \A r \in Reservations, u \in Units :
            /\ Holds(Res(r), u)' <=> Holds(Res(r), u)
            /\ ResLocker(r) = t => (Holds(NewRes(r), u)' <=> Holds(Res(r), u))
            /\ ResLocker(r) # t => (Holds(NewRes(r), u)' <=> Holds(NewRes(r), u))
      BY <2>2 DEF Holds
    <3> QED BY <1>2, <2>0, <3>1 DEF OneReservation
  <2> QED BY <1>9, <2>1, <2>2 DEF ReservationsEnd
<1> QED BY <1>3, <1>6, <1>7, <1>8, <1>9, ReservationSteps

\* The statement before the commit writes the entry, the others do not.
LEMMA WhoLogs ==
  ASSUME NEW t \in Tx, Acts(t)
  PROVE  IF pc'[t] = "commit" THEN Logs(t) ELSE entry'[t] = entry[t]
<1>1. CASE InsertsReservation(t) \/ MovesReservation(t) \/ LooksForHolder(t)
  BY <1>1 DEF InsertsReservation, MovesReservation, LooksForHolder, Goes, Logs
<1>2. CASE InsertsContract(t) \/ EditsContract(t) \/ MovesContract(t)
  BY <1>2 DEF InsertsContract, EditsContract, MovesContract, Goes, Logs
<1>3. CASE ListsLines(t) \/ PlansLines(t) \/ BillsLine(t) \/ UpdatesLine(t)
  BY <1>3 DEF ListsLines, PlansLines, BillsLine, UpdatesLine, Logs
<1>4. CASE ChangesUnit(t) \/ AsksApproval(t)
  BY <1>4 DEF ChangesUnit, AsksApproval, Logs
<1> QED BY <1>1, <1>2, <1>3, <1>4 DEF Acts

\* An entry of a conversion is inserted by the statement that converts.
LEMMA ConversionsNext ==
  ASSUME Typed, \A t \in Tx : LogsConversion(t), [Next]_vars
  PROVE  \A t \in Tx : LogsConversion(t)'
<1>1. ASSUME NEW x \in Tx, pc'[x] = pc[x], req'[x] = req[x], entry'[x] = entry[x]
      PROVE  LogsConversion(x)'
  BY <1>1 DEF LogsConversion, Conversion
<1>2. CASE SettlesOther
  BY <1>1, <1>2 DEF SettlesOther
<1>3. ASSUME NEW t \in Tx, Begun(t) PROVE LogsConversion(t)'
  BY <1>3 DEF Begun, FirstStatement, LogsConversion
<1>4. ASSUME NEW t \in Tx, Ends(t) PROVE LogsConversion(t)'
  BY <1>4 DEF Ends, LogsConversion
<1>5. ASSUME NEW t \in Tx, Acts(t) PROVE LogsConversion(t)'
  <2>1. /\ pc[t] \notin {"idle", "commit"} /\ pc[t] \in StatementsOf(req[t].op)
        /\ entry[t] = {}
    BY <1>5, ActsControl DEF LogsConversion, RequestOK
  <2>2. CASE pc'[t] # "commit"
    BY <1>5, <2>1, <2>2, WhoLogs DEF LogsConversion
  <2>3. CASE pc'[t] = "commit"
    <3>1. PICK e, id : entry'[t] = {<<e, id>>} /\ EntryAt(t, e, id)
      BY <1>5, <2>3, WhoLogs DEF Logs
    <3>2. req'[t] = req[t]
      BY <1>5, <2>3, WhoLogs DEF Logs
    <3>3. pc[t] # "convert_insert"
      <4>1. CASE InsertsReservation(t) \/ ChangesUnit(t) \/ MovesReservation(t)
                 \/ LooksForHolder(t) \/ InsertsContract(t) \/ EditsContract(t)
        BY <2>3, <4>1 DEF InsertsReservation, ChangesUnit, UnitStatusAt, MovesReservation,
           LooksForHolder, InsertsContract, EditsContract
      <4>2. CASE MovesContract(t) \/ ListsLines(t) \/ PlansLines(t) \/ BillsLine(t)
                 \/ AsksApproval(t) \/ UpdatesLine(t)
        BY <4>2 DEF MovesContract, ListsLines, PlansLines, BillsLine, AsksApproval, UpdatesLine
      <4> QED BY <1>5, <4>1, <4>2 DEF Acts
    <3>4. pc[t] = "convert_status" <=> req[t].op = "convert"
      BY <2>1, <3>3 DEF StatementsOf
    <3>5. CASE req[t].op = "convert"
      <4>1. e = "convert_reservation" /\ id = req[t].contract
        BY <3>1, <3>4, <3>5 DEF EntryAt, Ending
      <4> QED BY <2>3, <3>1, <3>2, <3>5, <4>1 DEF LogsConversion, Conversion
    <3>6. CASE req[t].op # "convert"
      <4>1. e # "convert_reservation"
        <5>1. CASE pc[t] \in Ending
          <6>1. req[t].op \in Mover
            BY <2>1, <5>1 DEF StatementsOf, Ending, Mover
          <6>2. EventOf[To[req[t].op]] # "convert_reservation"
            BY <6>1 DEF Mover, To, EventOf
          <6> QED BY <3>1, <5>1, <6>2 DEF EntryAt
        <5>2. CASE pc[t] \notin Ending
          BY <3>1, <3>4, <3>6, <5>2 DEF EntryAt
        <5> QED BY <5>1, <5>2
      <4> QED BY <2>3, <3>1, <3>2, <3>6, <4>1 DEF LogsConversion, Conversion
    <3> QED BY <3>5, <3>6
  <2> QED BY <2>2, <2>3
<1>6. ASSUME NEW t \in Tx, Begun(t) \/ Acts(t) \/ Ends(t)
      PROVE  \A x \in Tx : LogsConversion(x)'
  <2>1. OthersStay(t)
    BY <1>6, ActsControl DEF Begun, Ends
  <2> QED BY <1>1, <1>3, <1>4, <1>5, <1>6, <2>1 DEF OthersStay
<1> QED BY <1>2, <1>6, StepCases

\* A conversion commits both its contract and its reservation.
LEMMA SourcesNext ==
  ASSUME Typed, ContractsSound, SourceConverted, [Next]_vars,
         \A t \in Tx : ReservationLocks(t) /\ Converts(t) /\ LogsConversion(t)
  PROVE  SourceConverted'
<1>1. /\ Nil \notin Reservations /\ \A t \in Tx : RequestOK(t)
      /\ \A c \in Contracts : Con(c) \in ContractRow /\ NewCon(c) \in ContractRow
  BY TypedRows, SalesAssumption
<1>2. ASSUME \A c \in Contracts : Con(c)' = Con(c), \A r \in Reservations : Res(r)' = Res(r),
             audit' = audit
      PROVE  SourceConverted'
  BY <1>2 DEF SourceConverted, ConvertedFrom, Conversion
<1>3. ASSUME NEW t \in Tx, NEW c \in Contracts, NEW row, ContractWritten(t, c, row)
      PROVE  \A d \in Contracts : Con(d)' = Con(d)
  BY <1>3 DEF ContractWritten
<1>4. ASSUME NEW t \in Tx, NEW r \in Reservations, NEW row, ReservationWritten(t, r, row)
      PROVE  \A q \in Reservations : Res(q)' = Res(q)
  BY <1>4 DEF ReservationWritten
<1>5. ASSUME NEW t \in Tx, Acts(t)
      PROVE  /\ \A c \in Contracts : Con(c)' = Con(c)
             /\ \A r \in Reservations : Res(r)' = Res(r)
             /\ audit' = audit
  <2>1. \/ ContractsStay
        \/ \E c \in Contracts : \E row : WritesRow(t, "sales_contracts", c, row)
    <3>1. CASE InsertsContract(t) \/ EditsContract(t) \/ MovesContract(t)
      BY <3>1 DEF InsertsContract, EditsContract, MovesContract
    <3> QED BY <1>5, <3>1, Untouched, TableViews
  <2>2. \/ ReservationsStay
        \/ \E r \in Reservations : \E row : WritesRow(t, "reservations", r, row)
    <3>1. CASE InsertsReservation(t) \/ MovesReservation(t)
      BY <3>1 DEF InsertsReservation, MovesReservation
    <3> QED BY <1>5, <3>1, Untouched, TableViews
  <2>3. \A c \in Contracts : Con(c)' = Con(c)
    BY <1>3, <2>1, TableViews DEF ContractsStay
  <2>4. \A r \in Reservations : Res(r)' = Res(r)
    BY <1>4, <2>2, TableViews DEF ReservationsStay
  <2> QED BY <1>5, <2>3, <2>4, ActsControl
<1>6. ASSUME NEW t \in Tx, Begun(t)
      PROVE  /\ \A c \in Contracts : Con(c)' = Con(c)
             /\ \A r \in Reservations : Res(r)' = Res(r)
             /\ audit' = audit
  <2>1. ContractsStay
    BY <1>6, Untouched, TableViews DEF TableName
  <2>2. ReservationsStay \/ ExpiresLate(t)
    BY <1>6, Untouched, TableViews DEF Begun, TableName
  <2>3. audit' = audit
    BY <1>6 DEF Begun
  <2> QED BY <2>1, <2>2, <2>3 DEF ContractsStay, ReservationsStay, ExpiresLate, RowStays,
                                 RowWritten, Res
<1>7. ASSUME SettlesOther
      PROVE  /\ \A c \in Contracts : Con(c)' = Con(c)
             /\ \A r \in Reservations : Res(r)' = Res(r)
             /\ audit' = audit
  <2>1. audit' = audit
    BY <1>7 DEF SettlesOther
  <2> QED BY <1>7, <2>1, Untouched, TableViews DEF TableName, ContractsStay, ReservationsStay
<1>8. ASSUME NEW t \in Tx, Commits(t),
             \A c \in Contracts : Con(c)' = IF ConLocker(c) = t THEN NewCon(c) ELSE Con(c),
             \A r \in Reservations : Res(r)' = IF ResLocker(r) = t THEN NewRes(r) ELSE Res(r)
      PROVE  SourceConverted'
  <2> DEFINE converts == req[t].op = "convert"
             s == req[t].reservation
  <2>1. pc[t] = "commit" /\ RequestOK(t) /\ ContractsSoundFor(t)
    BY <1>1, <1>8 DEF Commits, ContractsSound
  <2>2. converts => /\ s \in Reservations /\ req[t].contract \in Contracts
                    /\ ResLocker(s) = t /\ NewRes(s).status = "converted"
                    /\ Res(s).status = "active"
                    /\ ConLocker(req[t].contract) = t
    <3>1. converts => ResLocker(s) = t /\ NewRes(s).status = "converted"
      BY <2>1 DEF Converts
    <3>2. converts => s \in Reservations /\ req[t].contract \in Contracts
      BY <2>1 DEF RequestOK, FieldsOK
    <3>3. converts => Res(s).status = "active"
      BY <3>1, <3>2 DEF ReservationLocks
    <3>4. converts => ConLocker(req[t].contract) = t
      BY <2>1 DEF ContractsSoundFor, WriterLocks, HasWritten
    <3> QED BY <3>1, <3>2, <3>3, <3>4
  <2>3. ASSUME NEW c \in Contracts
        PROVE  /\ converts /\ c = req[t].contract =>
                    /\ Con(c) = NoContract /\ Con(c)' # NoContract
                    /\ Con(c)'.source = s /\ Conversion(c)' \in audit'
               /\ ~(converts /\ c = req[t].contract) =>
                    /\ Conversion(c)' \in audit' <=> Conversion(c) \in audit
                    /\ Con(c) # NoContract =>
                         Con(c)' # NoContract /\ Con(c)'.source = Con(c).source
    <3>0. Conversion(c)' \in audit' <=>
            Conversion(c) \in audit \/ (converts /\ c = req[t].contract)
      <4>1. audit' = audit \cup entry[t]
        BY <1>8 DEF Commits
      <4>2. Conversion(c) \in entry[t] <=> converts /\ c = req[t].contract
        BY <2>1 DEF LogsConversion
      <4> QED BY <4>1, <4>2 DEF Conversion
    <3>1. CASE ConLocker(c) # t
      BY <1>8, <2>2, <3>0, <3>1
    <3>2. CASE ConLocker(c) = t /\ Inserts(t, c)
      <4>1. /\ Con(c) = NoContract /\ Con(c)'.source = s /\ Con(c)'.status = "draft"
        BY <1>8, <3>2 DEF Inserts
      <4> QED BY <3>0, <4>1 DEF NoContract
    <3>3. CASE ConLocker(c) = t /\ ~Inserts(t, c)
      <4>1. Moves(t, c) \/ Edits(t, c)
        BY <3>3, ContractLocked
      <4>2. ~converts /\ NewCon(c).source = Con(c).source /\ NewCon(c).status # "none"
        <5>1. CASE Moves(t, c)
          <6>1. /\ req[t].op \in Mover /\ To[req[t].op] # "none"
                /\ NewCon(c) = [Con(c) EXCEPT !.status = To[req[t].op]]
            BY <5>1 DEF Moves, Mover, To
          <6> QED BY <1>1, <6>1 DEF Mover, ContractRow
        <5>2. CASE Edits(t, c)
          BY <1>1, <5>2 DEF Edits, ContractRow
        <5> QED BY <4>1, <5>1, <5>2
      <4>3. NewCon(c) # NoContract
        BY <4>2 DEF NoContract
      <4> QED BY <1>8, <3>0, <3>3, <4>2, <4>3
    <3> QED BY <3>1, <3>2, <3>3
  <2>4. ASSUME NEW r \in Reservations
        PROVE  IF converts /\ r = s
                 THEN Res(r).status = "active" /\ Res(r)'.status = "converted"
                 ELSE Res(r)'.status = "converted" <=> Res(r).status = "converted"
    <3>1. CASE converts /\ r = s
      BY <1>8, <2>2, <3>1
    <3>2. CASE ~(converts /\ r = s) /\ ResLocker(r) = t
      <4>1. Res(r).status # "converted" /\ NewRes(r).status # "converted"
        BY <3>2 DEF ReservationLocks, NoReservation
      <4> QED BY <1>8, <3>2, <4>1
    <3>3. CASE ~(converts /\ r = s) /\ ResLocker(r) # t
      BY <1>8, <3>3
    <3> QED BY <3>1, <3>2, <3>3
  <2>5. /\ \A c \in Contracts : Conversion(c) \in audit => Con(c) # NoContract
        /\ \A r \in Reservations :
             /\ \A c \in Contracts : ConvertedFrom(c, r) => Res(r).status = "converted"
             /\ \A c, d \in Contracts : ConvertedFrom(c, r) /\ ConvertedFrom(d, r) => c = d
             /\ Res(r).status = "converted" => \E c \in Contracts : ConvertedFrom(c, r)
    BY DEF SourceConverted
  <2>6. ASSUME NEW c \in Contracts, ~(converts /\ c = req[t].contract), NEW r \in Reservations
        PROVE  /\ ConvertedFrom(c, r)' <=> ConvertedFrom(c, r)
               /\ Conversion(c)' \in audit' => Con(c)' # NoContract
    BY <2>3, <2>5, <2>6 DEF ConvertedFrom
  <2>7. ASSUME NEW c \in Contracts
        PROVE  Conversion(c)' \in audit' => Con(c)' # NoContract
    BY <2>3, <2>5
  <2>8. CASE ~converts
    <3>1. \A r \in Reservations :
            /\ \A c \in Contracts : ConvertedFrom(c, r)' <=> ConvertedFrom(c, r)
            /\ Res(r)'.status = "converted" <=> Res(r).status = "converted"
      BY <2>4, <2>6, <2>8
    <3> HIDE DEF converts, s
    <3> QED BY <2>5, <2>7, <3>1 DEF SourceConverted
  <2>9. CASE converts
    <3>1. PICK c0 \in Contracts : c0 = req[t].contract
      BY <2>2, <2>9
    <3>2. PICK r0 \in Reservations : r0 = s
      BY <2>2, <2>9
    <3>3. /\ Con(c0) = NoContract /\ ConvertedFrom(c0, r0)'
          /\ \A r \in Reservations : ConvertedFrom(c0, r)' => r = r0
      BY <2>3, <2>9, <3>1, <3>2 DEF ConvertedFrom
    <3>4. /\ Res(r0).status = "active" /\ Res(r0)'.status = "converted"
          /\ \A r \in Reservations \ {r0} :
               Res(r)'.status = "converted" <=> Res(r).status = "converted"
      BY <2>4, <2>9, <3>2
    <3>5. \A c \in Contracts, r \in Reservations :
            c # c0 => (ConvertedFrom(c, r)' <=> ConvertedFrom(c, r))
      BY <2>6, <3>1
    <3>6. \A r \in Reservations : ~ConvertedFrom(c0, r)
      BY <2>5, <3>3 DEF ConvertedFrom
    <3>7. \A c \in Contracts : ~ConvertedFrom(c, r0)
      BY <2>5, <3>4
    <3> HIDE DEF converts, s
    <3>8. \A c \in Contracts : ConvertedFrom(c, r0)' <=> c = c0
      BY <3>3, <3>5, <3>7
    <3>9. \A r \in Reservations : r # r0 =>
            \A c \in Contracts : ConvertedFrom(c, r)' <=> ConvertedFrom(c, r)
      BY <3>3, <3>5, <3>6
    <3> QED BY <2>5, <2>7, <3>4, <3>8, <3>9 DEF SourceConverted
  <2> QED BY <2>8, <2>9
<1>9. ASSUME NEW t \in Tx, Ends(t) PROVE SourceConverted'
  <2>0. /\ "sales_contracts" \in TableName /\ Rows["sales_contracts"] = Contracts
        /\ "reservations" \in TableName /\ Rows["reservations"] = Reservations
    BY DEF TableName, Rows
  <2>1. CASE Commits(t)
    <3>1. /\ \A c \in Contracts : Con(c)' = IF ConLocker(c) = t THEN NewCon(c) ELSE Con(c)
          /\ \A r \in Reservations : Res(r)' = IF ResLocker(r) = t THEN NewRes(r) ELSE Res(r)
      BY <2>0, <2>1 DEF Commits, CommitsRows, Con, NewCon, ConLocker, Res, NewRes, ResLocker
    <3> QED BY <1>8, <2>1, <3>1
  <2>2. CASE RollsBack(t)
    <3>1. /\ \A c \in Contracts : Con(c)' = Con(c)
          /\ \A r \in Reservations : Res(r)' = Res(r)
          /\ audit' = audit
      BY <2>0, <2>2 DEF RollsBack, RollsBackRows, Con, Res
    <3> QED BY <1>2, <3>1
  <2> QED BY <1>9, <2>1, <2>2 DEF Ends
<1> QED BY <1>2, <1>5, <1>6, <1>7, <1>9, StepCases

LEMMA SpecReservations == Spec => []ReservationsSound
<1>1. Init => ReservationsSound
  <2> SUFFICES ASSUME Init PROVE ReservationsSound
    OBVIOUS
  <2>1. /\ \A t \in Tx : pc[t] = "idle" /\ entry[t] = {}
        /\ \A r \in Reservations : Res(r) = NoReservation /\ NewRes(r) = NoReservation
        /\ audit = {}
    BY InitFacts
  <2>2. \A r \in Reservations : ResLocker(r) = Nil
    <3>1. "reservations" \in TableName /\ Rows["reservations"] = Reservations
      BY DEF TableName, Rows
    <3> QED BY <3>1, InitFacts DEF ResLocker
  <2>3. \A t \in Tx : ReservationLocks(t) /\ Converts(t) /\ LogsConversion(t)
    BY <2>1, <2>2, NilAssumption DEF ReservationLocks, Converts, LogsConversion
  <2>4. OneReservation /\ SourceConverted
    BY <2>1 DEF OneReservation, SourceConverted, ConvertedFrom, Holds, NoReservation
  <2> QED BY <2>3, <2>4 DEF ReservationsSound
<1>2. Sound /\ ReservationsSound /\ [Next]_vars => ReservationsSound'
  <2> SUFFICES ASSUME Sound, ReservationsSound, [Next]_vars PROVE ReservationsSound'
    OBVIOUS
  <2>1. \A t \in Tx : ReservationLocks(t)' /\ Converts(t)' /\ LogsConversion(t)'
    BY LocksNext, ConversionsNext DEF Sound, ReservationsSound
  <2>2. OneReservation' /\ SourceConverted'
    BY OneReservationNext, SourcesNext DEF Sound, ReservationsSound
  <2> QED BY <2>1, <2>2 DEF ReservationsSound
<1> QED BY <1>1, <1>2, SpecSound, PTL DEF Spec

\* A set whose elements are all the same has one at most.
LEMMA AllAlike ==
  ASSUME NEW S, \A x, y \in S : x = y
  PROVE  Cardinality(S) <= 1
<1>1. CASE S = {}
  BY <1>1, FS_EmptySet
<1>2. CASE S # {}
  <2>1. PICK x : S = {x}
    BY <1>2
  <2> QED BY <2>1, FS_Singleton
<1> QED BY <1>1, <1>2

\* However reservations, expiry, conversions and activations interleave, a
\* unit is held by one active reservation and one active contract at most: the
\* partial unique indexes see what open transactions will commit.
THEOREM UnitHeldOnce == Spec => []HeldOnce
<1>1. ASSUME Sound, ReservationsSound PROVE HeldOnce
  <2> SUFFICES ASSUME NEW u \in Units
               PROVE  /\ Cardinality({r \in Reservations :
                            db.reservations[r] = [status |-> "active", unit |-> u]}) <= 1
                      /\ Cardinality({c \in Contracts :
                            StatusOf(c) = "active" /\ UnitOf(c) = u}) <= 1
    BY DEF HeldOnce
  <2>1. \A q, r \in {r \in Reservations :
                       db.reservations[r] = [status |-> "active", unit |-> u]} : q = r
    BY <1>1 DEF ReservationsSound, OneReservation, Holds, Res
  <2>2. \A c, d \in {c \in Contracts : StatusOf(c) = "active" /\ UnitOf(c) = u} : c = d
    BY <1>1 DEF Sound, OneActive, StatusOf, UnitOf, Con
  <2> QED BY <2>1, <2>2, AllAlike
<1> QED BY <1>1, SpecSound, SpecReservations, PTL

\* A converted reservation has exactly one contract that a conversion made, and
\* one that expired or was cancelled while it was converted has none, whatever
\* contracts clients create in its name.
THEOREM ReservationConvertedOnce == Spec => []ConvertedOnce
<1>1. ASSUME Typed, ReservationsSound PROVE ConvertedOnce
  <2> SUFFICES ASSUME NEW r \in Reservations
               PROVE  Cardinality({c \in Contracts : /\ db.sales_contracts[c].source = r
                                                     /\ <<"convert_reservation", c>> \in audit}) =
                        IF db.reservations[r].status = "converted" THEN 1 ELSE 0
    BY DEF ConvertedOnce
  <2> DEFINE S == {c \in Contracts : /\ db.sales_contracts[c].source = r
                                     /\ <<"convert_reservation", c>> \in audit}
  <2>1. /\ \A c \in S : Res(r).status = "converted"
        /\ \A c, d \in S : c = d
        /\ Res(r).status = "converted" => \E c \in S : TRUE
    BY <1>1 DEF ReservationsSound, SourceConverted, ConvertedFrom, Conversion, Con
  <2>2. CASE Res(r).status = "converted"
    <3>1. PICK c : S = {c}
      BY <2>1, <2>2
    <3> HIDE DEF S
    <3>2. Cardinality(S) = 1
      BY <3>1, FS_Singleton
    <3> QED BY <2>2, <3>2 DEF Res, S
  <2>3. CASE Res(r).status # "converted"
    <3>1. S = {}
      BY <2>1, <2>3
    <3> QED BY <2>3, <3>1, FS_EmptySet DEF Res
  <2> QED BY <2>2, <2>3
<1> QED BY <1>1, SpecTyped, SpecReservations, PTL

-----------------------------------------------------------------------------
(***************************************************************************)
(* Nobody touches the rows another transaction has locked.                 *)
(***************************************************************************)
RowStep(t, tab, id) ==
  \/ RowStays(tab, id)
  \/ /\ owner[tab][id] \in {Nil, t} /\ owner'[tab][id] = t
     /\ db'[tab][id] = db[tab][id]
  \/ Ends(t) /\ owner[tab][id] = t /\ owner'[tab][id] = Nil

LEMMA RowSteps ==
  ASSUME Typed, NEW t \in Tx, Begun(t) \/ Acts(t) \/ Ends(t),
         NEW tab \in TableName, NEW id \in Rows[tab]
  PROVE  RowStep(t, tab, id)
<1>1. \A other \in TableName : \A k, row :
        WritesRow(t, other, k, row) => RowStep(t, tab, id)
  BY DEF WritesRow, OthersStayBut, TableStays, RowWritten, RowStays, RowStep
<1>2. TableStays(tab) => RowStep(t, tab, id)
  BY DEF TableStays, RowStep
<1>3. CASE Begun(t)
  <2>1. CASE ExpiresLate(t) /\ tab = "reservations"
    <3>1. id \in Reservations
      BY <2>1 DEF Rows
    <3> QED BY <2>1, <3>1 DEF ExpiresLate, RowStep, RowWritten
  <2>2. CASE UNCHANGED storage \/ tab # "reservations"
    BY <1>2, <1>3, <2>2, Untouched DEF Begun
  <2> QED BY <1>3, <2>1, <2>2 DEF Begun
<1>4. CASE Ends(t)
  BY <1>4 DEF Ends, Commits, RollsBack, CommitsRows, RollsBackRows, RowStep, RowStays
<1>5. CASE Acts(t)
  <2>1. CASE InsertsReservation(t) \/ ChangesUnit(t) \/ MovesReservation(t)
             \/ InsertsContract(t) \/ EditsContract(t) \/ MovesContract(t)
             \/ AsksApproval(t) \/ UpdatesLine(t)
    <3>1. \E other \in TableName : \E k, row : WritesRow(t, other, k, row)
      BY <2>1 DEF InsertsReservation, ChangesUnit, MovesReservation, InsertsContract,
         EditsContract, MovesContract, AsksApproval, UpdatesLine, TableName
    <3> QED BY <1>1, <3>1
  <2>2. CASE LooksForHolder(t) \/ ListsLines(t)
    BY <1>2, <2>2, Untouched DEF LooksForHolder, ListsLines
  <2>3. CASE PlansLines(t)
    <3>1. PICK principal : InsertsPlan(t, req[t].contract, principal)
      BY <2>3 DEF PlansLines
    <3>2. CASE tab = "installment_schedule_lines"
      <4>1. id \in Lines /\ id = <<id[1], id[2]>>
        BY <3>2 DEF Rows, Lines
      <4> QED BY <3>1, <3>2, <4>1 DEF InsertsPlan, RowStep, RowWritten
    <3> QED BY <1>2, <3>1, <3>2 DEF InsertsPlan
  <2>4. CASE BillsLine(t)
    <3>1. CASE tab \in {"installment_schedule_lines", "receivables"}
      <4>1. id \in Lines
        BY <3>1 DEF Rows
      <4> QED BY <2>4, <3>1, <4>1 DEF BillsLine, RowStep, RowWritten
    <3> QED BY <1>2, <2>4, <3>1 DEF BillsLine
  <2> QED BY <1>5, <2>1, <2>2, <2>3, <2>4 DEF Acts
<1> QED BY <1>3, <1>4, <1>5

\* So what x has locked stays, whoever else takes a step.
LockedStays(x) ==
  \A tab \in TableName : \A id \in Rows[tab] :
    /\ owner'[tab][id] = x <=> owner[tab][id] = x
    /\ owner[tab][id] = x => /\ db'[tab][id] = db[tab][id]
                             /\ dirty'[tab][id] = dirty[tab][id]

\* A step is one of the environment, or of one transaction.
LEMMA WholeSteps ==
  ASSUME Typed, [Next]_vars
  PROVE  \/ /\ SettlesOther
            /\ \A x \in Tx : /\ LockedStays(x) /\ pc'[x] = pc[x] /\ req'[x] = req[x]
                             /\ todo'[x] = todo[x] /\ entry'[x] = entry[x]
         \/ \E t \in Tx :
              /\ Begun(t) \/ Acts(t) \/ Ends(t)
              /\ OthersStay(t) /\ \A x \in Tx \ {t} : LockedStays(x)
<1>1. Nil \notin Tx
  BY NilAssumption
<1>2. ASSUME NEW t \in Tx, Begun(t) \/ Acts(t) \/ Ends(t), NEW x \in Tx \ {t}
      PROVE  LockedStays(x)
  <2> SUFFICES ASSUME NEW tab \in TableName, NEW id \in Rows[tab]
               PROVE  /\ owner'[tab][id] = x <=> owner[tab][id] = x
                      /\ owner[tab][id] = x => /\ db'[tab][id] = db[tab][id]
                                               /\ dirty'[tab][id] = dirty[tab][id]
    BY DEF LockedStays
  <2>1. RowStep(t, tab, id)
    BY <1>2, RowSteps
  <2> QED BY <1>1, <2>1 DEF RowStep, RowStays
<1>3. ASSUME SettlesOther, NEW x \in Tx PROVE LockedStays(x)
  <2>1. UNCHANGED storage => LockedStays(x)
    BY DEF storage, LockedStays
  <2>2. ASSUME NEW tab \in TableName, NEW id, NEW row, ReplacesRow(tab, id, row)
        PROVE  LockedStays(x)
    BY <1>1, <2>2 DEF ReplacesRow, RowReplaced, OthersStayBut, TableStays, RowStays, LockedStays
  <2> QED BY <1>3, <2>1, <2>2 DEF SettlesOther, UnitEntered, TableName
<1>4. \A t \in Tx : Begun(t) \/ Acts(t) \/ Ends(t) => OthersStay(t)
  BY ActsControl DEF Begun, Ends
<1> QED BY <1>2, <1>3, <1>4, StepCases DEF SettlesOther

-----------------------------------------------------------------------------
(***************************************************************************)
(* The locks on units.                                                     *)
(***************************************************************************)
\* A transaction that is to commit something has gone through the statement
\* that writes it.
LEMMA CommitComes ==
  ASSUME Typed, NEW t \in Tx, Acts(t), pc'[t] = "commit"
  PROVE  /\ req[t].op = "activate" => ChangesUnit(t)
         /\ req[t].op \in {"cancel", "terminate"} => ChangesUnit(t) \/ AsksApproval(t)
         /\ req[t].op \in {"complete", "default"} => MovesContract(t)
         /\ req[t].op \in {"generate"} => PlansLines(t)
         /\ req[t].op = "update_line" => UpdatesLine(t) \/ AsksApproval(t)
         /\ ~ChangesUnit(t) /\ ~MovesContract(t) => pc[t] \notin Ending
<1>1. pc[t] # "idle" /\ pc[t] \in StatementsOf(req[t].op)
  BY ActsControl DEF RequestOK
<1>2. CASE ChangesUnit(t) \/ AsksApproval(t)
  BY <1>1, <1>2 DEF ChangesUnit, AsksApproval, UnitStatusAt, StatementsOf, Ending
<1>3. CASE MovesContract(t) \/ UpdatesLine(t)
  BY <1>1, <1>3 DEF MovesContract, UpdatesLine, Goes, StatementsOf, Ending
<1>4. CASE PlansLines(t) \/ ListsLines(t) \/ BillsLine(t)
  BY <1>1, <1>4 DEF PlansLines, ListsLines, BillsLine, StatementsOf, Ending
<1>5. CASE InsertsReservation(t) \/ MovesReservation(t) \/ LooksForHolder(t)
  BY <1>1, <1>5 DEF InsertsReservation, MovesReservation, LooksForHolder, StatementsOf, Ending
<1>6. CASE InsertsContract(t) \/ EditsContract(t)
  BY <1>1, <1>6 DEF InsertsContract, EditsContract, StatementsOf, Ending
<1> QED BY <1>2, <1>3, <1>4, <1>5, <1>6 DEF Acts

LEMMA UnitLocksNext ==
  ASSUME Typed, ContractsSound, \A t \in Tx : UnitLocks(t), [Next]_vars
  PROVE  \A t \in Tx : UnitLocks(t)'
<1>1. /\ "units" \in TableName /\ Rows["units"] = Units
      /\ "sales_contracts" \in TableName /\ Rows["sales_contracts"] = Contracts
      /\ Nil \notin Tx /\ \A t \in Tx : RequestOK(t)
  BY TypedRows, NilAssumption DEF TableName, Rows
<1>2. ASSUME NEW x \in Tx, LockedStays(x), pc'[x] = pc[x], req'[x] = req[x]
      PROVE  UnitLocks(x)'
  <2>1. /\ \A u \in Units : /\ owner.units[u]' = x <=> owner.units[u] = x
                            /\ owner.units[u] = x => dirty.units[u]' = dirty.units[u]
        /\ \A c \in Contracts : ConLocker(c)' = x <=> ConLocker(c) = x
    BY <1>1, <1>2 DEF LockedStays, ConLocker
  <2>2. WillEnd(x)' <=> WillEnd(x)
    <3>1. pc[x] = "commit" /\ req[x].op \in {"cancel", "terminate"} => req[x].contract \in Contracts
      BY <1>1 DEF RequestOK, FieldsOK, OnContract
    <3> QED BY <1>2, <2>1, <3>1 DEF WillEnd
  <2>3. WillEnd(x) => req[x].unit \in Units
    BY <1>1 DEF WillEnd, RequestOK, FieldsOK
  <2> QED BY <1>2, <2>1, <2>2, <2>3 DEF UnitLocks
<1>3. ASSUME NEW t \in Tx, Begun(t) PROVE UnitLocks(t)'
  <2>1. pc[t] = "idle" /\ pc'[t] # "commit" /\ UnitsStay
    BY <1>3, Untouched, TableViews DEF Begun, FirstStatement, TableName
  <2> QED BY <2>1 DEF UnitLocks, WillEnd, UnitsStay, RowStays
<1>4. ASSUME NEW t \in Tx, Ends(t) PROVE UnitLocks(t)'
  <2>1. pc'[t] = "idle" /\ \A u \in Units : owner'["units"][u] # t
    BY <1>1, <1>4 DEF Ends, Commits, RollsBack, CommitsRows, RollsBackRows
  <2> QED BY <2>1 DEF UnitLocks, WillEnd
<1>5. ASSUME NEW t \in Tx, ChangesUnit(t) PROVE UnitLocks(t)'
  <2>1. /\ pc[t] \in DOMAIN UnitStatusAt /\ req[t].unit \in Units /\ req'[t] = req[t]
        /\ pc'[t] = "commit" /\ pc[t] \in StatementsOf(req[t].op)
        /\ WritesRow(t, "units", req[t].unit, UnitStatusAt[pc[t]])
    BY <1>5 DEF ChangesUnit, Logs, Keeps, RequestOK
  <2>2. \A u \in Units : owner.units[u] # t
    BY <2>1 DEF UnitLocks, UnitStatusAt
  <2>3. \A u \in Units : owner'.units[u] = t => u = req[t].unit
    BY <1>1, <2>1, <2>2 DEF WritesRow, OthersStayBut, RowStays
  <2>4. owner'.units[req[t].unit] = t /\ dirty'.units[req[t].unit] = UnitStatusAt[pc[t]]
    BY <2>1 DEF WritesRow, RowWritten
  <2>5. UnitStatusAt[pc[t]] = "sold" => req[t].op = "activate"
    BY <2>1 DEF UnitStatusAt, StatementsOf
  <2>6. req[t].op \in {"cancel", "terminate"} => UnitStatusAt[pc[t]] = "available"
    BY <2>1 DEF UnitStatusAt, StatementsOf
  <2> QED BY <2>1, <2>3, <2>4, <2>5, <2>6 DEF UnitLocks, WillEnd
<1>6. ASSUME NEW t \in Tx, Acts(t), ~ChangesUnit(t) PROVE UnitLocks(t)'
  <2>1. UnitsStay /\ pc[t] # "commit"
    BY <1>6, Untouched, TableViews, ActsControl
  <2>2. \A u \in Units : owner'["units"][u] # t
    BY <2>1 DEF UnitLocks, UnitsStay, RowStays
  <2>3. ~WillEnd(t)'
    <3> SUFFICES ASSUME WillEnd(t)' PROVE FALSE
      OBVIOUS
    <3>1. \A f \in {"op"} : req'[t][f] = req[t][f]
      BY <1>6, ActsControl
    <3>2. /\ pc'[t] = "commit" /\ req[t].op \in {"cancel", "terminate"}
          /\ owner'.sales_contracts[req'[t].contract] = t
      BY <3>1 DEF WillEnd, ConLocker
    <3>3. /\ AsksApproval(t) /\ pc[t] = "insert_approval" /\ req'[t].contract = req[t].contract
      BY <1>6, <3>2, CommitComes, ActsControl DEF AsksApproval
    <3>4. ContractsStay
      <4>1. TableStays("sales_contracts")
        BY <3>3 DEF AsksApproval, WritesRow, OthersStayBut, TableName
      <4> QED BY <4>1, TableViews
    <3>5. req[t].contract \in Contracts
      BY <1>1, <3>2, <3>3 DEF RequestOK, FieldsOK, OnContract
    <3>6. ConLocker(req[t].contract) = t
      BY <3>2, <3>3, <3>4, <3>5 DEF ContractsStay, ConLocker
    <3> QED BY <3>3, <3>5, <3>6, ContractLocked
  <2> QED BY <2>2, <2>3 DEF UnitLocks
<1> QED BY <1>2, <1>3, <1>4, <1>5, <1>6, WholeSteps DEF OthersStay

\* Only a commit changes what is committed, payments, decisions and the units
\* that clients set apart.
CommittedStay ==
  /\ \A c \in Contracts : Con(c)' = Con(c)
  /\ \A u \in Units \ byHand' : u \notin byHand /\ db'.units[u] = db.units[u]
  /\ \A l \in Lines : Line(l)' = Line(l)
  /\ audit' = audit

LEMMA CommitOrStay ==
  ASSUME Typed, [Next]_vars
  PROVE  \/ SettlesOther /\ CommittedStay
         \/ /\ CommittedStay
            /\ \A tab \in TableName : \A id \in Rows[tab] : db'[tab][id] = db[tab][id]
         \/ \E t \in Tx : Ends(t) /\ Commits(t)
<1>1. /\ Rows["units"] = Units /\ Rows["sales_contracts"] = Contracts
      /\ Rows["installment_schedule_lines"] = Lines
      /\ {"units", "sales_contracts", "installment_schedule_lines"} \subseteq TableName
  BY DEF TableName, Rows
<1>2. ASSUME audit' = audit,
             \A u \in Units \ byHand' : u \notin byHand /\ db'["units"][u] = db["units"][u],
             \A tab \in {"sales_contracts", "installment_schedule_lines"} :
               \A id \in Rows[tab] : db'[tab][id] = db[tab][id]
      PROVE  CommittedStay
  BY <1>1, <1>2 DEF Con, Line, CommittedStay
<1>3. ASSUME SettlesOther PROVE CommittedStay
  <2>1. \A tab \in {"sales_contracts", "installment_schedule_lines"} : TableStays(tab)
    BY <1>1, <1>3, Untouched
  <2>2. \A u \in Units \ byHand' : u \notin byHand /\ db'["units"][u] = db["units"][u]
    <3>1. CASE UnitEntered
      BY <1>1, <3>1 DEF UnitEntered, ReplacesRow, OthersStayBut, RowStays
    <3>2. CASE TableStays("units") /\ byHand' = byHand
      BY <1>1, <3>2 DEF TableStays, RowStays
    <3> QED BY <1>3, <3>1, <3>2, Untouched
  <2>3. \A tab \in {"sales_contracts", "installment_schedule_lines"} :
          \A id \in Rows[tab] : db'[tab][id] = db[tab][id]
    BY <2>1 DEF TableStays, RowStays
  <2>4. audit' = audit
    BY <1>3 DEF SettlesOther
  <2> QED BY <1>2, <2>2, <2>3, <2>4
<1>4. ASSUME NEW t \in Tx, Begun(t) \/ Acts(t)
      PROVE  UNCHANGED <<audit, byHand>> /\ \A tab \in TableName : \A id \in Rows[tab] : db'[tab][id] = db[tab][id]
  <2>1. ~Ends(t) /\ UNCHANGED <<audit, byHand>>
    BY <1>4, ActsControl DEF Begun, FirstStatement, Ends
  <2> QED BY <1>4, <2>1, RowSteps DEF RowStep, RowStays
<1>5. ASSUME NEW t \in Tx, Ends(t), RollsBack(t)
      PROVE  /\ UNCHANGED <<audit, byHand>>
             /\ \A tab \in TableName : \A id \in Rows[tab] : db'[tab][id] = db[tab][id]
  BY <1>5 DEF RollsBack, RollsBackRows
<1>6. ASSUME UNCHANGED <<audit, byHand>>,
             \A tab \in TableName : \A id \in Rows[tab] : db'[tab][id] = db[tab][id]
      PROVE  CommittedStay
  BY <1>1, <1>2, <1>6
<1> QED BY <1>3, <1>4, <1>5, <1>6, StepCases DEF Ends

LEMMA SoldNext ==
  ASSUME Typed, ContractsSound, \A t \in Tx : UnitLocks(t), SoldHasContract, [Next]_vars
  PROVE  SoldHasContract'
<1>1. /\ "units" \in TableName /\ Rows["units"] = Units
      /\ \A t \in Tx : RequestOK(t)
      /\ \A c \in Contracts : /\ Con(c) \in ContractRow /\ NewCon(c) \in ContractRow
                              /\ Con(c) = db.sales_contracts[c]
  BY TypedRows DEF TableName, Rows, Con
<1>2. CASE CommittedStay
  <2> SUFFICES ASSUME NEW u \in Units \ byHand', db'.units[u] = "sold"
               PROVE  \E c \in Contracts : /\ UnitOf(c)' = u
                                           /\ StatusOf(c)' \in Activated \ {"terminated"}
    BY DEF SoldHasContract
  <2>1. u \notin byHand /\ db.units[u] = "sold"
    BY <1>2 DEF CommittedStay
  <2>2. PICK c \in Contracts : UnitOf(c) = u /\ StatusOf(c) \in Activated \ {"terminated"}
    BY <2>1 DEF SoldHasContract
  <2> QED BY <1>2, <2>2 DEF CommittedStay, StatusOf, UnitOf, Con
<1>3. ASSUME NEW t \in Tx, Ends(t), Commits(t), NEW u \in Units \ byHand',
             db'.units[u] = "sold"
      PROVE  \E c \in Contracts : /\ UnitOf(c)' = u
                                  /\ StatusOf(c)' \in Activated \ {"terminated"}
  <2> DEFINE k == req[t].contract
             Stands(row) == row.unit = u /\ row.status \in {"active", "completed", "defaulted"}
  <2>0. Activated \ {"terminated"} = {"active", "completed", "defaulted"}
    BY DEF Activated
  <2>1. /\ pc[t] = "commit" /\ RequestOK(t) /\ ContractsSoundFor(t) /\ UnitLocks(t)
        /\ db'.units[u] = IF owner.units[u] = t THEN dirty.units[u] ELSE db.units[u]
        /\ owner.units[u] # t => u \notin byHand
        /\ \A c \in Contracts : Con(c)' = IF ConLocker(c) = t THEN NewCon(c) ELSE Con(c)
    <3>1. /\ "sales_contracts" \in TableName /\ Rows["sales_contracts"] = Contracts
      BY DEF TableName, Rows
    <3> QED BY <1>1, <1>3, <3>1 DEF Commits, CommitsRows, ContractsSound, Con, NewCon, ConLocker
  <2>2. CASE owner.units[u] = t
    <3>1. /\ req[t].op = "activate" /\ u = req[t].unit /\ k \in Contracts
      BY <1>3, <2>1, <2>2 DEF UnitLocks, RequestOK, FieldsOK, OnContract
    <3>2. ConLocker(k) = t /\ Con(k).unit = u
      BY <2>1, <3>1 DEF ContractsSoundFor, WriterLocks, HasWritten, UnitIsRemembered, OnContract
    <3>3. Moves(t, k)
      BY <3>1, <3>2, ContractLocked DEF Edits, Inserts
    <3>4. NewCon(k) = [Con(k) EXCEPT !.status = "active"]
      BY <3>1, <3>3 DEF Moves, To
    <3>5. Stands(NewCon(k))
      BY <1>1, <3>1, <3>2, <3>4 DEF ContractRow
    <3> QED BY <2>0, <2>1, <3>1, <3>2, <3>5 DEF StatusOf, UnitOf, Con
  <2>3. CASE owner.units[u] # t
    <3>1. PICK d \in Contracts : Stands(Con(d))
      BY <1>3, <2>0, <2>1, <2>3 DEF SoldHasContract, StatusOf, UnitOf, Con
    <3>2. CASE ConLocker(d) # t
      BY <2>0, <2>1, <3>1, <3>2 DEF StatusOf, UnitOf, Con
    <3>3. CASE ConLocker(d) = t
      <4>1. /\ d = k /\ req[t].op \in Mover
            /\ Con(d).status = From(req[t])
            /\ NewCon(d) = [Con(d) EXCEPT !.status = To[req[t].op]]
        <5>1. Moves(t, d) \/ Edits(t, d) \/ Inserts(t, d)
          BY <3>3, ContractLocked
        <5> QED BY <3>1, <5>1 DEF Moves, Edits, Inserts, NoContract
      <4>2. req[t].op \notin {"cancel", "terminate"}
        <5> SUFFICES ASSUME req[t].op \in {"cancel", "terminate"} PROVE FALSE
          OBVIOUS
        <5>1. WillEnd(t)
          BY <2>1, <3>3, <4>1 DEF WillEnd
        <5>2. req[t].unit = u
          BY <2>1, <3>1, <4>1 DEF ContractsSoundFor, UnitIsRemembered, OnContract
        <5> QED BY <2>1, <2>3, <5>1, <5>2 DEF UnitLocks
      <4>3. To[req[t].op] \in {"active", "completed", "defaulted"}
        BY <4>1, <4>2 DEF Mover, To
      <4>4. Stands(NewCon(d))
        BY <1>1, <3>1, <4>1, <4>3 DEF ContractRow
      <4> QED BY <2>0, <2>1, <3>3, <4>4 DEF StatusOf, UnitOf, Con
    <3> QED BY <3>2, <3>3
  <2> QED BY <2>2, <2>3
<1> QED BY <1>2, <1>3, CommitOrStay DEF SoldHasContract

LEMMA SpecUnits == Spec => []UnitsSound
<1>1. Init => UnitsSound
  <2> SUFFICES ASSUME Init PROVE UnitsSound
    OBVIOUS
  <2>1. /\ \A t \in Tx : pc[t] = "idle"
        /\ byHand = Units /\ \A u \in Units : owner["units"][u] = Nil
    BY InitFacts DEF TableName, Rows
  <2> QED BY <2>1, NilAssumption DEF UnitsSound, SoldHasContract, UnitLocks, WillEnd
<1>2. Sound /\ UnitsSound /\ [Next]_vars => UnitsSound'
  BY UnitLocksNext, SoldNext DEF Sound, UnitsSound
<1> QED BY <1>1, <1>2, SpecSound, PTL DEF Spec

\* A unit stays sold only while a contract that was activated for it stands,
\* unless a client has set its status since: whatever ends such a contract
\* makes the unit available in the same transaction, and a unit that an
\* activation sells is sold after it.
THEOREM SoldUnitHasContract == Spec => []SoldHasContract
<1>1. UnitsSound => SoldHasContract
  BY DEF UnitsSound
<1> QED BY <1>1, SpecUnits, PTL

-----------------------------------------------------------------------------
(***************************************************************************)
(* Active contracts end by approval.                                       *)
(***************************************************************************)
\* The request that is read as approved is one for this contract and ending.
LEMMA LatestIsApproved ==
  ASSUME Typed, NEW t \in Tx, NEW c \in Contracts, NEW type,
         GetLatestSalesApprovalRequest(t, c, type) = "approved",
         \A a \in ApprovalIds : owner.approval_requests[a] # t
  PROVE  Approved(c, type)
<1> DEFINE found == {a \in ApprovalIds :
                       /\ Sees(t, "approval_requests", a).contract = c
                       /\ Sees(t, "approval_requests", a).type = type}
           latest == CHOOSE a \in found : \A b \in found : b <= a
<1>1. found # {} /\ Sees(t, "approval_requests", latest).status = "approved"
  BY DEF GetLatestSalesApprovalRequest
<1>2. IsFiniteSet(found) /\ found \in SUBSET Nat
  BY SalesAssumption, FS_Subset
<1>3. \E a \in found : \A b \in found : b <= a
  <2> HIDE DEF found
  <2> QED BY <1>1, <1>2, LatestExists
<1>4. latest \in found
  BY <1>3
<1> HIDE DEF latest
<1>5. /\ latest \in ApprovalIds
      /\ db.approval_requests[latest] = Sees(t, "approval_requests", latest)
      /\ db.approval_requests[latest].contract = c
      /\ db.approval_requests[latest].type = type
  BY <1>4 DEF Sees
<1>6. db.approval_requests[latest] \in ApprovalRow
  <2>1. /\ "approval_requests" \in TableName /\ Rows["approval_requests"] = ApprovalIds
        /\ RowType["approval_requests"] = ApprovalRow
    BY DEF TableName, Rows, RowType
  <2> QED BY <1>5, <2>1 DEF Typed, StorageTypeOK
<1> QED BY <1>1, <1>5, <1>6 DEF Approved, ApprovalRow

\* An approved request stays.
ApprovedStay ==
  \A a \in ApprovalIds :
    db.approval_requests[a].status = "approved" =>
      db'.approval_requests[a] = db.approval_requests[a]

LEMMA ApprovalsOfOthers ==
  ASSUME Typed, ApprovalsSound, ApprovedStay, NEW x \in Tx,
         pc'[x] = pc[x], req'[x] = req[x], LockedStays(x)
  PROVE  ApprovalLocks(x)' /\ EndApproved(x)'
<1>1. \A c, type : Approved(c, type) => Approved(c, type)'
  BY DEF Approved, ApprovedStay
<1>2. RequestOK(x)
  BY TypedRows
<1>3. \A a \in ApprovalIds :
        /\ owner'.approval_requests[a] = x <=> owner.approval_requests[a] = x
        /\ owner.approval_requests[a] = x => db'.approval_requests[a] = db.approval_requests[a]
  BY DEF LockedStays, TableName, Rows
<1>4. WillEnd(x)' => WillEnd(x)
  <2>1. pc[x] = "commit" /\ req[x].op \in {"cancel", "terminate"} => req[x].contract \in Contracts
    BY <1>2 DEF RequestOK, FieldsOK, OnContract
  <2>2. \A c \in Contracts : ConLocker(c)' = x => ConLocker(c) = x
    BY DEF LockedStays, TableName, Rows, ConLocker
  <2> QED BY <2>1, <2>2 DEF WillEnd
<1>5. ApprovalLocks(x) /\ EndApproved(x)
  BY DEF ApprovalsSound
<1>6. ApprovalLocks(x)'
  BY <1>3, <1>5 DEF ApprovalLocks
<1>7. EndApproved(x)'
  BY <1>1, <1>4, <1>5 DEF EndApproved
<1> QED BY <1>6, <1>7

LEMMA ApprovalsNext ==
  ASSUME Typed, ContractsSound, ApprovalsSound, [Next]_vars
  PROVE  ApprovalsSound'
<1>1. /\ "approval_requests" \in TableName /\ Rows["approval_requests"] = ApprovalIds
      /\ Nil \notin Tx /\ \A t \in Tx : RequestOK(t) /\ ApprovalLocks(t) /\ EndApproved(t)
  BY TypedRows, NilAssumption DEF TableName, Rows, ApprovalsSound
<1>2. ASSUME SettlesOther PROVE ApprovedStay
  <2>1. UNCHANGED storage => ApprovedStay
    BY DEF storage, ApprovedStay
  <2>2. ASSUME NEW tab \in {"units", "receivables"}, NEW id, NEW row,
               ReplacesRow(tab, id, row)
        PROVE  ApprovedStay
    BY <1>1, <2>2 DEF ApprovedStay, ReplacesRow, OthersStayBut, TableStays, RowStays
  <2>3. ASSUME NEW a \in ApprovalIds, NEW row,
               db.approval_requests[a].status # "approved",
               ReplacesRow("approval_requests", a, row)
        PROVE  ApprovedStay
    BY <1>1, <2>3 DEF ApprovedStay, ReplacesRow, OthersStayBut, RowStays
  <2> QED BY <1>2, <2>1, <2>2, <2>3 DEF SettlesOther, UnitEntered
<1>3. ASSUME NEW t \in Tx, Begun(t) \/ Acts(t) \/ Ends(t) PROVE ApprovedStay
  <2>1. CASE Ends(t)
    BY <1>1, <2>1 DEF Ends, Commits, RollsBack, CommitsRows, RollsBackRows, ApprovedStay,
       ApprovalLocks, NoApproval
  <2>2. CASE ~Ends(t)
    BY <1>1, <1>3, <2>2, RowSteps DEF RowStep, RowStays, ApprovedStay
  <2> QED BY <2>1, <2>2
<1>4. ASSUME NEW t \in Tx, pc[t] # "commit"
      PROVE  \A a \in ApprovalIds : owner.approval_requests[a] # t
  BY <1>1, <1>4 DEF ApprovalLocks
<1>5. ASSUME ApprovalsStay
      PROVE  /\ \A c, type : Approved(c, type) => Approved(c, type)'
             /\ \A t \in Tx : pc[t] # "commit" => ApprovalLocks(t)'
  BY <1>4, <1>5 DEF ApprovalsStay, RowStays, Approved, ApprovalLocks
<1>6. ASSUME NEW t \in Tx, Begun(t) PROVE ApprovalLocks(t)' /\ EndApproved(t)'
  <2>1. ApprovalsStay /\ pc[t] = "idle" /\ pc'[t] \in FirstStatement
    BY <1>6, Untouched, TableViews DEF Begun, TableName
  <2>2. pc'[t] = "end_contract" /\ req'[t].from = "active" =>
          Approved(req'[t].contract, req'[t].type)
    <3> SUFFICES ASSUME pc'[t] = "end_contract", req'[t].from = "active"
                 PROVE  Approved(req'[t].contract, req'[t].type)
      OBVIOUS
    <3>1. GetLatestSalesApprovalRequest(t, req'[t].contract, req'[t].type) = "approved"
      BY <1>6 DEF Begun
    <3>2. req'[t].contract \in Contracts
      <4>1. req'[t].op \in {"cancel", "terminate"} /\ FieldsOK(req'[t], pc'[t])
        BY <1>6 DEF Begun, StatementsOf
      <4> QED BY <4>1 DEF FieldsOK, OnContract
    <3>3. \A a \in ApprovalIds : owner.approval_requests[a] # t
      BY <1>4, <2>1
    <3> QED BY <3>1, <3>2, <3>3, LatestIsApproved
  <2>3. EndApproved(t)'
    <3>1. pc'[t] \notin {"free_unit", "commit"}
      BY <2>1 DEF FirstStatement
    <3> QED BY <1>5, <2>1, <2>2, <3>1 DEF EndApproved, WillEnd
  <2> QED BY <1>5, <2>1, <2>3
<1>7. ASSUME NEW t \in Tx, Ends(t) PROVE ApprovalLocks(t)' /\ EndApproved(t)'
  <2>1. pc'[t] = "idle" /\ \A a \in ApprovalIds : owner'["approval_requests"][a] # t
    BY <1>1, <1>7 DEF Ends, Commits, RollsBack, CommitsRows, RollsBackRows
  <2> QED BY <2>1 DEF ApprovalLocks, EndApproved, WillEnd
<1>8. ASSUME NEW t \in Tx, AsksApproval(t) PROVE ApprovalLocks(t)' /\ EndApproved(t)'
  <2>1. PICK a \in ApprovalIds : \E row :
          WritesRow(t, "approval_requests", a, row) /\ dirty.approval_requests[a] = NoApproval
    BY <1>8 DEF AsksApproval
  <2>2. pc[t] = "insert_approval" /\ pc'[t] = "commit" /\ req'[t] = req[t]
    BY <1>8 DEF AsksApproval, Logs
  <2>3. \A b \in ApprovalIds : owner.approval_requests[b] # t
    BY <1>4, <2>2
  <2>4. db'.approval_requests[a] = NoApproval
    <3>1. owner.approval_requests[a] = Nil /\ db'.approval_requests[a] = db.approval_requests[a]
      BY <2>1, <2>3 DEF WritesRow, RowWritten
    <3>2. dirty.approval_requests[a] = db.approval_requests[a]
      <4>1. "approval_requests" \in DOMAIN owner /\ a \in DOMAIN owner["approval_requests"]
        BY <1>1 DEF Typed, StorageTypeOK, Shaped
      <4> QED BY <3>1, <4>1 DEF Typed, DirtyIsCommitted
    <3> QED BY <2>1, <3>1, <3>2
  <2>5. ApprovalLocks(t)'
    <3>1. \A b \in ApprovalIds \ {a} : owner'.approval_requests[b] # t
      BY <1>1, <2>1, <2>3 DEF WritesRow, OthersStayBut, RowStays
    <3> QED BY <2>2, <2>4, <3>1 DEF ApprovalLocks
  <2>6. ~WillEnd(t)'
    <3>1. ContractsStay
      <4>1. TableStays("sales_contracts")
        BY <2>1 DEF WritesRow, OthersStayBut, TableName
      <4> QED BY <4>1, TableViews
    <3>2. \A c \in Contracts : ConLocker(c) # t
      BY <2>2, ContractLocked
    <3>3. req[t].op \in {"cancel", "terminate"} => req[t].contract \in Contracts
      BY <1>1, <2>2 DEF RequestOK, FieldsOK, OnContract
    <3> QED BY <2>2, <3>1, <3>2, <3>3 DEF WillEnd, ContractsStay
  <2> QED BY <2>2, <2>5, <2>6 DEF EndApproved
<1>9. ASSUME NEW t \in Tx, Acts(t), ~AsksApproval(t) PROVE ApprovalLocks(t)' /\ EndApproved(t)'
  <2>1. ApprovalsStay /\ pc[t] \notin {"idle", "commit"}
    BY <1>9, Untouched, TableViews, ActsControl
  <2>2. /\ req'[t].op = req[t].op /\ req'[t].type = req[t].type /\ req'[t].from = req[t].from
        /\ req[t].op # "convert" => req'[t].contract = req[t].contract
    <3>1. \A f \in {"op", "type", "from"} : req'[t][f] = req[t][f]
      BY <1>9, ActsControl
    <3> QED BY <1>9, <3>1, ActsControl
  <2>3. pc'[t] \in {"end_contract", "free_unit"} \/ WillEnd(t)' =>
          pc[t] \in {"end_contract", "free_unit"} /\ req[t].op \in {"cancel", "terminate"}
    <3>1. pc'[t] # "end_contract" /\ (pc'[t] = "free_unit" => MovesContract(t) /\ pc[t] = "end_contract")
      BY <1>9 DEF Acts, InsertsReservation, ChangesUnit, MovesReservation, LooksForHolder,
         InsertsContract, EditsContract, MovesContract, ListsLines, PlansLines, BillsLine,
         AsksApproval, UpdatesLine, Logs, Goes
    <3>2. WillEnd(t)' => ChangesUnit(t) /\ req[t].op \in {"cancel", "terminate"}
      BY <1>9, <2>2, CommitComes DEF WillEnd
    <3>3. ChangesUnit(t) /\ req[t].op \in {"cancel", "terminate"} => pc[t] = "free_unit"
      BY <1>1, <2>1 DEF ChangesUnit, UnitStatusAt, RequestOK, StatementsOf
    <3>4. MovesContract(t) /\ pc[t] = "end_contract" => req[t].op \in {"cancel", "terminate"}
      BY DEF MovesContract
    <3> QED BY <3>1, <3>2, <3>3, <3>4
  <2>4. EndApproved(t)'
    BY <1>1, <1>5, <2>1, <2>2, <2>3 DEF EndApproved
  <2> QED BY <1>5, <2>1, <2>4
<1>10. CASE /\ SettlesOther
            /\ \A x \in Tx : LockedStays(x) /\ pc'[x] = pc[x] /\ req'[x] = req[x]
  BY <1>2, <1>10, ApprovalsOfOthers DEF ApprovalsSound
<1>11. ASSUME NEW t \in Tx, Begun(t) \/ Acts(t) \/ Ends(t), OthersStay(t),
              \A x \in Tx \ {t} : LockedStays(x)
       PROVE  ApprovalsSound'
  <2>1. ApprovalLocks(t)' /\ EndApproved(t)'
    BY <1>6, <1>7, <1>8, <1>9, <1>11
  <2>2. \A x \in Tx \ {t} : ApprovalLocks(x)' /\ EndApproved(x)'
    BY <1>3, <1>11, ApprovalsOfOthers DEF OthersStay
  <2> QED BY <2>1, <2>2 DEF ApprovalsSound
<1> QED BY <1>10, <1>11, WholeSteps

\* An active contract is cancelled or terminated only after a request for just
\* that was approved, whoever asks for approvals, decides them or ends the
\* contract at the same time: what the handler read as approved cannot be
\* undone before it commits.
THEOREM EndingNeedsApproval == Spec => EndedByApproval
<1>1. Init => ApprovalsSound
  <2>1. Init => /\ \A t \in Tx : pc[t] = "idle"
                /\ \A a \in ApprovalIds : owner["approval_requests"][a] = Nil
    BY InitFacts DEF TableName, Rows
  <2> QED BY <2>1, NilAssumption DEF ApprovalsSound, ApprovalLocks, EndApproved, WillEnd
<1>2. Sound /\ ApprovalsSound /\ [Next]_vars => ApprovalsSound'
  BY ApprovalsNext DEF Sound
<1> DEFINE NeedsApproval(c, type, status) == StatusOf(c) = "active" /\ StatusOf(c)' = status =>
                                         Approved(c, type)
<1>3. ASSUME Sound, ApprovalsSound, [Next]_vars, NEW c \in Contracts
      PROVE  /\ NeedsApproval(c, "contract_cancellation", "cancelled")
             /\ NeedsApproval(c, "contract_termination", "terminated")
  <2> SUFFICES ASSUME StatusOf(c) = "active", StatusOf(c)' \in {"cancelled", "terminated"}
               PROVE  Approved(c, IF StatusOf(c)' = "cancelled" THEN "contract_cancellation"
                                                                ELSE "contract_termination")
    OBVIOUS
  <2>1. ~Unmoved(c)
    BY DEF Unmoved
  <2>2. PICK t \in Tx : CommitsMove(t, c)
    BY <1>3, <2>1, CommittedMoves DEF CommitsMove
  <2>3. /\ c = req[t].contract /\ ConLocker(c) = t /\ pc[t] = "commit" /\ RequestOK(t)
        /\ From(req[t]) = "active" /\ StatusOf(c)' = To[req[t].op] /\ req[t].op \in Mover
    BY <1>3, <2>2, TypedRows DEF CommitsMove, Commits, Sound
  <2>4. req[t].op = IF StatusOf(c)' = "cancelled" THEN "cancel" ELSE "terminate"
    BY <2>3 DEF To, Mover
  <2>5. /\ req[t].from = "active"
        /\ req[t].type = IF StatusOf(c)' = "cancelled" THEN "contract_cancellation"
                                                       ELSE "contract_termination"
    BY <2>3, <2>4 DEF From, RequestOK, FieldsOK
  <2>6. WillEnd(t)
    BY <2>3, <2>4 DEF WillEnd
  <2> QED BY <1>3, <2>3, <2>5, <2>6 DEF ApprovalsSound, EndApproved
<1>4. Sound /\ ApprovalsSound /\ [Next]_vars =>
        [\A c \in Contracts, end \in {<<"contract_cancellation", "cancelled">>,
                                      <<"contract_termination", "terminated">>} :
           StatusOf(c) = "active" /\ StatusOf(c)' = end[2] => Approved(c, end[1])]_vars
  BY <1>3
<1> QED BY <1>1, <1>2, <1>4, SpecSound, PTL DEF Spec, EndedByApproval, Approved

-----------------------------------------------------------------------------
(***************************************************************************)
(* What is activated is billed.                                            *)
(***************************************************************************)
\* What t reads: what it has written, or what is committed.
LEMMA Sights ==
  ASSUME NEW t, NEW l
  PROVE  /\ LineOf(t, l) = IF LineLocker(l) = t THEN NewLine(l) ELSE Line(l)
         /\ ReceivableOf(t, l) = IF RecLocker(l) = t THEN NewRec(l) ELSE Rec(l)
         /\ LineOf(t, l)' = IF LineLocker(l)' = t' THEN NewLine(l)' ELSE Line(l)'
         /\ ReceivableOf(t, l)' = IF RecLocker(l)' = t' THEN NewRec(l)' ELSE Rec(l)'
BY DEF LineOf, ReceivableOf, Sees, Line, NewLine, LineLocker, Rec, NewRec, RecLocker

LEMMA LineFacts ==
  /\ "installment_schedule_lines" \in TableName /\ Rows["installment_schedule_lines"] = Lines
  /\ "receivables" \in TableName /\ Rows["receivables"] = Lines
  /\ \A n \in LineNos : 1 \in LineNos
  /\ \A c \in Contracts, n \in LineNos : <<c, n>> \in Lines
  /\ \A l \in Lines : l[1] \in Contracts /\ l[2] \in LineNos /\ l = <<l[1], l[2]>>
<1>1. \A n \in LineNos : n \in Nat \ {0} /\ 1..n \subseteq LineNos
  BY SalesAssumption
<1>2. \A n \in Nat \ {0} : 1 \in 1..n
  OBVIOUS
<1> QED BY <1>1, <1>2 DEF TableName, Rows, Lines

\* What is committed of lines and receivables stays, what is billed too, and
\* if there are new lines there were none before.
LinesGrow ==
  /\ \A l \in Lines :
       /\ Line(l) # NoLine => Line(l)' # NoLine
       /\ Line(l).receivable => Line(l)'.receivable
       /\ Rec(l) # NoReceivable => Rec(l)' # NoReceivable
  /\ \A c \in Contracts, n \in LineNos :
       Line(<<c, n>>) = NoLine /\ Line(<<c, n>>)' # NoLine =>
         /\ Line(<<c, 1>>) = NoLine
         /\ \E t \in Tx : Ends(t) /\ LineLocker(<<c, 1>>) = t

LEMMA LinesDoGrow ==
  ASSUME Typed, LinesSound, [Next]_vars
  PROVE  LinesGrow
<1>1. CASE SettlesOther
  <2>1. LinesStay
    BY <1>1, Untouched, TableViews DEF TableName
  <2>2. \A l \in Lines : Rec(l) # NoReceivable => Rec(l)' # NoReceivable
    <3>1. UNCHANGED storage => \A l \in Lines : Rec(l)' = Rec(l)
      BY DEF storage, Rec
    <3>2. ASSUME NEW k \in Lines, NEW row \in ReceivableRow, row # NoReceivable,
                 ReplacesRow("receivables", k, row), NEW l \in Lines
          PROVE  Rec(l)' \in {row, Rec(l)}
      BY <3>2, LineFacts DEF ReplacesRow, RowReplaced, OthersStayBut, RowStays, Rec
    <3>3. ASSUME NEW tab \in {"units", "approval_requests"}, NEW id, NEW row,
                 ReplacesRow(tab, id, row)
          PROVE  \A l \in Lines : Rec(l)' = Rec(l)
      BY <3>3, LineFacts DEF ReplacesRow, OthersStayBut, TableStays, RowStays, Rec
    <3> QED BY <1>1, <3>1, <3>2, <3>3 DEF SettlesOther, UnitEntered
  <2> QED BY <2>1, <2>2, LineFacts DEF LinesStay, LinesGrow
<1>2. ASSUME \A tab \in TableName : \A id \in Rows[tab] : db'[tab][id] = db[tab][id]
      PROVE  LinesGrow
  <2>1. \A l \in Lines : Line(l)' = Line(l) /\ Rec(l)' = Rec(l)
    BY <1>2, LineFacts DEF Line, Rec
  <2> QED BY <2>1, LineFacts DEF LinesGrow
<1>3. ASSUME NEW t \in Tx, Ends(t), Commits(t) PROVE LinesGrow
  <2>1. \A l \in Lines : /\ Line(l)' = IF LineLocker(l) = t THEN NewLine(l) ELSE Line(l)
                         /\ Rec(l)' = IF RecLocker(l) = t THEN NewRec(l) ELSE Rec(l)
    BY <1>3, LineFacts DEF Commits, CommitsRows, Line, NewLine, LineLocker, Rec, NewRec, RecLocker
  <2>2. LineLocks(t) /\ ReceivableLocks(t)
    BY DEF LinesSound
  <2>3. \A c \in Contracts, n \in LineNos : LineLocker(<<c, n>>) = t =>
          /\ NewLine(<<c, n>>) # NoLine
          /\ Line(<<c, n>>).receivable => NewLine(<<c, n>>).receivable
          /\ Line(<<c, n>>) = NoLine =>
               LineLocker(<<c, 1>>) = t /\ Line(<<c, 1>>) = NoLine
    BY <2>2 DEF LineLocks
  <2>4. \A l \in Lines : RecLocker(l) = t => NewRec(l) # NoReceivable
    BY <2>2 DEF ReceivableLocks
  <2>5. ASSUME NEW l \in Lines
        PROVE  /\ Line(l) # NoLine => Line(l)' # NoLine
               /\ Line(l).receivable => Line(l)'.receivable
               /\ Rec(l) # NoReceivable => Rec(l)' # NoReceivable
    <3>1. PICK c \in Contracts, n \in LineNos : l = <<c, n>>
      BY LineFacts
    <3> QED BY <2>1, <2>3, <2>4, <3>1
  <2>6. ASSUME NEW c \in Contracts, NEW n \in LineNos,
               Line(<<c, n>>) = NoLine, Line(<<c, n>>)' # NoLine
        PROVE  Line(<<c, 1>>) = NoLine /\ LineLocker(<<c, 1>>) = t
    BY <2>1, <2>3, <2>6, LineFacts
  <2> QED BY <1>3, <2>5, <2>6 DEF LinesGrow
<1> QED BY <1>1, <1>2, <1>3, CommitOrStay

\* What another transaction sees of its contract's lines stays so.
LEMMA LinesOfOthers ==
  ASSUME Typed, LinesSound, LinesGrow, NEW x \in Tx, LockedStays(x),
         ~Ends(x), pc'[x] = pc[x], req'[x] = req[x], todo'[x] = todo[x]
  PROVE  LineLocks(x)' /\ ReceivableLocks(x)' /\ BillsAll(x)'
<1>1. /\ LineLocks(x) /\ ReceivableLocks(x) /\ BillsAll(x) /\ RequestOK(x) /\ TodoOK(x)
  BY TypedRows DEF LinesSound
<1>2. \A l \in Lines :
        /\ LineLocker(l)' = x <=> LineLocker(l) = x
        /\ LineLocker(l) = x => Line(l)' = Line(l) /\ NewLine(l)' = NewLine(l)
        /\ RecLocker(l)' = x <=> RecLocker(l) = x
        /\ RecLocker(l) = x => NewRec(l)' = NewRec(l)
  BY LineFacts DEF LockedStays, Line, NewLine, LineLocker, Rec, NewRec, RecLocker
<1>3. \A l \in Lines : ReceivableOf(x, l) # NoReceivable => ReceivableOf(x, l)' # NoReceivable
  BY <1>2, Sights DEF LinesGrow
<1>4. LineLocks(x)'
  <2> SUFFICES ASSUME NEW c \in Contracts, NEW n \in LineNos, LineLocker(<<c, n>>)' = x
               PROVE  (/\ \/ req[x].op = "activate" /\ pc[x] \in {"bill_lines", "sell_unit", "commit"}
                          \/ req[x].op \in {"generate", "update_line"} /\ pc[x] = "commit"
                       /\ c = req[x].contract
                       /\ NewLine(<<c, n>>) # NoLine
                       /\ Line(<<c, n>>).receivable => NewLine(<<c, n>>).receivable
                       /\ NewLine(<<c, n>>).receivable /\ ~Line(<<c, n>>).receivable =>
                            ReceivableOf(x, <<c, n>>) # NoReceivable
                       /\ Line(<<c, n>>) = NoLine =>
                            LineLocker(<<c, 1>>) = x /\ Line(<<c, 1>>) = NoLine)'
    BY DEF LineLocks
  <2>1. <<c, n>> \in Lines /\ <<c, 1>> \in Lines
    BY LineFacts
  <2>2. /\ LineLocker(<<c, n>>) = x /\ Line(<<c, n>>)' = Line(<<c, n>>)
        /\ NewLine(<<c, n>>)' = NewLine(<<c, n>>)
    BY <1>2, <2>1
  <2>3. /\ \/ req[x].op = "activate" /\ pc[x] \in {"bill_lines", "sell_unit", "commit"}
           \/ req[x].op \in {"generate", "update_line"} /\ pc[x] = "commit"
        /\ c = req[x].contract
        /\ NewLine(<<c, n>>) # NoLine
        /\ Line(<<c, n>>).receivable => NewLine(<<c, n>>).receivable
        /\ NewLine(<<c, n>>).receivable /\ ~Line(<<c, n>>).receivable =>
             ReceivableOf(x, <<c, n>>) # NoReceivable
        /\ Line(<<c, n>>) = NoLine =>
             LineLocker(<<c, 1>>) = x /\ Line(<<c, 1>>) = NoLine
    BY <1>1, <2>2 DEF LineLocks
  <2>4. ReceivableOf(x, <<c, n>>) # NoReceivable => ReceivableOf(x, <<c, n>>)' # NoReceivable
    BY <1>3, <2>1
  <2>5. Line(<<c, n>>)' = NoLine => LineLocker(<<c, 1>>)' = x /\ Line(<<c, 1>>)' = NoLine
    BY <1>2, <2>1, <2>2, <2>3
  <2> QED BY <2>2, <2>3, <2>4, <2>5
<1>5. ReceivableLocks(x)'
  BY <1>1, <1>2 DEF ReceivableLocks
<1>6. \A l \in Lines : LineOf(x, l) # NoLine => LineOf(x, l)' # NoLine
  BY <1>2, Sights DEF LinesGrow
<1>7. \A l \in Lines : LineOf(x, l).receivable => LineOf(x, l)'.receivable
  BY <1>2, Sights DEF LinesGrow
<1>8. ASSUME NEW c \in Contracts, NEW n \in LineNos, SeesLine(x, c, 1), ~SeesLine(x, c, n)
      PROVE  ~SeesLine(x, c, n)'
  <2>1. <<c, n>> \in Lines /\ <<c, 1>> \in Lines
    BY LineFacts
  <2>2. LineOf(x, <<c, 1>>) # NoLine /\ LineOf(x, <<c, n>>) = NoLine
    BY <1>8 DEF SeesLine
  <2>3. CASE LineLocker(<<c, n>>) = x
    BY <1>2, <2>1, <2>2, <2>3, Sights DEF SeesLine
  <2>4. CASE LineLocker(<<c, n>>) # x /\ Line(<<c, n>>)' = NoLine
    BY <1>2, <2>1, <2>4, Sights DEF SeesLine
  <2>5. CASE LineLocker(<<c, n>>) # x /\ Line(<<c, n>>)' # NoLine
    <3>1. Line(<<c, n>>) = NoLine
      BY <2>2, <2>5, Sights
    <3>2. Line(<<c, 1>>) = NoLine /\ \E t \in Tx : Ends(t) /\ LineLocker(<<c, 1>>) = t
      BY <2>5, <3>1 DEF LinesGrow
    <3>3. LineLocker(<<c, 1>>) = x
      BY <2>2, <3>2, Sights
    <3> QED BY <3>2, <3>3
  <2> QED BY <2>3, <2>4, <2>5
<1>9. BillsAll(x)'
  <2>1. CASE pc[x] \in {"bill_lines", "sell_unit", "commit"} /\ req[x].op = "activate"
    <3>1. PICK c \in Contracts : c = req[x].contract
      BY <1>1, <2>1 DEF RequestOK, FieldsOK, OnContract
    <3>2. /\ 1 \in LineNos /\ SeesLine(x, c, 1)
          /\ \A n \in LineNos : SeesLine(x, c, n) =>
               SeesBilled(x, c, n) \/ (pc[x] = "bill_lines" /\ n \in DOMAIN todo[x])
          /\ pc[x] = "bill_lines" => \A n \in DOMAIN todo[x] : SeesLine(x, c, n)
      BY <1>1, <2>1, <3>1 DEF BillsAll
    <3>3. \A n \in LineNos : /\ SeesLine(x, c, n) => SeesLine(x, c, n)'
                             /\ SeesBilled(x, c, n) => SeesBilled(x, c, n)'
      BY <1>3, <1>6, <1>7, LineFacts DEF SeesLine, SeesBilled
    <3> QED BY <1>1, <1>8, <2>1, <3>1, <3>2, <3>3 DEF BillsAll, TodoOK
  <2>2. CASE pc[x] = "update_line"
    <3>1. req[x].contract \in Contracts /\ req[x].line \in LineNos
      BY <1>1, <2>2 DEF RequestOK, FieldsOK, OnContract, StatementsOf
    <3>2. SeesLine(x, req[x].contract, req[x].line)
      BY <1>1, <2>2 DEF BillsAll
    <3> QED BY <1>6, <2>2, <3>1, <3>2, LineFacts DEF BillsAll, SeesLine
  <2> QED BY <2>1, <2>2 DEF BillsAll
<1> QED BY <1>4, <1>5, <1>9

\* Before the statements that write lines, t has written none.
LEMMA NoLinesLocked ==
  ASSUME LinesSound, NEW t \in Tx, NEW l \in Lines,
         pc[t] \notin {"bill_lines", "sell_unit", "commit"}
  PROVE  LineLocker(l) # t /\ RecLocker(l) # t
<1>1. PICK c \in Contracts, n \in LineNos : l = <<c, n>>
  BY LineFacts
<1>2. LineLocks(t) /\ ReceivableLocks(t)
  BY DEF LinesSound
<1> QED BY <1>1, <1>2 DEF LineLocks, ReceivableLocks

\* A statement that writes neither lines nor receivables.
LEMMA LinesIdle ==
  ASSUME Typed, LinesSound, NEW t \in Tx, Acts(t),
         ~ListsLines(t), ~PlansLines(t), ~BillsLine(t), ~UpdatesLine(t)
  PROVE  LineLocks(t)' /\ ReceivableLocks(t)' /\ BillsAll(t)'
<1>1. /\ LineLocks(t) /\ ReceivableLocks(t) /\ BillsAll(t) /\ RequestOK(t) /\ TodoOK(t)
      /\ LinesStay /\ ReceivablesStay
  BY TypedRows, Untouched, TableViews DEF LinesSound
<1>2. /\ pc[t] \notin {"idle", "commit"} /\ req'[t].op = req[t].op
      /\ req[t].op # "convert" => req'[t].contract = req[t].contract
  <2>1. \A f \in {"op"} : req'[t][f] = req[t][f]
    BY ActsControl
  <2> QED BY <2>1, ActsControl
<1>3. /\ pc[t] = "bill_lines" => pc'[t] = "sell_unit" /\ DOMAIN todo[t] = {}
      /\ pc[t] = "sell_unit" => pc'[t] = "commit"
      /\ pc'[t] # "bill_lines" /\ pc'[t] # "update_line"
      /\ pc'[t] = "commit" /\ req[t].op = "activate" => pc[t] = "sell_unit"
      /\ pc'[t] = "sell_unit" => pc[t] = "bill_lines"
  <2>1. CASE ChangesUnit(t) \/ AsksApproval(t) \/ MovesContract(t)
    BY <1>1, <1>2, <2>1 DEF ChangesUnit, AsksApproval, MovesContract, Logs, Goes,
       UnitStatusAt, RequestOK, StatementsOf
  <2>2. CASE InsertsReservation(t) \/ MovesReservation(t) \/ LooksForHolder(t)
             \/ InsertsContract(t) \/ EditsContract(t)
    BY <1>1, <1>2, <2>2 DEF InsertsReservation, MovesReservation, LooksForHolder, InsertsContract,
       EditsContract, Logs, Goes
  <2> QED BY <2>1, <2>2 DEF Acts
<1>4. \A l \in Lines :
        /\ Line(l)' = Line(l) /\ NewLine(l)' = NewLine(l) /\ LineLocker(l)' = LineLocker(l)
        /\ NewRec(l)' = NewRec(l) /\ RecLocker(l)' = RecLocker(l)
        /\ LineOf(t, l)' = LineOf(t, l) /\ ReceivableOf(t, l)' = ReceivableOf(t, l)
  BY <1>1, Sights DEF LinesStay, ReceivablesStay
<1>5. \A c \in Contracts, n \in LineNos : /\ SeesLine(t, c, n)' <=> SeesLine(t, c, n)
                                          /\ SeesBilled(t, c, n)' <=> SeesBilled(t, c, n)
  BY <1>4, LineFacts DEF SeesLine, SeesBilled
<1>6. LineLocks(t)'
  <2> SUFFICES ASSUME NEW c \in Contracts, NEW n \in LineNos, LineLocker(<<c, n>>)' = t
               PROVE  (/\ \/ req[t].op = "activate" /\ pc[t] \in {"bill_lines", "sell_unit", "commit"}
                          \/ req[t].op \in {"generate", "update_line"} /\ pc[t] = "commit"
                       /\ c = req[t].contract
                       /\ NewLine(<<c, n>>) # NoLine
                       /\ Line(<<c, n>>).receivable => NewLine(<<c, n>>).receivable
                       /\ NewLine(<<c, n>>).receivable /\ ~Line(<<c, n>>).receivable =>
                            ReceivableOf(t, <<c, n>>) # NoReceivable
                       /\ Line(<<c, n>>) = NoLine =>
                            LineLocker(<<c, 1>>) = t /\ Line(<<c, 1>>) = NoLine)'
    BY DEF LineLocks
  <2>1. <<c, n>> \in Lines /\ <<c, 1>> \in Lines /\ LineLocker(<<c, n>>) = t
    BY <1>4, LineFacts
  <2> QED BY <1>1, <1>2, <1>3, <1>4, <2>1 DEF LineLocks
<1>7. ReceivableLocks(t)'
  BY <1>1, <1>2, <1>3, <1>4 DEF ReceivableLocks
<1>8. BillsAll(t)'
  <2>1. req[t].op = "activate" => req[t].contract \in Contracts
    BY <1>1, <1>2 DEF RequestOK, FieldsOK, OnContract
  <2> QED BY <1>1, <1>2, <1>3, <1>5, <2>1 DEF BillsAll
<1> QED BY <1>6, <1>7, <1>8

\* An activation reads the lines there are.
LEMMA LinesListed ==
  ASSUME Typed, LinesSound, NEW t \in Tx, ListsLines(t)
  PROVE  LineLocks(t)' /\ ReceivableLocks(t)' /\ BillsAll(t)'
<1>1. /\ pc[t] = "list_lines" /\ pc'[t] = "bill_lines" /\ req'[t] = req[t]
      /\ req[t].contract \in Contracts /\ LinesStay /\ ReceivablesStay
  BY Untouched, TableViews DEF ListsLines, TableName
<1>2. \A l \in Lines : /\ LineLocker(l)' # t /\ RecLocker(l)' # t
                       /\ LineOf(t, l)' = Line(l) /\ ReceivableOf(t, l)' = Rec(l)
                       /\ LineOf(t, l) = Line(l)
  BY <1>1, NoLinesLocked, Sights DEF LinesStay, ReceivablesStay
<1>3. LineLocks(t)' /\ ReceivableLocks(t)'
  BY <1>2, LineFacts DEF LineLocks, ReceivableLocks
<1>4. PICK c \in Contracts : c = req[t].contract
  BY <1>1
<1>5. /\ \E n \in LineNos : LineOf(t, <<c, n>>) # NoLine
      /\ DOMAIN todo'[t] = {m \in LineNos : /\ LineOf(t, <<c, m>>) # NoLine
                                            /\ ~LineOf(t, <<c, m>>).receivable}
  BY <1>4 DEF ListsLines
<1>6. /\ \A n \in LineNos : SeesLine(t, c, n)' <=> Line(<<c, n>>) # NoLine
      /\ \A n \in LineNos : Line(<<c, n>>).receivable => SeesBilled(t, c, n)'
  <2>1. \A n \in LineNos : /\ <<c, n>> \in Lines
                           /\ Line(<<c, n>>).receivable => Rec(<<c, n>>) # NoReceivable
    BY LineFacts DEF LinesSound, LinesInOrder
  <2> QED BY <1>2, <2>1 DEF SeesLine, SeesBilled
<1>7. 1 \in LineNos /\ Line(<<c, 1>>) # NoLine
  BY <1>2, <1>5, LineFacts DEF LinesSound, LinesInOrder
<1>8. \A n \in LineNos : Line(<<c, n>>) # NoLine =>
        Line(<<c, n>>).receivable \/ n \in DOMAIN todo'[t]
  BY <1>2, <1>5, LineFacts
<1>9. \A n \in DOMAIN todo'[t] : n \in LineNos /\ Line(<<c, n>>) # NoLine
  BY <1>2, <1>5, LineFacts
<1>10. BillsAll(t)'
  BY <1>1, <1>4, <1>6, <1>7, <1>8, <1>9 DEF BillsAll
<1> QED BY <1>3, <1>10

\* The lines of the plan are inserted all at once, and for the first time.
LEMMA LinesPlanned ==
  ASSUME Typed, LinesSound, NEW t \in Tx, PlansLines(t)
  PROVE  LineLocks(t)' /\ ReceivableLocks(t)' /\ BillsAll(t)'
<1>1. PICK c \in Contracts : c = req[t].contract
  BY DEF PlansLines
<1>2. PICK principal \in Schedules :
        /\ InsertsPlan(t, c, principal)
        /\ \/ /\ pc[t] = "list_lines" /\ pc'[t] = "bill_lines" /\ req[t].op = "activate"
              /\ \A n \in LineNos : LineOf(t, <<c, n>>) = NoLine
              /\ todo'[t] = principal
           \/ pc[t] = "insert_lines" /\ pc'[t] = "commit" /\ req[t].op = "generate"
  BY <1>1 DEF PlansLines, Logs
<1>3. req'[t] = req[t] /\ pc[t] \notin {"bill_lines", "sell_unit", "commit"}
  BY DEF PlansLines, Logs
<1>4. \A l \in Lines : LineLocker(l) # t /\ RecLocker(l) # t
  BY <1>3, NoLinesLocked
<1>5. /\ DOMAIN principal \subseteq LineNos /\ 1 \in DOMAIN principal
      /\ \A n \in DOMAIN principal :
           /\ Line(<<c, n>>) = NoLine /\ Line(<<c, n>>)' = NoLine
           /\ LineLocker(<<c, n>>)' = t
           /\ NewLine(<<c, n>>)' # NoLine /\ ~NewLine(<<c, n>>)'.receivable
  <2>1. /\ DOMAIN principal \subseteq LineNos /\ 1 \in DOMAIN principal
        /\ \A n \in DOMAIN principal :
             /\ principal[n] \in Principals /\ NewLine(<<c, n>>) = NoLine
             /\ RowWritten(t, "installment_schedule_lines", <<c, n>>,
                           [principal |-> principal[n], receivable |-> FALSE])
    BY <1>2 DEF InsertsPlan
  <2>2. ASSUME NEW n \in DOMAIN principal
        PROVE  /\ Line(<<c, n>>) = NoLine /\ Line(<<c, n>>)' = NoLine
               /\ LineLocker(<<c, n>>)' = t
               /\ NewLine(<<c, n>>)' # NoLine /\ ~NewLine(<<c, n>>)'.receivable
    <3>1. <<c, n>> \in Lines
      BY <2>1, LineFacts
    <3>2. /\ LineLocker(<<c, n>>) \in {Nil, t} /\ LineLocker(<<c, n>>)' = t
          /\ Line(<<c, n>>)' = Line(<<c, n>>)
          /\ NewLine(<<c, n>>)' = [principal |-> principal[n], receivable |-> FALSE]
      BY <2>1 DEF RowWritten, Line, NewLine, LineLocker
    <3>3. Line(<<c, n>>) = NoLine
      BY <1>4, <2>1, <3>1, <3>2, TypedRows
    <3>4. NewLine(<<c, n>>)' # NoLine /\ ~NewLine(<<c, n>>)'.receivable
      BY <2>1, <3>2, SalesAssumption DEF NoLine
    <3> QED BY <3>2, <3>3, <3>4
  <2> QED BY <2>1, <2>2
<1>6. \A l \in Lines : (l[1] = c => l[2] \notin DOMAIN principal) =>
        /\ LineLocker(l)' # t /\ LineOf(t, l)' = LineOf(t, l)
  BY <1>2, <1>4, LineFacts, Sights DEF InsertsPlan, RowStays, Line, NewLine, LineLocker
<1>7. \A l \in Lines : RecLocker(l)' # t
  BY <1>2, <1>4, LineFacts DEF InsertsPlan, TableStays, RowStays, RecLocker
<1>8. ASSUME NEW d \in Contracts, NEW n \in LineNos, LineLocker(<<d, n>>)' = t
      PROVE  d = c /\ n \in DOMAIN principal
  BY <1>6, <1>8, LineFacts
<1>9. LineLocks(t)' /\ ReceivableLocks(t)'
  <2>1. ReceivableLocks(t)'
    BY <1>7 DEF ReceivableLocks
  <2>2. ASSUME NEW d \in Contracts, NEW n \in LineNos, LineLocker(<<d, n>>)' = t
        PROVE  (/\ \/ req[t].op = "activate" /\ pc[t] \in {"bill_lines", "sell_unit", "commit"}
                   \/ req[t].op \in {"generate", "update_line"} /\ pc[t] = "commit"
                /\ d = req[t].contract
                /\ NewLine(<<d, n>>) # NoLine
                /\ Line(<<d, n>>).receivable => NewLine(<<d, n>>).receivable
                /\ NewLine(<<d, n>>).receivable /\ ~Line(<<d, n>>).receivable =>
                     ReceivableOf(t, <<d, n>>) # NoReceivable
                /\ Line(<<d, n>>) = NoLine =>
                     LineLocker(<<d, 1>>) = t /\ Line(<<d, 1>>) = NoLine)'
    <3>1. d = c /\ n \in DOMAIN principal
      BY <1>8, <2>2
    <3>2. /\ NewLine(<<d, n>>)' # NoLine /\ ~NewLine(<<d, n>>)'.receivable
          /\ Line(<<d, n>>)' = NoLine
          /\ LineLocker(<<d, 1>>)' = t /\ Line(<<d, 1>>)' = NoLine
      BY <1>5, <3>1
    <3>3. ~Line(<<d, n>>)'.receivable
      BY <3>2 DEF NoLine
    <3>4. \/ req'[t].op = "activate" /\ pc'[t] = "bill_lines"
          \/ req'[t].op = "generate" /\ pc'[t] = "commit"
      BY <1>2, <1>3
    <3>5. d = req'[t].contract
      BY <1>1, <1>3, <3>1
    <3> QED BY <3>2, <3>3, <3>4, <3>5
  <2> QED BY <2>1, <2>2 DEF LineLocks
<1>10. BillsAll(t)'
  <2>1. CASE pc'[t] = "commit" /\ req[t].op = "generate"
    BY <1>3, <2>1 DEF BillsAll
  <2>2. CASE pc'[t] = "bill_lines" /\ todo'[t] = principal
              /\ \A n \in LineNos : LineOf(t, <<c, n>>) = NoLine
    <3>1. \A n \in DOMAIN principal : SeesLine(t, c, n)'
      BY <1>5, Sights DEF SeesLine
    <3>2. \A n \in LineNos \ DOMAIN principal : ~SeesLine(t, c, n)'
      BY <1>6, <2>2, LineFacts DEF SeesLine
    <3>3. /\ 1 \in LineNos /\ SeesLine(t, c, 1)'
          /\ \A n \in LineNos : SeesLine(t, c, n)' => n \in DOMAIN todo'[t]
          /\ \A n \in DOMAIN todo'[t] : SeesLine(t, c, n)'
      BY <1>5, <2>2, <3>1, <3>2
    <3> QED BY <1>1, <1>3, <2>2, <3>3 DEF BillsAll
  <2> QED BY <1>2, <2>1, <2>2
<1> QED BY <1>9, <1>10

\* A line is billed: it has a receivable, and says so.
LEMMA LinesBilled ==
  ASSUME Typed, LinesSound, NEW t \in Tx, BillsLine(t)
  PROVE  LineLocks(t)' /\ ReceivableLocks(t)' /\ BillsAll(t)'
<1>1. PICK c \in Contracts : c = req[t].contract
  BY DEF BillsLine
<1>2. /\ pc[t] = "bill_lines" /\ pc'[t] = "bill_lines" /\ req[t].op = "activate"
      /\ req'[t] = req[t]
  BY DEF BillsLine
<1>3. PICK n \in DOMAIN todo[t] :
        /\ todo'[t] = [m \in DOMAIN todo[t] \ {n} |-> todo[t][m]]
        /\ RowWritten(t, "receivables", <<c, n>>,
                      [original |-> todo[t][n], status |-> "open"])
        /\ RowWritten(t, "installment_schedule_lines", <<c, n>>,
                      [NewLine(<<c, n>>) EXCEPT !.receivable = TRUE])
        /\ \A l \in Lines \ {<<c, n>>} :
             RowStays("receivables", l) /\ RowStays("installment_schedule_lines", l)
  BY <1>1 DEF BillsLine
<1>4. /\ LineLocks(t) /\ ReceivableLocks(t) /\ BillsAll(t) /\ TodoOK(t)
      /\ n \in LineNos /\ <<c, n>> \in Lines
  BY TypedRows, LineFacts DEF LinesSound, TodoOK
<1>5. PICK k \in Lines : k = <<c, n>>
  BY <1>4
<1>6. /\ Line(k)' = Line(k) /\ LineLocker(k)' = t /\ RecLocker(k)' = t
      /\ LineLocker(k) \in {Nil, t}
      /\ NewLine(k)'.receivable /\ NewLine(k)' # NoLine
      /\ NewRec(k)' # NoReceivable
  <2>1. /\ Line(k)' = Line(k) /\ LineLocker(k)' = t /\ RecLocker(k)' = t
        /\ LineLocker(k) \in {Nil, t}
        /\ NewLine(k)' = [NewLine(k) EXCEPT !.receivable = TRUE]
        /\ NewRec(k)' = [original |-> todo[t][n], status |-> "open"]
    BY <1>3, <1>5 DEF RowWritten, Line, NewLine, LineLocker, NewRec, RecLocker
  <2>2. NewLine(k) \in LineRow
    BY TypedRows
  <2>3. NewLine(k)'.receivable
    BY <2>1, <2>2 DEF LineRow
  <2>4. NewRec(k)' # NoReceivable
    BY <2>1 DEF NoReceivable
  <2> QED BY <2>1, <2>3, <2>4 DEF NoLine
<1>7. \A l \in Lines \ {k} :
        /\ Line(l)' = Line(l) /\ NewLine(l)' = NewLine(l) /\ LineLocker(l)' = LineLocker(l)
        /\ NewRec(l)' = NewRec(l) /\ RecLocker(l)' = RecLocker(l)
        /\ LineOf(t, l)' = LineOf(t, l) /\ ReceivableOf(t, l)' = ReceivableOf(t, l)
  <2>1. \A l \in Lines \ {k} :
          /\ Line(l)' = Line(l) /\ NewLine(l)' = NewLine(l) /\ LineLocker(l)' = LineLocker(l)
          /\ Rec(l)' = Rec(l) /\ NewRec(l)' = NewRec(l) /\ RecLocker(l)' = RecLocker(l)
    BY <1>3, <1>5 DEF RowStays, Line, NewLine, LineLocker, Rec, NewRec, RecLocker
  <2> QED BY <2>1, Sights
<1>8. LineOf(t, k)' # NoLine /\ LineOf(t, k)'.receivable /\ ReceivableOf(t, k)' # NoReceivable
  BY <1>6, Sights
<1>9. Line(k) = NoLine => LineLocker(k) = t
  <2>1. LineOf(t, k) # NoLine
    BY <1>1, <1>2, <1>4, <1>5 DEF BillsAll, SeesLine
  <2> QED BY <2>1, Sights
<1>10. LineLocks(t)'
  <2> SUFFICES ASSUME NEW d \in Contracts, NEW m \in LineNos, LineLocker(<<d, m>>)' = t
               PROVE  (/\ d = req[t].contract
                       /\ NewLine(<<d, m>>) # NoLine
                       /\ Line(<<d, m>>).receivable => NewLine(<<d, m>>).receivable
                       /\ NewLine(<<d, m>>).receivable /\ ~Line(<<d, m>>).receivable =>
                            ReceivableOf(t, <<d, m>>) # NoReceivable
                       /\ Line(<<d, m>>) = NoLine =>
                            LineLocker(<<d, 1>>) = t /\ Line(<<d, 1>>) = NoLine)'
    BY <1>2 DEF LineLocks
  <2>1. <<d, m>> \in Lines /\ <<d, 1>> \in Lines
    BY LineFacts
  <2>2. LineLocker(<<d, 1>>) = t /\ Line(<<d, 1>>) = NoLine =>
          LineLocker(<<d, 1>>)' = t /\ Line(<<d, 1>>)' = NoLine
    BY <1>6, <1>7, <2>1
  <2>3. CASE <<d, m>> = k
    <3>1. d = c /\ m = n
      BY <1>5, <2>3
    <3>2. Line(<<d, m>>) = NoLine => LineLocker(<<d, 1>>) = t /\ Line(<<d, 1>>) = NoLine
      BY <1>4, <1>9, <2>3 DEF LineLocks
    <3> QED BY <1>1, <1>2, <1>6, <1>8, <2>2, <2>3, <3>1, <3>2
  <2>4. CASE <<d, m>> # k
    <3>1. LineLocker(<<d, m>>) = t
      BY <1>7, <2>1, <2>4
    <3>2. /\ d = req[t].contract
          /\ NewLine(<<d, m>>) # NoLine
          /\ Line(<<d, m>>).receivable => NewLine(<<d, m>>).receivable
          /\ NewLine(<<d, m>>).receivable /\ ~Line(<<d, m>>).receivable =>
               ReceivableOf(t, <<d, m>>) # NoReceivable
          /\ Line(<<d, m>>) = NoLine =>
               LineLocker(<<d, 1>>) = t /\ Line(<<d, 1>>) = NoLine
      BY <1>4, <3>1 DEF LineLocks
    <3> QED BY <1>2, <1>7, <2>1, <2>2, <2>4, <3>2
  <2> QED BY <2>3, <2>4
<1>11. ReceivableLocks(t)'
  BY <1>2, <1>4, <1>6, <1>7 DEF ReceivableLocks
<1>12. BillsAll(t)'
  <2>1. \A m \in LineNos : m # n => /\ SeesLine(t, c, m)' <=> SeesLine(t, c, m)
                                    /\ SeesBilled(t, c, m)' <=> SeesBilled(t, c, m)
    BY <1>5, <1>7, LineFacts DEF SeesLine, SeesBilled
  <2>2. SeesLine(t, c, n)' /\ SeesBilled(t, c, n)'
    BY <1>5, <1>8 DEF SeesLine, SeesBilled
  <2>3. DOMAIN todo'[t] = DOMAIN todo[t] \ {n}
    BY <1>3
  <2>4. /\ 1 \in LineNos /\ SeesLine(t, c, 1)
        /\ \A m \in LineNos : SeesLine(t, c, m) => SeesBilled(t, c, m) \/ m \in DOMAIN todo[t]
        /\ \A m \in DOMAIN todo[t] : m \in LineNos /\ SeesLine(t, c, m)
    BY <1>1, <1>2, <1>4 DEF BillsAll, TodoOK
  <2>5. /\ SeesLine(t, c, 1)'
        /\ \A m \in LineNos : SeesLine(t, c, m)' => SeesBilled(t, c, m)' \/ m \in DOMAIN todo'[t]
        /\ \A m \in DOMAIN todo'[t] : SeesLine(t, c, m)'
    BY <2>1, <2>2, <2>3, <2>4
  <2> QED BY <1>1, <1>2, <2>4, <2>5 DEF BillsAll
<1> QED BY <1>10, <1>11, <1>12

\* A line of a draft is changed.
LEMMA LinesUpdated ==
  ASSUME Typed, LinesSound, NEW t \in Tx, UpdatesLine(t)
  PROVE  LineLocks(t)' /\ ReceivableLocks(t)' /\ BillsAll(t)'
<1>1. PICK c \in Contracts, n \in LineNos : c = req[t].contract /\ n = req[t].line
  BY DEF UpdatesLine
<1>2. /\ pc[t] = "update_line" /\ req[t].op = "update_line" /\ pc'[t] = "commit"
      /\ req'[t] = req[t] /\ req[t].principal \in Principals
      /\ WritesRow(t, "installment_schedule_lines", <<c, n>>,
                   [NewLine(<<c, n>>) EXCEPT !.principal = req[t].principal])
  BY <1>1 DEF UpdatesLine, Logs
<1>3. PICK k \in Lines : k = <<c, n>>
  BY LineFacts
<1>4. \A l \in Lines : LineLocker(l) # t /\ RecLocker(l) # t
  BY <1>2, NoLinesLocked
<1>5. /\ \A l \in Lines \ {k} : LineLocker(l)' # t
      /\ \A l \in Lines : RecLocker(l)' # t
  BY <1>2, <1>3, <1>4, LineFacts DEF WritesRow, OthersStayBut, TableStays, RowStays,
     LineLocker, RecLocker
<1>6. /\ Line(k)' = Line(k) /\ LineLocker(k) \in {Nil, t}
      /\ NewLine(k)' = [NewLine(k) EXCEPT !.principal = req[t].principal]
  BY <1>2, <1>3 DEF WritesRow, RowWritten, Line, NewLine, LineLocker
<1>7. Line(k) # NoLine /\ NewLine(k) = Line(k) /\ Line(k) \in LineRow
  <2>1. LineOf(t, k) # NoLine
    BY <1>1, <1>2, <1>3 DEF LinesSound, BillsAll, SeesLine
  <2> QED BY <1>4, <1>6, <2>1, Sights, TypedRows
<1>8. NewLine(k)' # NoLine /\ NewLine(k)'.receivable = Line(k).receivable
  BY <1>2, <1>6, <1>7, SalesAssumption DEF NoLine, LineRow
<1>9. ASSUME NEW d \in Contracts, NEW m \in LineNos, LineLocker(<<d, m>>)' = t
      PROVE  d = c /\ <<d, m>> = k
  BY <1>3, <1>5, <1>9, LineFacts
<1>10. LineLocks(t)' /\ ReceivableLocks(t)'
  BY <1>1, <1>2, <1>5, <1>6, <1>7, <1>8, <1>9 DEF LineLocks, ReceivableLocks
<1>11. BillsAll(t)'
  BY <1>2 DEF BillsAll
<1> QED BY <1>10, <1>11

\* What is said of lines stays true of whoever takes a step.
LEMMA LinesOwn ==
  ASSUME Typed, LinesSound, NEW t \in Tx, Begun(t) \/ Acts(t) \/ Ends(t)
  PROVE  LineLocks(t)' /\ ReceivableLocks(t)' /\ BillsAll(t)'
<1>1. CASE Begun(t)
  <2>1. pc[t] = "idle" /\ LinesStay /\ ReceivablesStay
    BY <1>1, Untouched, TableViews DEF Begun, TableName
  <2>2. \A l \in Lines : /\ LineLocker(l)' # t /\ RecLocker(l)' # t
                         /\ LineOf(t, l)' = LineOf(t, l)
    BY <2>1, NoLinesLocked, Sights DEF LinesStay, ReceivablesStay
  <2>3. LineLocks(t)' /\ ReceivableLocks(t)'
    BY <2>2, LineFacts DEF LineLocks, ReceivableLocks
  <2>4. CASE pc'[t] = "update_line"
    <3>1. req'[t].op = "update_line"
      BY <1>1, <2>4 DEF Begun, StatementsOf
    <3>2. req'[t].contract \in Contracts /\ req'[t].line \in LineNos
      BY <1>1, <3>1 DEF Begun, FieldsOK, OnContract
    <3>3. PICK c \in Contracts, n \in LineNos : c = req'[t].contract /\ n = req'[t].line
      BY <3>2
    <3>4. LineOf(t, <<c, n>>)' # NoLine
      BY <1>1, <2>2, <2>4, <3>3, LineFacts DEF Begun
    <3> QED BY <2>3, <2>4, <3>3, <3>4 DEF BillsAll, SeesLine
  <2>5. CASE pc'[t] # "update_line"
    <3>1. pc'[t] \notin {"bill_lines", "sell_unit", "commit"}
      BY <1>1 DEF Begun, FirstStatement
    <3> QED BY <2>3, <2>5, <3>1 DEF BillsAll
  <2> QED BY <2>4, <2>5
<1>2. CASE Ends(t)
  <2>1. pc'[t] = "idle" /\ \A l \in Lines : LineLocker(l)' # t /\ RecLocker(l)' # t
    BY <1>2, NilAssumption, LineFacts DEF Ends, Commits, RollsBack, CommitsRows, RollsBackRows,
       LineLocker, RecLocker
  <2> QED BY <2>1, LineFacts DEF LineLocks, ReceivableLocks, BillsAll
<1>3. CASE Acts(t)
  BY <1>3, LinesIdle, LinesListed, LinesPlanned, LinesBilled, LinesUpdated
<1> QED BY <1>1, <1>2, <1>3

\* Who commits an activation commits that every line is billed.
LEMMA CommitsBilled ==
  ASSUME Typed, LinesSound, NEW t \in Tx, Ends(t), Commits(t), req[t].op = "activate",
         NEW c \in Contracts, c = req[t].contract
  PROVE  /\ \E n \in LineNos : Line(<<c, n>>)' # NoLine
         /\ \A n \in LineNos : Line(<<c, n>>)' # NoLine =>
              Line(<<c, n>>)'.receivable /\ Rec(<<c, n>>)' # NoReceivable
<1>1. pc[t] = "commit" /\ BillsAll(t)
  BY DEF Commits, LinesSound
<1>2. \A l \in Lines : Line(l)' = LineOf(t, l) /\ Rec(l)' = ReceivableOf(t, l)
  BY Sights, LineFacts DEF Commits, CommitsRows, Line, NewLine, LineLocker, Rec, NewRec, RecLocker
<1> QED BY <1>1, <1>2, LineFacts DEF BillsAll, SeesLine, SeesBilled

LEMMA LinesInOrderNext ==
  ASSUME Typed, LinesSound, LinesGrow, [Next]_vars
  PROVE  LinesInOrder'
<1> SUFFICES ASSUME NEW c \in Contracts, NEW n \in LineNos
             PROVE  /\ Line(<<c, n>>)' # NoLine => Line(<<c, 1>>)' # NoLine
                    /\ Line(<<c, n>>)'.receivable => Rec(<<c, n>>)' # NoReceivable
  BY DEF LinesInOrder
<1>1. /\ <<c, n>> \in Lines /\ <<c, 1>> \in Lines /\ 1 \in LineNos
      /\ Line(<<c, n>>) # NoLine => Line(<<c, 1>>) # NoLine
      /\ Line(<<c, n>>).receivable => Rec(<<c, n>>) # NoReceivable
      /\ Line(<<c, 1>>) # NoLine => Line(<<c, 1>>)' # NoLine
      /\ Rec(<<c, n>>) # NoReceivable => Rec(<<c, n>>)' # NoReceivable
  BY LineFacts DEF LinesSound, LinesInOrder, LinesGrow
<1>2. CASE CommittedStay
  BY <1>1, <1>2 DEF CommittedStay
<1>3. ASSUME NEW t \in Tx, Ends(t), Commits(t)
      PROVE  /\ Line(<<c, n>>)' # NoLine => Line(<<c, 1>>)' # NoLine
             /\ Line(<<c, n>>)'.receivable => Rec(<<c, n>>)' # NoReceivable
  <2>1. \A l \in Lines : /\ Line(l)' = IF LineLocker(l) = t THEN NewLine(l) ELSE Line(l)
                         /\ Rec(l)' = ReceivableOf(t, l)
    BY <1>3, Sights, LineFacts DEF Commits, CommitsRows, Line, NewLine, LineLocker,
       Rec, NewRec, RecLocker
  <2>2. CASE LineLocker(<<c, n>>) # t
    BY <1>1, <2>1, <2>2
  <2>3. CASE LineLocker(<<c, n>>) = t
    <3>1. /\ NewLine(<<c, n>>).receivable /\ ~Line(<<c, n>>).receivable =>
               ReceivableOf(t, <<c, n>>) # NoReceivable
          /\ Line(<<c, n>>) = NoLine => LineLocker(<<c, 1>>) = t
          /\ LineLocker(<<c, 1>>) = t => NewLine(<<c, 1>>) # NoLine
      BY <1>1, <2>3 DEF LinesSound, LineLocks
    <3> QED BY <1>1, <2>1, <2>3, <3>1
  <2> QED BY <2>2, <2>3
<1> QED BY <1>2, <1>3, CommitOrStay

\* What is billed stays billed: a contract that has lines gets no more.
LEMMA ActiveIsBilledNext ==
  ASSUME Sound, LinesSound, LinesGrow, [Next]_vars
  PROVE  ActiveIsBilled'
<1> DEFINE Billed(c) == /\ \E n \in LineNos : Line(<<c, n>>) # NoLine
                        /\ \A n \in LineNos : Line(<<c, n>>) # NoLine =>
                             Line(<<c, n>>).receivable /\ Rec(<<c, n>>) # NoReceivable
<1>1. /\ ActiveIsBilled <=> \A c \in Contracts : StatusOf(c) \in Activated => Billed(c)
      /\ ActiveIsBilled' <=> \A c \in Contracts : StatusOf(c)' \in Activated => Billed(c)'
  BY DEF ActiveIsBilled, Line, Rec
<1>2. ASSUME NEW c \in Contracts, StatusOf(c) \in Activated PROVE Billed(c)'
  <2>1. Billed(c)
    BY <1>1, <1>2 DEF LinesSound
  <2>2. Line(<<c, 1>>) # NoLine
    BY <2>1 DEF LinesSound, LinesInOrder
  <2>3. ASSUME NEW n \in LineNos, Line(<<c, n>>)' # NoLine
        PROVE  Line(<<c, n>>)'.receivable /\ Rec(<<c, n>>)' # NoReceivable
    <3>1. Line(<<c, n>>) # NoLine
      BY <2>2, <2>3 DEF LinesGrow
    <3> QED BY <2>1, <3>1, LineFacts DEF LinesGrow
  <2>4. \E n \in LineNos : Line(<<c, n>>)' # NoLine
    BY <2>1, LineFacts DEF LinesGrow
  <2> QED BY <2>3, <2>4
<1>3. ASSUME NEW c \in Contracts, Unmoved(c), StatusOf(c)' \in Activated PROVE Billed(c)'
  BY <1>2, <1>3 DEF Unmoved, Activated
<1>4. ASSUME NEW t \in Tx, NEW c \in Contracts, CommitsMove(t, c), StatusOf(c)' \in Activated
      PROVE  Billed(c)'
  <2>1. CASE req[t].op = "activate"
    BY <1>4, <2>1, CommitsBilled DEF CommitsMove, Sound
  <2>2. CASE req[t].op # "activate"
    <3>1. StatusOf(c) = "active"
      BY <1>4, <2>2 DEF CommitsMove, From, To, Mover, Activated
    <3> QED BY <1>2, <3>1 DEF Activated
  <2> QED BY <2>1, <2>2
<1> HIDE DEF Billed
<1>5. \A c \in Contracts : StatusOf(c)' \in Activated => Billed(c)'
  BY <1>3, <1>4, CommittedMoves DEF CommitsMove
<1> QED BY <1>1, <1>5

LEMMA LinesNext == Sound /\ LinesSound /\ [Next]_vars => LinesSound'
<1> SUFFICES ASSUME Sound, LinesSound, [Next]_vars PROVE LinesSound'
  OBVIOUS
<1>1. Typed /\ LinesGrow
  BY LinesDoGrow DEF Sound
<1>2. LinesInOrder' /\ ActiveIsBilled'
  BY <1>1, LinesInOrderNext, ActiveIsBilledNext
<1>3. ASSUME NEW x \in Tx, LockedStays(x), pc'[x] = pc[x], req'[x] = req[x], todo'[x] = todo[x]
      PROVE  LineLocks(x)' /\ ReceivableLocks(x)' /\ BillsAll(x)'
  <2>1. ~Ends(x)
    BY <1>3 DEF Ends
  <2> QED BY <1>1, <1>3, <2>1, LinesOfOthers
<1>4. ASSUME NEW t \in Tx, Begun(t) \/ Acts(t) \/ Ends(t)
      PROVE  LineLocks(t)' /\ ReceivableLocks(t)' /\ BillsAll(t)'
  BY <1>1, <1>4, LinesOwn
<1>5. \A x \in Tx : LineLocks(x)' /\ ReceivableLocks(x)' /\ BillsAll(x)'
  BY <1>1, <1>3, <1>4, WholeSteps DEF OthersStay
<1> QED BY <1>2, <1>5 DEF LinesSound

LEMMA SpecLines == Spec => []LinesSound
<1>1. Init => LinesSound
  <2> SUFFICES ASSUME Init PROVE LinesSound
    OBVIOUS
  <2>1. /\ \A t \in Tx : pc[t] = "idle"
        /\ \A l \in Lines : Line(l) = NoLine
        /\ \A c \in Contracts : Con(c) = NoContract
        /\ \A tab \in TableName : \A id \in Rows[tab] : owner[tab][id] = Nil
    BY InitFacts
  <2>2. \A l \in Lines : LineLocker(l) = Nil /\ RecLocker(l) = Nil
    BY <2>1, LineFacts DEF LineLocker, RecLocker
  <2>3. \A t \in Tx : LineLocks(t) /\ ReceivableLocks(t) /\ BillsAll(t)
    <3> SUFFICES ASSUME NEW t \in Tx PROVE LineLocks(t) /\ ReceivableLocks(t) /\ BillsAll(t)
      OBVIOUS
    <3>1. LineLocks(t)
      BY <2>2, NilAssumption, LineFacts DEF LineLocks
    <3>2. ReceivableLocks(t)
      BY <2>2, NilAssumption DEF ReceivableLocks
    <3>3. BillsAll(t)
      BY <2>1 DEF BillsAll
    <3> QED BY <3>1, <3>2, <3>3
  <2>4. LinesInOrder
    <3>1. NoLine.receivable = FALSE
      BY DEF NoLine
    <3>2. \A c \in Contracts, n \in LineNos : Line(<<c, n>>) = NoLine
      BY <2>1, LineFacts
    <3> QED BY <3>1, <3>2 DEF LinesInOrder
  <2>5. \A c \in Contracts : StatusOf(c) = "none"
    BY <2>1 DEF StatusOf, Con, NoContract
  <2>6. ActiveIsBilled
    BY <2>5 DEF ActiveIsBilled, Activated
  <2> QED BY <2>3, <2>4, <2>6 DEF LinesSound
<1> QED BY <1>1, LinesNext, SpecSound, PTL DEF Spec

\* A contract that was activated has lines, and a receivable for every one of
\* them, also when a schedule is generated, or a line changed, while it is
\* activated: the lines are inserted all at once, the second plan fails on the
\* unique line number, and who bills them bills what has been inserted.
THEOREM ActivatedIsBilled == Spec => []ActiveIsBilled
<1>1. LinesSound => ActiveIsBilled
  BY DEF LinesSound
<1> QED BY <1>1, SpecLines, PTL

-----------------------------------------------------------------------------
(***************************************************************************)
(* Every change of status is in the audit log.                             *)
(***************************************************************************)
\* The statuses between which a locked contract changes.
Changes == {<<"none", "draft">>, <<"draft", "draft">>, <<"draft", "active">>,
            <<"draft", "cancelled">>, <<"active", "cancelled">>, <<"active", "terminated">>,
            <<"active", "completed">>, <<"active", "defaulted">>}

LEMMA LockedChanges ==
  ASSUME Typed, ContractsSound, NEW t \in Tx, NEW c \in Contracts, ConLocker(c) = t
  PROVE  /\ <<Con(c).status, NewCon(c).status>> \in Changes
         /\ IF Moves(t, c) THEN NewCon(c).status = To[req[t].op]
                           ELSE NewCon(c).status = "draft"
<1>1. /\ Con(c) \in ContractRow /\ NewCon(c) \in ContractRow /\ RequestOK(t)
      /\ Moves(t, c) \/ Edits(t, c) \/ Inserts(t, c)
  BY TypedRows, ContractLocked
<1>2. CASE Moves(t, c)
  <2>1. /\ Con(c).status = From(req[t]) /\ NewCon(c).status = To[req[t].op]
        /\ pc[t] # "idle" /\ req[t].op \in Mover
    BY <1>1, <1>2 DEF Moves, ContractRow
  <2>2. req[t].op = "cancel" => From(req[t]) \in {"draft", "active"}
    BY <1>1, <2>1 DEF RequestOK, FieldsOK, From
  <2>3. <<From(req[t]), To[req[t].op]>> \in Changes
    BY <2>1, <2>2 DEF Mover, From, To, Changes
  <2> QED BY <1>2, <2>1, <2>3
<1>3. CASE ~Moves(t, c)
  <2>1. /\ NewCon(c).status = "draft"
        /\ Con(c).status = "draft" \/ Con(c) = NoContract
    BY <1>1, <1>3 DEF Edits, Inserts, ContractRow
  <2> QED BY <1>3, <2>1 DEF Changes, NoContract
<1> QED BY <1>2, <1>3

\* What t logs as it goes to its commit is the change it has made.
LEMMA LogsOwn ==
  ASSUME Sound, [Next]_vars, NEW t \in Tx, Acts(t), LogsMove(t)
  PROVE  LogsMove(t)'
<1>1. /\ Typed /\ ContractsSound /\ Typed' /\ ContractsSound'
      /\ ContractsSoundFor(t)
  BY TypedNext, ContractsNext DEF Sound, ContractsSound
<1>2. /\ pc[t] \notin {"idle", "commit"} /\ entry[t] = {} /\ RequestOK(t)
      /\ req'[t].op = req[t].op
  <2>1. \A f \in {"op"} : req'[t][f] = req[t][f]
    BY <1>1, ActsControl
  <2> QED BY <1>1, <2>1, ActsControl DEF LogsMove
<1>3. CASE pc'[t] # "commit"
  BY <1>2, <1>3, WhoLogs DEF LogsMove
<1>4. CASE pc'[t] = "commit"
  <2>1. PICK e, id : /\ entry'[t] = {<<e, id>>}
                     /\ IF pc[t] \in Ending THEN e = EventOf[To[req[t].op]] /\ id = req[t].contract
                                            ELSE e \notin Event
    <3>1. "convert_reservation" \notin Event
      BY DEF Event
    <3> QED BY <1>4, <3>1, WhoLogs DEF Logs, EntryAt
  <2>2. req'[t] = req[t]
    BY <1>4, WhoLogs DEF Logs
  <2>3. \A s \in DOMAIN EventOf : EventOf[s] \in Event /\ s # "draft"
    BY DEF EventOf, Event
  <2>4. ASSUME NEW c \in Contracts, ConLocker(c)' = t, NewCon(c)'.status # "draft"
        PROVE  /\ c = req[t].contract /\ req[t].op \in Mover
               /\ NewCon(c)'.status = To[req[t].op]
    <3>1. Con(c)' \in ContractRow
      BY <1>1 DEF Typed, StorageTypeOK, TableName, Rows, RowType, Con
    <3>2. (Moves(t, c) \/ Edits(t, c) \/ Inserts(t, c))'
      BY <1>1, <2>4 DEF ContractsSound, ContractsSoundFor, ContractLocks
    <3>3. ~Inserts(t, c)'
      BY <2>4 DEF Inserts
    <3>4. ~Edits(t, c)'
      BY <2>4, <3>1 DEF Edits, ContractRow
    <3>5. /\ c = req'[t].contract /\ req'[t].op \in Mover
          /\ NewCon(c)' = [Con(c)' EXCEPT !.status = To[req'[t].op]]
      BY <3>2, <3>3, <3>4 DEF Moves
    <3> QED BY <2>2, <3>1, <3>5 DEF ContractRow
  <2>5. ASSUME pc[t] \in Ending, NEW c \in Contracts, c = req[t].contract
        PROVE  ConLocker(c)' = t /\ NewCon(c)'.status = To[req[t].op] /\ req[t].op \in Mover
    <3>1. CASE ChangesUnit(t)
      <4>1. pc[t] \in {"sell_unit", "free_unit"} /\ ContractsStay
        BY <2>5, <3>1, <1>1, Untouched, TableViews, CommitComes
           DEF ChangesUnit, UnitStatusAt, Ending, WritesRow, OthersStayBut, TableName
      <4>2. ConLocker(c) = t
        BY <1>1, <2>5, <4>1 DEF ContractsSoundFor, WriterLocks, HasWritten
      <4>3. Moves(t, c)
        BY <1>1, <4>1, <4>2, ContractLocked DEF Edits, Inserts
      <4>4. NewCon(c).status = To[req[t].op]
        BY <1>1, <4>2, <4>3, LockedChanges
      <4> QED BY <4>1, <4>2, <4>3, <4>4 DEF ContractsStay, Moves
    <3>2. CASE MovesContract(t)
      <4>1. /\ ContractWritten(t, c, [NewCon(c) EXCEPT !.status = To[req[t].op]])
            /\ req[t].op \in Mover
        BY <2>5, <3>2, TableViews DEF MovesContract, Mover
      <4> QED BY <1>1, <4>1, TypedRows DEF ContractWritten, ContractRow
    <3> QED BY <1>1, <1>4, <2>5, <3>1, <3>2, CommitComes
  <2>6. ASSUME pc[t] \notin Ending, NEW c \in Contracts, ConLocker(c)' = t
        PROVE  NewCon(c)'.status = "draft"
    <3> SUFFICES ASSUME NewCon(c)'.status # "draft" PROVE FALSE
      OBVIOUS
    <3>1. c = req[t].contract /\ req[t].op \in Mover
      BY <2>4, <2>6
    <3>2. AsksApproval(t)
      <4>1. ~MovesContract(t)
        BY <1>4, <2>6 DEF MovesContract, Goes, Ending
      <4>2. ChangesUnit(t) => pc[t] \in Ending
        BY <1>2, <3>1 DEF ChangesUnit, RequestOK, StatementsOf, UnitStatusAt, Mover, Ending
      <4> QED BY <1>1, <1>4, <2>6, <3>1, <4>1, <4>2, CommitComes DEF Mover
    <3>3. pc[t] = "insert_approval" /\ ContractsStay
      <4>1. TableStays("sales_contracts")
        BY <3>2 DEF AsksApproval, WritesRow, OthersStayBut, TableName
      <4> QED BY <3>2, <4>1, TableViews DEF AsksApproval
    <3> QED BY <1>1, <2>6, <3>3, ContractLocked DEF ContractsStay
  <2>7. ASSUME NEW c \in Contracts, NEW s \in DOMAIN EventOf
        PROVE  <<EventOf[s], c>> \in entry'[t] <=> ConLocker(c)' = t /\ NewCon(c)'.status = s
    <3>1. CASE pc[t] \in Ending
      <4>1. \A op \in Mover : To[op] \in DOMAIN EventOf
        BY DEF To, Mover, EventOf
      <4>2. \A r \in DOMAIN EventOf : EventOf[r] = EventOf[s] => r = s
        BY DEF EventOf
      <4>3. ASSUME <<EventOf[s], c>> \in entry'[t]
            PROVE  ConLocker(c)' = t /\ NewCon(c)'.status = s
        <5>1. EventOf[s] = EventOf[To[req[t].op]] /\ c = req[t].contract
          BY <2>1, <3>1, <4>3
        <5> QED BY <2>5, <3>1, <4>1, <4>2, <5>1
      <4>4. ASSUME ConLocker(c)' = t, NewCon(c)'.status = s
            PROVE  <<EventOf[s], c>> \in entry'[t]
        BY <2>1, <2>3, <2>4, <3>1, <4>4
      <4> QED BY <4>3, <4>4
    <3>2. CASE pc[t] \notin Ending
      BY <2>1, <2>3, <2>6, <3>2
    <3> QED BY <3>1, <3>2
  <2> QED BY <1>4, <2>7 DEF LogsMove
<1> QED BY <1>3, <1>4

LEMMA LogsNext ==
  ASSUME Sound, \A x \in Tx : LogsMove(x), [Next]_vars
  PROVE  \A x \in Tx : LogsMove(x)'
<1>1. ASSUME NEW x \in Tx, LockedStays(x), pc'[x] = pc[x], entry'[x] = entry[x]
      PROVE  LogsMove(x)'
  <2>1. \A c \in Contracts : /\ ConLocker(c)' = x <=> ConLocker(c) = x
                             /\ ConLocker(c) = x => NewCon(c)' = NewCon(c)
    BY <1>1 DEF LockedStays, TableName, Rows, ConLocker, NewCon
  <2> QED BY <1>1, <2>1 DEF LogsMove
<1>2. ASSUME NEW t \in Tx, Begun(t) \/ Acts(t) \/ Ends(t) PROVE LogsMove(t)'
  <2>1. CASE Begun(t)
    <3>1. pc'[t] # "commit" /\ pc[t] # "commit" /\ entry'[t] = entry[t]
      BY <2>1 DEF Begun, FirstStatement
    <3> QED BY <3>1 DEF LogsMove
  <2>2. CASE Ends(t)
    BY <2>2 DEF Ends, LogsMove
  <2> QED BY <1>2, <2>1, <2>2, LogsOwn
<1> QED BY <1>1, <1>2, WholeSteps DEF OthersStay, Sound

\* A commit that changes a status commits the entry of the change.
LEMMA AuditNext ==
  ASSUME Sound, \A x \in Tx : LogsMove(x), EveryChangeIsAudited, [Next]_vars
  PROVE  EveryChangeIsAudited'
<1>1. CASE CommittedStay
  BY <1>1 DEF CommittedStay, EveryChangeIsAudited, StatusOf, Con
<1>2. ASSUME NEW t \in Tx, Ends(t), Commits(t) PROVE EveryChangeIsAudited'
  <2>1. /\ \A c \in Contracts :
             StatusOf(c)' = IF ConLocker(c) = t THEN NewCon(c).status ELSE StatusOf(c)
        /\ audit' = audit \cup entry[t] /\ pc[t] = "commit"
    BY <1>2 DEF Commits, CommitsRows, TableName, Rows, Con, NewCon, ConLocker, StatusOf
  <2>2. ASSUME NEW c \in Contracts, NEW s \in DOMAIN EventOf
        PROVE  <<EventOf[s], c>> \in audit' <=>
                 \/ <<EventOf[s], c>> \in audit
                 \/ ConLocker(c) = t /\ NewCon(c).status = s
    BY <2>1 DEF LogsMove
  <2>3. \A c \in Contracts : ConLocker(c) = t =>
          <<StatusOf(c), NewCon(c).status>> \in Changes
    BY LockedChanges DEF Sound, StatusOf, Con
  <2> SUFFICES ASSUME NEW c \in Contracts
               PROVE  (/\ \A s \in {"completed", "defaulted", "terminated", "cancelled"} :
                            <<s, c>> \in audit <=> StatusOf(c) = s
                       /\ StatusOf(c) \in Activated => <<"activate_contract", c>> \in audit
                       /\ <<"activate_contract", c>> \in audit =>
                            StatusOf(c) \in Activated \cup {"cancelled"})'
    BY DEF EveryChangeIsAudited
  <2>4. /\ \A s \in {"completed", "defaulted", "terminated", "cancelled"} :
             s \in DOMAIN EventOf /\ EventOf[s] = s
        /\ "active" \in DOMAIN EventOf /\ EventOf["active"] = "activate_contract"
    BY DEF EventOf
  <2>5. ASSUME NEW s \in {"completed", "defaulted", "terminated", "cancelled"}
        PROVE  <<s, c>> \in audit' <=> StatusOf(c)' = s
    <3>1. /\ <<s, c>> \in audit <=> StatusOf(c) = s
          /\ <<s, c>> \in audit' <=>
               <<s, c>> \in audit \/ (ConLocker(c) = t /\ NewCon(c).status = s)
      BY <2>2, <2>4 DEF EveryChangeIsAudited
    <3> QED BY <2>1, <2>3, <3>1 DEF Changes
  <2>6. /\ StatusOf(c)' \in Activated => <<"activate_contract", c>> \in audit'
        /\ <<"activate_contract", c>> \in audit' =>
             StatusOf(c)' \in Activated \cup {"cancelled"}
    <3>1. /\ StatusOf(c) \in Activated => <<"activate_contract", c>> \in audit
          /\ <<"activate_contract", c>> \in audit =>
               StatusOf(c) \in Activated \cup {"cancelled"}
          /\ <<"activate_contract", c>> \in audit' <=>
               \/ <<"activate_contract", c>> \in audit
               \/ ConLocker(c) = t /\ NewCon(c).status = "active"
      BY <2>2, <2>4 DEF EveryChangeIsAudited
    <3> QED BY <2>1, <2>3, <3>1 DEF Changes, Activated
  <2> QED BY <2>5, <2>6 DEF Activated
<1> QED BY <1>1, <1>2, CommitOrStay DEF Sound

LEMMA SpecAudit == Spec => []AuditSound
<1>1. Init => AuditSound
  <2> SUFFICES ASSUME Init PROVE AuditSound
    OBVIOUS
  <2>1. /\ audit = {} /\ \A t \in Tx : pc[t] = "idle" /\ entry[t] = {}
        /\ \A c \in Contracts : StatusOf(c) = "none"
    BY InitFacts DEF StatusOf, Con, NoContract
  <2>2. EveryChangeIsAudited
    BY <2>1 DEF EveryChangeIsAudited, Activated
  <2>3. \A t \in Tx : LogsMove(t)
    BY <2>1 DEF LogsMove
  <2> QED BY <2>2, <2>3 DEF AuditSound
<1>2. Sound /\ AuditSound /\ [Next]_vars => AuditSound'
  BY LogsNext, AuditNext DEF AuditSound
<1> QED BY <1>1, <1>2, SpecSound, PTL DEF Spec

\* The audit log has an entry for every status a contract has had, and none
\* for a change that was rolled back, lost its race or only asked for approval:
\* whoever has changed a status writes its entry before the commit of both.
THEOREM ChangesAreAudited == Spec => []EveryChangeIsAudited
<1>1. AuditSound => EveryChangeIsAudited
  BY DEF AuditSound
<1> QED BY <1>1, SpecAudit, PTL

-----------------------------------------------------------------------------
(***************************************************************************)
(* One request at a time.  What a transaction reads is then what it will   *)
(* commit, or give up.                                                     *)
(***************************************************************************)
\* Requests are handled one at a time.
OneRunning == \A t, u \in Tx : pc[t] # "idle" /\ pc[u] # "idle" => t = u

\* A transaction that handles no request has locked nothing.
NoIdleLocks ==
  \A t \in Tx : pc[t] = "idle" =>
    \A tab \in TableName : \A id \in Rows[tab] : owner[tab][id] # t

LEMMA IdleLocksNext == Typed /\ NoIdleLocks /\ [Next]_vars => NoIdleLocks'
<1> SUFFICES ASSUME Typed, NoIdleLocks, [Next]_vars PROVE NoIdleLocks'
  OBVIOUS
<1>1. ASSUME NEW x \in Tx, LockedStays(x), pc'[x] = pc[x], pc'[x] = "idle",
             NEW tab \in TableName, NEW id \in Rows[tab]
      PROVE  owner'[tab][id] # x
  BY <1>1 DEF NoIdleLocks, LockedStays
<1>2. ASSUME NEW t \in Tx, Begun(t) \/ Acts(t) \/ Ends(t), pc'[t] = "idle",
             NEW tab \in TableName, NEW id \in Rows[tab]
      PROVE  owner'[tab][id] # t
  <2>1. Ends(t)
    BY <1>2, ActsControl DEF Begun, FirstStatement
  <2> QED BY <2>1, NilAssumption DEF Ends, Commits, RollsBack, CommitsRows, RollsBackRows
<1> QED BY <1>1, <1>2, WholeSteps DEF NoIdleLocks, OthersStay

\* No other transaction than t handles a request.
Alone(t) == \A x \in Tx \ {t} : pc[x] = "idle"

\* What t reads of a row is its newest version.
SeesNewest(t) ==
  \A tab \in TableName : \A id \in Rows[tab] :
    owner[tab][id] \in {Nil, t} /\ Sees(t, tab, id) = dirty[tab][id]

LEMMA AloneSees ==
  ASSUME Typed, NoIdleLocks, NEW t \in Tx, Alone(t)
  PROVE  SeesNewest(t)
<1> SUFFICES ASSUME NEW tab \in TableName, NEW id \in Rows[tab]
             PROVE  owner[tab][id] \in {Nil, t} /\ Sees(t, tab, id) = dirty[tab][id]
  BY DEF SeesNewest
<1>1. owner[tab][id] \in Tx \cup {Nil}
  BY DEF Typed, StorageTypeOK
<1>2. owner[tab][id] \in {Nil, t}
  BY <1>1 DEF NoIdleLocks, Alone
<1>3. owner[tab][id] = Nil => dirty[tab][id] = db[tab][id]
  <2>1. tab \in DOMAIN owner /\ id \in DOMAIN owner[tab]
    BY DEF Typed, StorageTypeOK, Shaped
  <2> QED BY <2>1 DEF Typed, DirtyIsCommitted
<1> QED BY <1>2, <1>3 DEF Sees

\* Nothing is committed, all that is newest is, or all of it is given up.
Kept      == \A tab \in TableName : \A id \in Rows[tab] : db'[tab][id] = db[tab][id]
Published == \A tab \in TableName : \A id \in Rows[tab] :
               db'[tab][id] = dirty[tab][id] /\ dirty'[tab][id] = dirty[tab][id]
Undone    == \A tab \in TableName : \A id \in Rows[tab] :
               db'[tab][id] = db[tab][id] /\ dirty'[tab][id] = db[tab][id]

SerialStep(t) ==
  /\ Alone(t) /\ Alone(t)' /\ SeesNewest(t)
  /\ \/ (Begun(t) \/ Acts(t)) /\ Kept
     \/ Ends(t) /\ \/ pc[t] = "commit" /\ Published /\ Commits(t)
                   \/ Undone /\ RollsBack(t)
  /\ Start(t) \/ Step(t)

\* A step while requests are handled one at a time.
LEMMA SerialSteps ==
  ASSUME Typed, NoIdleLocks, [Next]_vars, OneRunning, OneRunning'
  PROVE  \/ SettlesOther /\ (Others \/ UNCHANGED vars)
         \/ \E t \in Tx : SerialStep(t)
<1>1. CASE Others \/ UNCHANGED vars
  BY <1>1, OthersEffect
<1>2. ASSUME NEW t \in Tx, Start(t) \/ Step(t) PROVE SerialStep(t)
  <2>1. Begun(t) \/ Acts(t) \/ Ends(t)
    BY <1>2, StartEffect, StepEffect DEF Acts
  <2>2. OthersStay(t) /\ (pc[t] # "idle" \/ pc'[t] # "idle")
    BY <2>1, ControlNext, ActsControl DEF Begun, Ends, FirstStatement
  <2>3. Alone(t) /\ Alone(t)'
    BY <2>2 DEF OthersStay, OneRunning, Alone
  <2>4. SeesNewest(t)
    BY <2>3, AloneSees
  <2>5. CASE Begun(t) \/ Acts(t)
    <3>1. ~Ends(t)
      BY <2>5, ActsControl DEF Begun, Ends, FirstStatement
    <3>2. Kept
      BY <2>1, <3>1, RowSteps DEF Kept, RowStep, RowStays
    <3> QED BY <1>2, <2>3, <2>4, <2>5, <3>2 DEF SerialStep
  <2>6. CASE Ends(t)
    <3>1. \A tab \in TableName : \A id \in Rows[tab] :
            owner[tab][id] # t => dirty[tab][id] = db[tab][id]
      BY <2>4 DEF SeesNewest, Sees
    <3>2. Commits(t) => pc[t] = "commit" /\ Published
      BY <3>1 DEF Commits, CommitsRows, Published
    <3>3. RollsBack(t) => Undone
      BY <3>1 DEF RollsBack, RollsBackRows, Undone
    <3> QED BY <1>2, <2>3, <2>4, <2>6, <3>2, <3>3 DEF SerialStep, Ends
  <2> QED BY <2>1, <2>5, <2>6
<1> QED BY <1>1, <1>2 DEF Next

\* What that says of contracts, schedule lines and receivables.
LEMMA SerialViews ==
  /\ \A t : SeesNewest(t) =>
       /\ \A c \in Contracts : ContractOf(t, c) = NewCon(c)
       /\ \A r \in Reservations : ReservationOf(t, r) = NewRes(r)
       /\ \A l \in Lines : LineOf(t, l) = NewLine(l)
  /\ Kept => /\ \A c \in Contracts : Con(c)' = Con(c)
             /\ \A l \in Lines : Line(l)' = Line(l) /\ Rec(l)' = Rec(l)
  /\ Published =>
       /\ \A c \in Contracts : Con(c)' = NewCon(c) /\ NewCon(c)' = NewCon(c)
       /\ \A l \in Lines : /\ Line(l)' = NewLine(l) /\ NewLine(l)' = NewLine(l)
                           /\ Rec(l)' = NewRec(l) /\ NewRec(l)' = NewRec(l)
  /\ Undone =>
       /\ \A c \in Contracts : Con(c)' = Con(c) /\ NewCon(c)' = Con(c)
       /\ \A l \in Lines : /\ Line(l)' = Line(l) /\ NewLine(l)' = Line(l)
                           /\ Rec(l)' = Rec(l) /\ NewRec(l)' = Rec(l)
<1>1. /\ "sales_contracts" \in TableName /\ Rows["sales_contracts"] = Contracts
      /\ "reservations" \in TableName /\ Rows["reservations"] = Reservations
      /\ "installment_schedule_lines" \in TableName /\ "receivables" \in TableName
      /\ Rows["installment_schedule_lines"] = Lines /\ Rows["receivables"] = Lines
  BY DEF TableName, Rows
<1>2. \A t : SeesNewest(t) =>
        /\ \A c \in Contracts : ContractOf(t, c) = NewCon(c)
        /\ \A r \in Reservations : ReservationOf(t, r) = NewRes(r)
        /\ \A l \in Lines : LineOf(t, l) = NewLine(l)
  BY <1>1 DEF SeesNewest, ContractOf, ReservationOf, LineOf, NewCon, NewRes, NewLine
<1>3. Kept => /\ \A c \in Contracts : Con(c)' = Con(c)
              /\ \A l \in Lines : Line(l)' = Line(l) /\ Rec(l)' = Rec(l)
  BY <1>1 DEF Kept, Con, Line, Rec
<1>4. Published =>
        /\ \A c \in Contracts : Con(c)' = NewCon(c) /\ NewCon(c)' = NewCon(c)
        /\ \A l \in Lines : /\ Line(l)' = NewLine(l) /\ NewLine(l)' = NewLine(l)
                            /\ Rec(l)' = NewRec(l) /\ NewRec(l)' = NewRec(l)
  BY <1>1 DEF Published, Con, NewCon, Line, NewLine, Rec, NewRec
<1>5. Undone =>
        /\ \A c \in Contracts : Con(c)' = Con(c) /\ NewCon(c)' = Con(c)
        /\ \A l \in Lines : /\ Line(l)' = Line(l) /\ NewLine(l)' = Line(l)
                            /\ Rec(l)' = Rec(l) /\ NewRec(l)' = Rec(l)
  BY <1>1 DEF Undone, Con, NewCon, Line, NewLine, Rec, NewRec
<1> QED BY <1>2, <1>3, <1>4, <1>5

\* What is checked when a request begins.
LEMMA StartReads ==
  ASSUME Typed, NEW t \in Tx, Start(t)
  PROVE  /\ pc'[t] \in {"list_lines", "insert_lines", "update_line"} =>
              /\ req'[t].contract \in Contracts
              /\ ContractOf(t, req'[t].contract).status = "draft"
         /\ pc'[t] = "insert_approval" /\ req'[t].op \in {"cancel", "terminate"} =>
              /\ req'[t].contract \in Contracts
              /\ req'[t].type \in RequestType \ {"schedule_restructure"}
              /\ GetLatestSalesApprovalRequest(t, req'[t].contract, req'[t].type) # "pending"
<1> DEFINE Checked ==
      /\ pc'[t] \in {"list_lines", "insert_lines", "update_line"} =>
           /\ req'[t].contract \in Contracts
           /\ ContractOf(t, req'[t].contract).status = "draft"
      /\ pc'[t] = "insert_approval" /\ req'[t].op \in {"cancel", "terminate"} =>
           /\ req'[t].contract \in Contracts
           /\ req'[t].type \in RequestType \ {"schedule_restructure"}
           /\ GetLatestSalesApprovalRequest(t, req'[t].contract, req'[t].type) # "pending"
<1>1. /\ pc \in [Tx -> Statement] /\ req \in [Tx -> Request \cup {Nil}]
  BY DEF Typed, ControlTypeOK
<1>2. \A op, q, stmt : Begin(t, op, q, stmt) =>
        pc'[t] = stmt /\ req'[t] = [q EXCEPT !.op = op]
  BY <1>1 DEF Begin
<1> DEFINE Elsewhere == {"insert_reservation", "convert_insert", "cancel_reservation",
                      "insert_contract", "update_contract", "complete_status",
                      "default_status", "end_contract"}
<1>2a. ASSUME NEW op, NEW q, NEW stmt \in Elsewhere, Begin(t, op, q, stmt) PROVE Checked
  <2>1. pc'[t] = stmt
    BY <1>2, <1>2a
  <2> QED BY <2>1
<1> HIDE DEF Checked, Elsewhere
<1>2b. {"insert_reservation", "convert_insert", "cancel_reservation",
        "insert_contract", "update_contract", "complete_status",
        "default_status", "end_contract"} \subseteq Elsewhere
  BY DEF Elsewhere
<1>3. ASSUME NEW u \in Units, CreateReservation(t, u) PROVE Checked
  BY <1>2a, <1>2b, <1>3 DEF CreateReservation
<1>4. ASSUME NEW u \in Units, NEW source, NEW b \in BOOLEAN,
             CreateSalesContract(t, u, source, b)
      PROVE  Checked
  BY <1>2a, <1>2b, <1>4 DEF CreateSalesContract
<1>5. ASSUME NEW r \in Reservations, ConvertReservation(t, r) \/ CancelReservation(t, r)
      PROVE  Checked
  BY <1>2a, <1>2b, <1>5 DEF ConvertReservation, CancelReservation
<1>6. ASSUME NEW c \in Contracts,
             \/ UpdateSalesContract(t, c) \/ CompleteSalesContract(t, c)
             \/ MarkSalesContractDefaulted(t, c) \/ CancelDraft(t, c)
      PROVE  Checked
  BY <1>2a, <1>2b, <1>6 DEF UpdateSalesContract, CompleteSalesContract,
     MarkSalesContractDefaulted, CancelDraft
<1>7. ASSUME NEW c \in Contracts, NEW q, NEW op, NEW stmt, Begin(t, op, q, stmt),
             [q EXCEPT !.op = op].contract = c, ContractOf(t, c).status = "draft",
             stmt # "insert_approval"
      PROVE  Checked
  BY <1>2, <1>7 DEF Checked
<1>8. ASSUME NEW c \in Contracts,
             GenerateSalesContractSchedule(t, c) \/ ActivateSalesContract(t, c)
      PROVE  Checked
  <2>1. CASE GenerateSalesContractSchedule(t, c)
    <3>1. [[Blank EXCEPT !.contract = c] EXCEPT !.op = "generate"].contract = c
      BY DEF Blank
    <3> QED BY <1>7, <2>1, <3>1 DEF GenerateSalesContractSchedule
  <2>2. CASE ActivateSalesContract(t, c)
    <3> DEFINE q == [Blank EXCEPT !.contract = c, !.unit = ContractOf(t, c).unit,
                                  !.template = ContractOf(t, c).template]
    <3>1. [q EXCEPT !.op = "activate"].contract = c
      BY DEF Blank
    <3>2. /\ Begin(t, "activate", q, "list_lines")
          /\ ContractOf(t, c).status = "draft"
      BY <2>2 DEF ActivateSalesContract
    <3> HIDE DEF q
    <3> QED BY <1>7, <3>1, <3>2
  <2> QED BY <1>8, <2>1, <2>2
<1>9. ASSUME NEW c \in Contracts, NEW op, NEW to,
             NEW type \in RequestType \ {"schedule_restructure"},
             ApprovalGate(t, op, c, type, to)
      PROVE  Checked
  <2> DEFINE latest == GetLatestSalesApprovalRequest(t, c, type)
             stmt == IF latest = "approved" THEN "end_contract" ELSE "insert_approval"
             q == [Blank EXCEPT !.contract = c, !.unit = ContractOf(t, c).unit,
                                !.type = type, !.from = "active", !.to = to]
  <2>1. [q EXCEPT !.op = op].contract = c /\ [q EXCEPT !.op = op].type = type
    BY DEF Blank
  <2>2. Begin(t, op, q, stmt) /\ latest # "pending"
    BY <1>9 DEF ApprovalGate
  <2> HIDE DEF q
  <2>3. pc'[t] = stmt /\ req'[t].contract = c /\ req'[t].type = type
    BY <1>2, <2>1, <2>2
  <2> QED BY <1>9, <2>2, <2>3 DEF Checked
<1>10. ASSUME NEW c \in Contracts, NEW n \in LineNos, NEW p \in Principals,
              UpdateInstallmentScheduleLine(t, c, n, p)
       PROVE  Checked
  <2> DEFINE stmt == IF ContractOf(t, c).status = "draft" THEN "update_line"
                                                         ELSE "insert_approval"
             q == [Blank EXCEPT !.contract = c, !.line = n, !.principal = p,
                                !.type = "schedule_restructure"]
  <2>1. /\ [q EXCEPT !.op = "update_line"].contract = c
        /\ [q EXCEPT !.op = "update_line"].op = "update_line"
    BY DEF Blank
  <2>2. Begin(t, "update_line", q, stmt)
    BY <1>10 DEF UpdateInstallmentScheduleLine
  <2> HIDE DEF q
  <2>3. pc'[t] = stmt /\ req'[t].contract = c /\ req'[t].op = "update_line"
    BY <1>2, <2>1, <2>2
  <2>4. {"list_lines", "insert_lines", "insert_approval"} \cap {"update_line"} = {}
    OBVIOUS
  <2>5. pc'[t] = "update_line" => ContractOf(t, c).status = "draft"
    BY <2>3
  <2> QED BY <1>10, <2>3, <2>5 DEF Checked
<1>11. {"contract_cancellation", "contract_termination"}
         \subseteq RequestType \ {"schedule_restructure"}
  BY DEF RequestType
<1>12. ASSUME NEW c \in Contracts, CancelSalesContract(t, c) \/ TerminateSalesContract(t, c)
       PROVE  Checked
  BY <1>6, <1>9, <1>11, <1>12 DEF CancelSalesContract, TerminateSalesContract
<1>13. Checked
  BY <1>3, <1>4, <1>5, <1>6, <1>8, <1>10, <1>12 DEF Start
<1> QED BY <1>13 DEF Checked

-----------------------------------------------------------------------------
(***************************************************************************)
(* One request at a time: what is billed is what was scheduled.            *)
(***************************************************************************)
\* What others change of a receivable is its status.
LEMMA OthersBill ==
  ASSUME Typed, Others \/ UNCHANGED vars
  PROVE  /\ ContractsStay /\ LinesStay /\ UNCHANGED <<pc, req, todo>>
         /\ \A l \in Lines :
              /\ Rec(l)' # NoReceivable =>
                   Rec(l) # NoReceivable /\ Rec(l)'.original = Rec(l).original
              /\ NewRec(l)' # NoReceivable =>
                   NewRec(l) # NoReceivable /\ NewRec(l)'.original = NewRec(l).original
<1>1. SettlesOther
  BY OthersEffect
<1>2. ContractsStay /\ LinesStay /\ UNCHANGED <<pc, req, todo>>
  BY <1>1, Untouched, TableViews DEF TableName, SettlesOther
<1>3. ReceivablesStay => \A l \in Lines : Rec(l)' = Rec(l) /\ NewRec(l)' = NewRec(l)
  BY DEF ReceivablesStay
<1>4. CASE UNCHANGED storage
  BY <1>2, <1>3, <1>4, Untouched, TableViews DEF TableName
<1>5. ASSUME NEW l \in Lines, NEW s, SettleReceivable(l, s), NEW k \in Lines
      PROVE  /\ Rec(k)' # NoReceivable =>
                  Rec(k) # NoReceivable /\ Rec(k)'.original = Rec(k).original
             /\ NewRec(k)' # NoReceivable =>
                  NewRec(k) # NoReceivable /\ NewRec(k)'.original = NewRec(k).original
  <2> DEFINE row == [db["receivables"][l] EXCEPT !.status = s]
  <2>1. /\ Rec(l) \in ReceivableRow /\ Rec(l).status # "none"
        /\ WriteAndCommit("receivables", l, row)
    BY <1>5, TypedRows DEF SettleReceivable, Rec
  <2>2. row.original = Rec(l).original /\ Rec(l) # NoReceivable
    BY <2>1 DEF ReceivableRow, NoReceivable, Rec
  <2> HIDE DEF row
  <2>3. ReplacesRow("receivables", l, row)
    BY <2>1, LineFacts, WriteAndCommitEffect DEF Typed
  <2>4. /\ Rec(l)' = row /\ NewRec(l)' = row /\ NewRec(l) = Rec(l)
        /\ k # l => Rec(k)' = Rec(k) /\ NewRec(k)' = NewRec(k)
    <3>1. RecLocker(l) = Nil
      BY <2>3 DEF ReplacesRow, RowReplaced, RecLocker
    <3> QED BY <2>3, <3>1, TypedRows, LineFacts
            DEF ReplacesRow, RowReplaced, OthersStayBut, RowStays, Rec, NewRec
  <2> QED BY <2>2, <2>4
<1>6. ASSUME NEW tab \in {"units", "approval_requests"}, NEW id \in Rows[tab], NEW row,
             WriteAndCommit(tab, id, row)
      PROVE  ReceivablesStay
  <2>1. tab \in TableName /\ tab # "receivables"
    BY DEF TableName
  <2>2. ReplacesRow(tab, id, row)
    BY <1>6, <2>1, WriteAndCommitEffect DEF Typed
  <2>3. TableStays("receivables")
    BY <2>1, <2>2, LineFacts DEF ReplacesRow, OthersStayBut
  <2> QED BY <2>3, TableViews
<1>7. ASSUME \/ \E a \in ApprovalIds : \E s : DecideApproval(a, s)
             \/ \E c, type, s : SubmitApproval(c, type, s)
             \/ \E u \in Units : \E s : UpdateUnit(u, s)
      PROVE  ReceivablesStay
  <2>1. Rows["units"] = Units /\ Rows["approval_requests"] = ApprovalIds
    BY DEF Rows
  <2> QED BY <1>6, <1>7, <2>1 DEF DecideApproval, SubmitApproval, NextApprovalId, UpdateUnit
<1>8. \/ UNCHANGED storage
      \/ \E l \in Lines : \E s : SettleReceivable(l, s)
      \/ \E a \in ApprovalIds : \E s : DecideApproval(a, s)
      \/ \E c, type, s : SubmitApproval(c, type, s)
      \/ \E u \in Units : \E s : UpdateUnit(u, s)
  BY DEF Others, ExpiryPasses, vars, storage
<1> QED BY <1>2, <1>3, <1>4, <1>5, <1>7, <1>8

\* A receivable is for its line's principal, and a draft has none but while it
\* is activated.
Fits ==
  \A l \in Lines :
    Rec(l) # NoReceivable =>
      Rec(l).original = Line(l).principal /\ Con(l[1]).status \notin {"none", "draft"}

NewFits ==
  \A l \in Lines :
    NewRec(l) # NoReceivable =>
      /\ NewRec(l).original = NewLine(l).principal
      /\ \/ NewCon(l[1]).status \notin {"none", "draft"}
         \/ \E t \in Tx : pc[t] = "bill_lines" /\ req[t].contract = l[1]

\* The lines of drafts only are written, and those still to bill are as t has
\* read them.
DraftFits(t) ==
  /\ pc[t] \in {"list_lines", "bill_lines", "insert_lines", "update_line"} =>
       NewCon(req[t].contract).status = "draft"
  /\ pc[t] = "bill_lines" =>
       \A n \in DOMAIN todo[t] : todo[t][n] = NewLine(<<req[t].contract, n>>).principal

BillsFit == Fits /\ NewFits /\ \A t \in Tx : DraftFits(t)

\* Lines and receivables that stay fit as long as no contract is a draft again.
LEMMA FitsStay ==
  ASSUME BillsFit, NEW t \in Tx, pc[t] # "bill_lines", Alone(t), LinesStay, ReceivablesStay,
         \A c \in Contracts : NewCon(c)'.status = NewCon(c).status
                              \/ NewCon(c)'.status \notin {"none", "draft"}
                              \/ NewCon(c).status \in {"none", "draft"}
  PROVE  NewFits'
<1> SUFFICES ASSUME NEW l \in Lines, NewRec(l)' # NoReceivable
             PROVE  /\ NewRec(l)'.original = NewLine(l)'.principal
                    /\ NewCon(l[1])'.status \notin {"none", "draft"}
  BY DEF NewFits
<1>1. /\ NewRec(l) # NoReceivable /\ NewRec(l)' = NewRec(l) /\ NewLine(l)' = NewLine(l)
      /\ l[1] \in Contracts
  BY LineFacts DEF LinesStay, ReceivablesStay
<1>2. ~\E x \in Tx : pc[x] = "bill_lines"
  BY DEF Alone
<1>3. /\ NewRec(l).original = NewLine(l).principal
      /\ NewCon(l[1]).status \notin {"none", "draft"}
  BY <1>1, <1>2 DEF BillsFit, NewFits
<1> QED BY <1>1, <1>3

\* What a statement of t does, while nobody else runs.
LEMMA ActsFit ==
  ASSUME Typed, BillsFit, NEW t \in Tx, Acts(t), Alone(t), SeesNewest(t)
  PROVE  NewFits' /\ DraftFits(t)'
<1>1. /\ RequestOK(t) /\ TodoOK(t) /\ DraftFits(t)
      /\ \A l \in Lines : NewLine(l) \in LineRow
      /\ \A c \in Contracts : NewCon(c) \in ContractRow
  BY TypedRows DEF BillsFit
<1>2. \A x \in Tx : pc[x] = "bill_lines" => x = t
  BY DEF Alone
<1>3. CASE \/ InsertsReservation(t) \/ ChangesUnit(t) \/ MovesReservation(t)
           \/ LooksForHolder(t) \/ AsksApproval(t)
  <2>1. /\ pc[t] # "bill_lines"
        /\ pc'[t] \notin {"list_lines", "bill_lines", "insert_lines", "update_line"}
    BY <1>3 DEF InsertsReservation, ChangesUnit, UnitStatusAt, MovesReservation,
       LooksForHolder, AsksApproval, Logs, Goes
  <2>2. /\ InsertsContract(t) \/ EditsContract(t) \/ MovesContract(t) => FALSE
        /\ PlansLines(t) \/ BillsLine(t) \/ UpdatesLine(t) => FALSE
    BY <1>3 DEF InsertsReservation, ChangesUnit, UnitStatusAt, MovesReservation,
       LooksForHolder, AsksApproval, InsertsContract, EditsContract, MovesContract,
       PlansLines, BillsLine, UpdatesLine
  <2>3. ContractsStay /\ LinesStay /\ ReceivablesStay
    BY <2>2, Untouched, TableViews
  <2>4. NewFits'
    BY <2>1, <2>3, FitsStay DEF ContractsStay
  <2> QED BY <2>1, <2>4 DEF DraftFits
<1>4. CASE InsertsContract(t) \/ EditsContract(t)
  <2>1. /\ pc[t] # "bill_lines"
        /\ pc'[t] \notin {"list_lines", "bill_lines", "insert_lines", "update_line"}
        /\ PlansLines(t) \/ BillsLine(t) \/ UpdatesLine(t) => FALSE
    BY <1>4 DEF InsertsContract, EditsContract, PlansLines, BillsLine, UpdatesLine, Logs
  <2>2. LinesStay /\ ReceivablesStay
    BY <2>1, Untouched, TableViews
  <2>3. ASSUME NEW c \in Contracts
        PROVE  \/ NewCon(c)'.status = NewCon(c).status
               \/ NewCon(c)'.status \notin {"none", "draft"}
               \/ NewCon(c).status \in {"none", "draft"}
    <3>1. CASE InsertsContract(t)
      <4>1. PICK d \in Contracts : \E row :
              NewCon(d) = NoContract /\ WritesRow(t, "sales_contracts", d, row)
        BY <3>1 DEF InsertsContract
      <4>2. \E row : ContractWritten(t, d, row)
        BY <4>1, TableViews
      <4> QED BY <4>1, <4>2 DEF ContractWritten, NoContract
    <3>2. CASE EditsContract(t)
      <4> DEFINE d == req[t].contract
      <4>1. d \in Contracts /\ NewCon(d).status = "draft"
            /\ \E row : ContractWritten(t, d, row)
        BY <3>2, TableViews DEF EditsContract
      <4> QED BY <4>1 DEF ContractWritten
    <3> QED BY <1>4, <3>1, <3>2
  <2>4. NewFits'
    BY <2>1, <2>2, <2>3, FitsStay
  <2> QED BY <2>1, <2>4 DEF DraftFits
<1>5. CASE MovesContract(t)
  <2>1. PICK c \in Contracts : c = req[t].contract
    BY <1>5 DEF MovesContract
  <2>2. PICK row : /\ row = [NewCon(c) EXCEPT !.status = To[req[t].op]]
                   /\ WritesRow(t, "sales_contracts", c, row)
    BY <1>5, <2>1 DEF MovesContract
  <2>3. row.status \notin {"none", "draft"}
    <3>1. req[t].op \in Mover
      BY <1>1, <1>5 DEF MovesContract, RequestOK, StatementsOf, Mover
    <3>2. To[req[t].op] \notin {"none", "draft"}
      BY <3>1 DEF To, Mover
    <3> QED BY <1>1, <2>2, <3>2 DEF ContractRow
  <2>4. ContractWritten(t, c, row)
    BY <2>2, TableViews
  <2>5. LinesStay /\ ReceivablesStay
    <3>1. ~PlansLines(t) /\ ~BillsLine(t) /\ ~UpdatesLine(t)
      BY <1>5 DEF MovesContract, PlansLines, BillsLine, UpdatesLine, Goes, Logs
    <3> QED BY <3>1, Untouched, TableViews
  <2>6. ASSUME NEW l \in Lines, NewRec(l)' # NoReceivable
        PROVE  /\ NewRec(l)'.original = NewLine(l)'.principal
               /\ NewCon(l[1])'.status \notin {"none", "draft"}
    <3>1. /\ NewRec(l) # NoReceivable /\ NewRec(l)' = NewRec(l) /\ NewLine(l)' = NewLine(l)
          /\ l[1] \in Contracts
      BY <2>5, <2>6, LineFacts DEF LinesStay, ReceivablesStay
    <3>2. /\ NewRec(l).original = NewLine(l).principal
          /\ NewCon(l[1]).status \notin {"none", "draft"} \/ l[1] = c
      BY <1>2, <2>1, <3>1 DEF BillsFit, NewFits
    <3> QED BY <2>3, <2>4, <3>1, <3>2 DEF ContractWritten
  <2>7. pc'[t] \notin {"list_lines", "bill_lines", "insert_lines", "update_line"}
    BY <1>5 DEF MovesContract, Goes, Logs
  <2> QED BY <2>6, <2>7 DEF NewFits, DraftFits
<1>6. CASE ListsLines(t)
  <2>1. PICK c \in Contracts : c = req[t].contract
    BY <1>6 DEF ListsLines
  <2>2. /\ pc[t] = "list_lines" /\ req'[t] = req[t] /\ UNCHANGED storage
        /\ \A n \in DOMAIN todo'[t] : n \in LineNos /\ todo'[t][n] = LineOf(t, <<c, n>>).principal
    BY <1>6, <2>1 DEF ListsLines
  <2>3. ContractsStay /\ LinesStay /\ ReceivablesStay
    BY <2>2, Untouched, TableViews DEF TableName
  <2>4. NewFits'
    BY <2>2, <2>3, FitsStay DEF ContractsStay
  <2>5. NewCon(c)'.status = "draft"
    BY <1>1, <2>1, <2>2, <2>3 DEF DraftFits, ContractsStay
  <2>6. \A n \in DOMAIN todo'[t] : todo'[t][n] = NewLine(<<c, n>>)'.principal
    BY <2>2, <2>3, LineFacts, SerialViews DEF LinesStay
  <2> QED BY <2>1, <2>2, <2>4, <2>5, <2>6 DEF DraftFits
<1>7. CASE PlansLines(t)
  <2>1. PICK c \in Contracts, p \in Schedules :
          /\ c = req[t].contract /\ InsertsPlan(t, c, p)
          /\ \/ pc[t] = "list_lines" /\ pc'[t] = "bill_lines" /\ todo'[t] = p
             \/ pc[t] = "insert_lines" /\ pc'[t] = "commit"
          /\ req'[t] = req[t]
    BY <1>7 DEF PlansLines, Logs
  <2>2. NewCon(c).status = "draft"
    BY <1>1, <2>1 DEF DraftFits
  <2>3. ContractsStay /\ ReceivablesStay
    BY <2>1, TableViews DEF InsertsPlan, TableName
  <2>4. \A n \in DOMAIN p : n \in LineNos /\ <<c, n>> \in Lines
                            /\ NewLine(<<c, n>>)'.principal = p[n]
    <3> SUFFICES ASSUME NEW n \in DOMAIN p
                 PROVE  n \in LineNos /\ <<c, n>> \in Lines
                        /\ NewLine(<<c, n>>)'.principal = p[n]
      OBVIOUS
    <3>1. /\ n \in LineNos
          /\ RowWritten(t, "installment_schedule_lines", <<c, n>>,
                        [principal |-> p[n], receivable |-> FALSE])
      BY <2>1 DEF InsertsPlan
    <3>2. NewLine(<<c, n>>)' = [principal |-> p[n], receivable |-> FALSE]
      BY <3>1 DEF RowWritten, NewLine
    <3> QED BY <3>1, <3>2, LineFacts
  <2>5. \A l \in Lines : l[1] # c => NewLine(l)' = NewLine(l)
    BY <2>1 DEF InsertsPlan, RowStays, NewLine
  <2>6. ASSUME NEW l \in Lines, NewRec(l)' # NoReceivable
        PROVE  /\ NewRec(l)'.original = NewLine(l)'.principal
               /\ NewCon(l[1])'.status \notin {"none", "draft"}
    <3>1. NewRec(l)' = NewRec(l) /\ NewRec(l) # NoReceivable /\ l[1] \in Contracts
      BY <2>3, <2>6, LineFacts DEF ReceivablesStay
    <3>2. /\ NewRec(l).original = NewLine(l).principal
          /\ NewCon(l[1]).status \notin {"none", "draft"}
      BY <1>2, <2>1, <3>1 DEF BillsFit, NewFits
    <3>3. l[1] # c
      BY <2>2, <3>2
    <3> QED BY <2>3, <2>5, <3>1, <3>2, <3>3 DEF ContractsStay
  <2>7. NewCon(c)'.status = "draft"
    BY <2>2, <2>3 DEF ContractsStay
  <2> QED BY <2>1, <2>4, <2>6, <2>7 DEF NewFits, DraftFits
<1>8. CASE BillsLine(t)
  <2>1. PICK c \in Contracts : c = req[t].contract
    BY <1>8 DEF BillsLine
  <2>2. PICK n \in DOMAIN todo[t] :
          /\ todo'[t] = [m \in DOMAIN todo[t] \ {n} |-> todo[t][m]]
          /\ RowWritten(t, "receivables", <<c, n>>,
                        [original |-> todo[t][n], status |-> "open"])
          /\ RowWritten(t, "installment_schedule_lines", <<c, n>>,
                        [NewLine(<<c, n>>) EXCEPT !.receivable = TRUE])
          /\ \A l \in Lines \ {<<c, n>>} :
               RowStays("receivables", l) /\ RowStays("installment_schedule_lines", l)
    BY <1>8, <2>1 DEF BillsLine
  <2>3. /\ pc[t] = "bill_lines" /\ pc'[t] = "bill_lines" /\ req'[t] = req[t]
        /\ ContractsStay
    BY <1>8, TableViews DEF BillsLine, TableName
  <2>4. <<c, n>> \in Lines /\ \A m \in DOMAIN todo[t] : <<c, m>> \in Lines
    BY <1>1, <2>1, LineFacts DEF TodoOK
  <2>5. /\ NewRec(<<c, n>>)'.original = todo[t][n]
        /\ NewLine(<<c, n>>)'.principal = NewLine(<<c, n>>).principal
        /\ \A l \in Lines \ {<<c, n>>} : NewRec(l)' = NewRec(l) /\ NewLine(l)' = NewLine(l)
    BY <1>1, <2>2, <2>4 DEF RowWritten, RowStays, NewRec, NewLine, LineRow
  <2>6. /\ NewCon(c).status = "draft"
        /\ \A m \in DOMAIN todo[t] : todo[t][m] = NewLine(<<c, m>>).principal
    BY <1>1, <2>1, <2>3 DEF DraftFits
  <2>7. ASSUME NEW l \in Lines, NewRec(l)' # NoReceivable
        PROVE  /\ NewRec(l)'.original = NewLine(l)'.principal
               /\ NewCon(l[1])'.status \notin {"none", "draft"} \/ l[1] = c
    <3>1. CASE l = <<c, n>>
      BY <2>5, <2>6, <3>1
    <3>2. CASE l # <<c, n>>
      <4>1. NewRec(l)' = NewRec(l) /\ NewLine(l)' = NewLine(l) /\ l[1] \in Contracts
        BY <2>5, <3>2, LineFacts
      <4>2. /\ NewRec(l).original = NewLine(l).principal
            /\ NewCon(l[1]).status \notin {"none", "draft"} \/ l[1] = c
        BY <1>2, <2>1, <2>7, <4>1 DEF BillsFit, NewFits
      <4> QED BY <2>3, <4>1, <4>2 DEF ContractsStay
    <3> QED BY <3>1, <3>2
  <2>8. NewFits'
    BY <2>1, <2>3, <2>7 DEF NewFits
  <2>9. \A m \in DOMAIN todo'[t] : todo'[t][m] = NewLine(<<c, m>>)'.principal
    BY <2>2, <2>4, <2>5, <2>6
  <2> QED BY <2>1, <2>3, <2>6, <2>8, <2>9 DEF DraftFits, ContractsStay
<1>9. CASE UpdatesLine(t)
  <2>1. PICK c \in Contracts, l0 \in Lines : c = req[t].contract /\ l0 = <<c, req[t].line>>
    BY <1>9, LineFacts DEF UpdatesLine
  <2>2. /\ pc[t] = "update_line" /\ pc'[t] = "commit"
        /\ \E row : WritesRow(t, "installment_schedule_lines", l0, row)
    BY <1>9, <2>1 DEF UpdatesLine, Logs
  <2>3. NewCon(c).status = "draft"
    BY <1>1, <2>1, <2>2 DEF DraftFits
  <2>4. ContractsStay /\ ReceivablesStay
    <3>1. TableStays("sales_contracts") /\ TableStays("receivables")
      BY <2>2 DEF WritesRow, OthersStayBut, TableName
    <3> QED BY <3>1, TableViews
  <2>5. \A l \in Lines \ {l0} : NewLine(l)' = NewLine(l)
    BY <2>2, LineFacts DEF WritesRow, OthersStayBut, RowStays, NewLine
  <2>6. ASSUME NEW l \in Lines, NewRec(l)' # NoReceivable
        PROVE  /\ NewRec(l)'.original = NewLine(l)'.principal
               /\ NewCon(l[1])'.status \notin {"none", "draft"}
    <3>1. NewRec(l)' = NewRec(l) /\ NewRec(l) # NoReceivable /\ l[1] \in Contracts
      BY <2>4, <2>6, LineFacts DEF ReceivablesStay
    <3>2. /\ NewRec(l).original = NewLine(l).principal
          /\ NewCon(l[1]).status \notin {"none", "draft"}
      BY <1>2, <2>2, <3>1 DEF BillsFit, NewFits
    <3>3. l # l0
      BY <2>1, <2>3, <3>2
    <3> QED BY <2>4, <2>5, <3>1, <3>2, <3>3 DEF ContractsStay
  <2> QED BY <2>2, <2>6 DEF NewFits, DraftFits
<1> QED BY <1>3, <1>4, <1>5, <1>6, <1>7, <1>8, <1>9 DEF Acts

LEMMA BillsFitNext ==
  ASSUME Typed, NoIdleLocks, BillsFit, [Next]_vars, OneRunning, OneRunning'
  PROVE  BillsFit'
<1>1. CASE Others \/ UNCHANGED vars
  <2>1. /\ ContractsStay /\ LinesStay /\ pc' = pc /\ req' = req /\ todo' = todo
        /\ \A l \in Lines :
             /\ Rec(l)' # NoReceivable =>
                  Rec(l) # NoReceivable /\ Rec(l)'.original = Rec(l).original
             /\ NewRec(l)' # NoReceivable =>
                  NewRec(l) # NoReceivable /\ NewRec(l)'.original = NewRec(l).original
    BY <1>1, OthersBill
  <2>2. Fits'
    BY <2>1, LineFacts DEF BillsFit, Fits, ContractsStay, LinesStay
  <2>3. NewFits'
    BY <2>1, LineFacts DEF BillsFit, NewFits, ContractsStay, LinesStay
  <2>4. ASSUME NEW t \in Tx PROVE DraftFits(t)'
    <3>1. DraftFits(t) /\ RequestOK(t) /\ TodoOK(t)
      BY TypedRows DEF BillsFit
    <3>2. pc[t] \in {"list_lines", "bill_lines", "insert_lines", "update_line"} =>
            req[t].contract \in Contracts
      BY <3>1 DEF RequestOK, FieldsOK, StatementsOf, OnContract
    <3> QED BY <2>1, <3>1, <3>2, LineFacts DEF DraftFits, ContractsStay, LinesStay, TodoOK
  <2> QED BY <2>2, <2>3, <2>4 DEF BillsFit
<1>2. ASSUME NEW t \in Tx, SerialStep(t) PROVE BillsFit'
  <2>1. \A x \in Tx \ {t} : DraftFits(x)'
    BY <1>2 DEF SerialStep, Alone, DraftFits
  <2>2. CASE (Begun(t) \/ Acts(t)) /\ Kept
    <3>1. ASSUME NEW l \in Lines, NewRec(l)' # NoReceivable, Begun(t)
          PROVE  /\ NewRec(l)'.original = NewLine(l)'.principal
                 /\ NewCon(l[1])'.status \notin {"none", "draft"}
      <4>1. LinesStay /\ ReceivablesStay /\ ContractsStay /\ pc[t] # "bill_lines"
        BY <3>1, Untouched, TableViews DEF TableName, Begun
      <4>2. NewRec(l) # NoReceivable /\ l[1] \in Contracts
        BY <3>1, <4>1, LineFacts DEF ReceivablesStay
      <4>3. ~\E x \in Tx : pc[x] = "bill_lines"
        BY <1>2, <4>1 DEF SerialStep, Alone
      <4> QED BY <4>1, <4>2, <4>3
              DEF BillsFit, NewFits, LinesStay, ReceivablesStay, ContractsStay
    <3>2. Begun(t) => DraftFits(t)'
      <4> SUFFICES ASSUME Begun(t) PROVE DraftFits(t)'
        OBVIOUS
      <4>1. /\ pc'[t] # "bill_lines" /\ ContractsStay /\ ~Step(t)
        BY Untouched, TableViews, StepEffect, ActsControl
           DEF TableName, Begun, FirstStatement, Acts, Ends
      <4>2. pc'[t] \in {"list_lines", "insert_lines", "update_line"} =>
              /\ req'[t].contract \in Contracts
              /\ ContractOf(t, req'[t].contract).status = "draft"
        BY <1>2, <4>1, StartReads DEF SerialStep
      <4> QED BY <1>2, <4>1, <4>2, SerialViews DEF SerialStep, DraftFits, ContractsStay
    <3>3. NewFits' /\ DraftFits(t)'
      BY <1>2, <2>2, <3>1, <3>2, ActsFit DEF NewFits, SerialStep
    <3>4. Fits'
      BY <2>2, LineFacts, SerialViews DEF BillsFit, Fits
    <3> QED BY <2>1, <3>3, <3>4 DEF BillsFit
  <2>3. CASE Ends(t) /\ pc[t] = "commit" /\ Published
    <3>1. ~\E x \in Tx : pc[x] = "bill_lines"
      BY <1>2, <2>3 DEF SerialStep, Alone
    <3>2. \A l \in Lines : NewRec(l) # NoReceivable =>
            /\ NewRec(l).original = NewLine(l).principal
            /\ NewCon(l[1]).status \notin {"none", "draft"}
      BY <3>1 DEF BillsFit, NewFits
    <3>3. Fits' /\ NewFits'
      BY <2>3, <3>2, LineFacts, SerialViews DEF Fits, NewFits
    <3>4. DraftFits(t)'
      BY <2>3 DEF Ends, DraftFits
    <3> QED BY <2>1, <3>3, <3>4 DEF BillsFit
  <2>4. CASE Ends(t) /\ Undone
    <3>1. Fits' /\ NewFits'
      BY <2>4, LineFacts, SerialViews DEF BillsFit, Fits, NewFits
    <3>2. DraftFits(t)'
      BY <2>4 DEF Ends, DraftFits
    <3> QED BY <2>1, <3>1, <3>2 DEF BillsFit
  <2> QED BY <1>2, <2>2, <2>3, <2>4 DEF SerialStep
<1> QED BY <1>1, <1>2, SerialSteps

LEMMA SpecIdle == Spec => []NoIdleLocks
<1>1. Init => NoIdleLocks
  BY InitFacts, NilAssumption DEF NoIdleLocks
<1> QED BY <1>1, IdleLocksNext, SpecTyped, PTL DEF Spec

\* While requests are handled one at a time the receivable of a line is for the
\* line's principal: only the lines of drafts are changed, and a draft's lines
\* have receivables only while it is activated, from the lines as they are.
THEOREM LinesAreBilledAsScheduled == Spec /\ []OneRunning => []BilledAsScheduled
<1>1. Init => BillsFit
  <2> SUFFICES ASSUME Init PROVE BillsFit
    OBVIOUS
  <2>1. /\ Typed /\ \A t \in Tx : pc[t] = "idle"
        /\ \A l \in Lines : Rec(l) = NoReceivable
        /\ \A tab \in TableName : \A id \in Rows[tab] : owner[tab][id] = Nil
    BY InitFacts
  <2>2. \A l \in Lines : RecLocker(l) = Nil
    BY <2>1, LineFacts DEF RecLocker
  <2>3. \A l \in Lines : NewRec(l) = NoReceivable
    BY <2>1, <2>2, TypedRows
  <2> QED BY <2>1, <2>3 DEF BillsFit, Fits, NewFits, DraftFits
<1>2. /\ Typed /\ NoIdleLocks /\ BillsFit /\ [Next]_vars /\ OneRunning /\ OneRunning'
      => BillsFit'
  BY BillsFitNext
<1>3. BillsFit => BilledAsScheduled
  BY DEF BillsFit, Fits, BilledAsScheduled, Rec, Line
<1> QED BY <1>1, <1>2, <1>3, SpecTyped, SpecIdle, PTL DEF Spec

-----------------------------------------------------------------------------
(***************************************************************************)
(* One request at a time: the unit of an active contract is not available. *)
(***************************************************************************)
\* Nobody cancels a draft: that makes the draft's unit available, whoever has
\* it meanwhile.
NoDraftCancelled ==
  \A t \in Tx : pc[t] # "idle" => ~(req[t].op = "cancel" /\ req[t].from = "draft")

\* No contract is active, or about to be, for unit u.
NoneActive(u) ==
  \A c \in Contracts : ~(NewCon(c).status = "active" /\ NewCon(c).unit = u)

\* A unit is released when no contract holds it.
LEMMA ReleaseReads ==
  ASSUME Typed, NEW t \in Tx, Step(t), SeesNewest(t), pc[t] # "release_unit",
         pc'[t] = "release_unit"
  PROVE  NoneActive(req[t].unit)
<1>1. pc \in [Tx -> Statement]
  BY DEF Typed, ControlTypeOK
<1>2. \A e, id : Log(t, e, id) => pc'[t] = "commit"
  BY <1>1 DEF Log
<1>3. LookForHolder(t)
  BY <1>1, <1>2 DEF Step, InsertReservation, ReserveUnit, ConvertInsertContract,
     ConvertStatus, CancelReservationStatus, ReleaseUnit, InsertContract, UpdateContract,
     ActivateListLines, BillLine, ActivateStatus, SellUnit, EndContract, FreeUnit,
     InsertApproval, CompleteStatus, DefaultStatus, InsertLines, UpdateLine, Commit,
     Rollback, EndRequest
<1>4. ~UnitIsHeld(t, req[t].unit)
  BY <1>2, <1>3 DEF LookForHolder
<1>5. \A c \in Contracts : ContractOf(t, c) = NewCon(c)
  BY SerialViews
<1> QED BY <1>4, <1>5 DEF UnitIsHeld, ActiveSalesContractsForUnit, NoneActive

\* The unit of an active contract is taken, and will be when t commits, unless
\* a client set its status and t does not.
Taken ==
  \A c \in Contracts :
    Con(c).status = "active" /\ Con(c).unit \notin byHand =>
      db.units[Con(c).unit] # "available"

LeftByHand == {u \in byHand : owner.units[u] = Nil}

NewTaken ==
  \A c \in Contracts :
    NewCon(c).status = "active" =>
      \/ dirty.units[NewCon(c).unit] # "available"
      \/ NewCon(c).unit \in LeftByHand
      \/ \E t \in Tx : pc[t] = "sell_unit" /\ req[t].contract = c

FreesFree(t) == pc[t] \in {"release_unit", "free_unit"} => NoneActive(req[t].unit)

UnitsTaken == Taken /\ NewTaken /\ \A t \in Tx : FreesFree(t)

\* What a statement of t does, while nobody else runs.
LEMMA ActsTake ==
  ASSUME Sound, UnitsTaken, NoDraftCancelled, NEW t \in Tx, Acts(t), Step(t), Alone(t),
         SeesNewest(t)
  PROVE  NewTaken' /\ FreesFree(t)'
<1>1. /\ Typed /\ RequestOK(t) /\ ContractsSoundFor(t) /\ FreesFree(t)
      /\ \A c \in Contracts : /\ NewCon(c) \in ContractRow /\ ContractRowOK(NewCon(c))
                              /\ Con(c) \in ContractRow
  BY TypedRows DEF Sound, ContractsSound, UnitsTaken
<1>2. \A x \in Tx : pc[x] = "sell_unit" => x = t
  BY DEF Alone
<1>3. ASSUME NEW c \in Contracts, NewCon(c).status = "active"
      PROVE  /\ NewCon(c).unit \in Units
             /\ \/ dirty.units[NewCon(c).unit] # "available"
                \/ NewCon(c).unit \in LeftByHand
                \/ pc[t] = "sell_unit" /\ req[t].contract = c
  <2>1. NewCon(c).unit \in Units
    BY <1>1, <1>3 DEF ContractRowOK, NoContract
  <2> QED BY <1>2, <1>3, <2>1 DEF UnitsTaken, NewTaken, LeftByHand
<1>9. byHand' = byHand
  BY <1>1, ActsControl
<1>4. CASE ChangesUnit(t)
  <2>1. PICK u \in Units : /\ u = req[t].unit
                           /\ WritesRow(t, "units", u, UnitStatusAt[pc[t]])
    BY <1>4 DEF ChangesUnit
  <2>2. /\ dirty'.units[u] = UnitStatusAt[pc[t]]
        /\ \A v \in Units \ {u} : /\ dirty'.units[v] = dirty.units[v]
                                  /\ v \in LeftByHand => v \in LeftByHand'
        /\ ContractsStay
    <3>1. "units" \in TableName /\ Rows["units"] = Units /\ TableStays("sales_contracts")
      BY <2>1 DEF TableName, Rows, WritesRow, OthersStayBut
    <3> QED BY <1>9, <2>1, <3>1, TableViews
            DEF WritesRow, OthersStayBut, RowWritten, RowStays, LeftByHand
  <2>3. pc'[t] = "commit" /\ pc[t] \in {"reserve_unit", "release_unit", "sell_unit", "free_unit"}
    BY <1>4 DEF ChangesUnit, Logs, UnitStatusAt
  <2>4. ASSUME NEW c \in Contracts, NewCon(c)'.status = "active"
        PROVE  dirty'.units[NewCon(c)'.unit] # "available" \/ NewCon(c)'.unit \in LeftByHand'
    <3>1. NewCon(c)' = NewCon(c) /\ NewCon(c).status = "active"
      BY <2>2, <2>4 DEF ContractsStay
    <3>2. CASE NewCon(c).unit = u
      <4>1. pc[t] \notin {"release_unit", "free_unit"}
        BY <1>1, <2>1, <3>1, <3>2 DEF FreesFree, NoneActive
      <4>2. UnitStatusAt[pc[t]] # "available"
        BY <2>3, <4>1 DEF UnitStatusAt
      <4> QED BY <2>2, <3>1, <3>2, <4>2
    <3>3. CASE NewCon(c).unit # u
      <4>1. ~(pc[t] = "sell_unit" /\ req[t].contract = c)
        <5> SUFFICES ASSUME pc[t] = "sell_unit", req[t].contract = c PROVE FALSE
          OBVIOUS
        <5>1. ConLocker(c) = t /\ req[t].op = "activate"
          BY <1>1 DEF ContractsSoundFor, WriterLocks, HasWritten, RequestOK, StatementsOf
        <5>2. Moves(t, c)
          BY <1>1, <5>1 DEF ContractsSoundFor, ContractLocks, Edits, Inserts
        <5>3. NewCon(c).unit = Con(c).unit
          BY <1>1, <5>2 DEF Moves, ContractRow
        <5>4. Con(c).unit = u
          BY <1>1, <2>1, <5>1 DEF ContractsSoundFor, UnitIsRemembered, OnContract
        <5> QED BY <3>3, <5>3, <5>4
      <4>2. PICK v \in Units : v = NewCon(c).unit
        BY <1>3, <3>1
      <4>3. dirty.units[v] # "available" \/ v \in LeftByHand
        BY <1>3, <3>1, <4>1, <4>2
      <4>4. dirty'.units[v] # "available" \/ v \in LeftByHand'
        BY <2>2, <3>3, <4>2, <4>3 DEF LeftByHand
      <4> QED BY <3>1, <4>2, <4>4
    <3> QED BY <3>2, <3>3
  <2> QED BY <2>3, <2>4 DEF NewTaken, FreesFree
<1>5. ASSUME ~ChangesUnit(t)
      PROVE  /\ \A u \in Units : /\ dirty'.units[u] = dirty.units[u]
                                 /\ u \in LeftByHand => u \in LeftByHand'
             /\ pc[t] # "sell_unit"
  <2>1. UnitsStay
    BY <1>5, Untouched, TableViews
  <2>2. pc[t] # "sell_unit"
    BY <1>5 DEF Acts, InsertsReservation, ChangesUnit, MovesReservation, LooksForHolder,
       InsertsContract, EditsContract, MovesContract, ListsLines, PlansLines, BillsLine,
       AsksApproval, UpdatesLine
  <2> QED BY <1>9, <2>1, <2>2 DEF UnitsStay, RowStays, LeftByHand
<1>10. ASSUME ~ChangesUnit(t), NEW c \in Contracts, NewCon(c).status = "active",
              NewCon(c)' = NewCon(c)
       PROVE  dirty'.units[NewCon(c)'.unit] # "available" \/ NewCon(c)'.unit \in LeftByHand'
  <2>1. PICK v \in Units : v = NewCon(c).unit
    BY <1>3, <1>10
  <2>2. dirty.units[v] # "available" \/ v \in LeftByHand
    BY <1>3, <1>5, <1>10, <2>1
  <2>3. dirty'.units[v] # "available" \/ v \in LeftByHand'
    BY <1>5, <1>10, <2>2 DEF LeftByHand
  <2> QED BY <1>10, <2>1, <2>3
<1>6. CASE MovesContract(t)
  <2>1. PICK c \in Contracts : c = req[t].contract
    BY <1>6 DEF MovesContract
  <2>2. PICK row : /\ row = [NewCon(c) EXCEPT !.status = To[req[t].op]]
                   /\ ContractWritten(t, c, row)
    BY <1>6, <2>1, TableViews DEF MovesContract
  <2>3. /\ ~ChangesUnit(t) /\ pc'[t] \in {"sell_unit", "free_unit", "commit"}
        /\ pc'[t] = "sell_unit" <=> req[t].op = "activate"
        /\ pc'[t] = "free_unit" <=> pc[t] = "end_contract"
        /\ req'[t] = req[t] /\ req[t].op \in Mover
    BY <1>6 DEF MovesContract, ChangesUnit, UnitStatusAt, Goes, Logs, Mover
  <2>4. /\ \A d \in Contracts \ {c} : NewCon(d)' = NewCon(d)
        /\ NewCon(c)' = row /\ row.status = To[req[t].op]
    BY <1>1, <2>2 DEF ContractWritten, ContractRow
  <2>5. row.status = "active" => pc'[t] = "sell_unit"
    BY <2>3, <2>4 DEF To, Mover
  <2>6. NewTaken'
    <3> SUFFICES ASSUME NEW d \in Contracts, NewCon(d)'.status = "active"
                 PROVE  \/ dirty'.units[NewCon(d)'.unit] # "available"
                        \/ NewCon(d)'.unit \in LeftByHand'
                        \/ pc'[t] = "sell_unit" /\ req'[t].contract = d
      BY DEF NewTaken
    <3>1. CASE d = c
      BY <2>1, <2>3, <2>4, <2>5, <3>1
    <3>2. CASE d # c
      BY <1>10, <2>3, <2>4, <3>2
    <3> QED BY <3>1, <3>2
  <2>7. FreesFree(t)'
    <3> SUFFICES ASSUME pc'[t] = "free_unit", NEW d \in Contracts,
                        NewCon(d)'.status = "active", NewCon(d)'.unit = req[t].unit
                 PROVE  FALSE
      BY <2>3 DEF FreesFree, NoneActive
    <3>1. /\ pc[t] = "end_contract" /\ req[t].op \in {"cancel", "terminate"}
          /\ From(req[t]) = "active"
      <4>1. pc[t] = "end_contract" /\ req[t].op \in {"cancel", "terminate"}
        BY <1>6, <2>3 DEF MovesContract, Goes, Logs
      <4> QED BY <1>1, <4>1 DEF NoDraftCancelled, RequestOK, FieldsOK, From
    <3>2. d # c /\ NewCon(d) = NewCon(d)'
      BY <2>4, <2>5, <3>1
    <3>3. NewCon(c) = Con(c)
      <4>1. ConLocker(c) # t
        BY <1>1, <2>1, <3>1, ContractLocked DEF Sound
      <4>2. ConLocker(c) = Nil
        BY <2>2, <4>1 DEF ContractWritten
      <4> QED BY <1>1, <4>2, TypedRows
    <3>4. NewCon(c).status = "active" /\ NewCon(c).unit = req[t].unit
      <4>1. NewCon(c).status = "active"
        BY <1>6, <2>1, <3>1 DEF MovesContract
      <4>2. Con(c).unit = req[t].unit
        BY <1>1, <2>1, <3>1 DEF ContractsSoundFor, UnitIsRemembered, OnContract
      <4> QED BY <3>3, <4>1, <4>2
    <3> QED BY <3>2, <3>4 DEF Sound, OneActive
  <2> QED BY <2>6, <2>7
<1>7. CASE InsertsContract(t) \/ EditsContract(t)
  <2>1. PICK c \in Contracts :
          \E row : ContractWritten(t, c, row) /\ row.status # "active"
    <3>1. CASE InsertsContract(t)
      <4>1. PICK c \in Contracts, b \in BOOLEAN :
              WritesRow(t, "sales_contracts", c,
                        [status |-> "draft", unit |-> req[t].unit,
                         source |-> req[t].reservation, template |-> b])
        BY <3>1 DEF InsertsContract
      <4>2. PICK row : row = [status |-> "draft", unit |-> req[t].unit,
                              source |-> req[t].reservation, template |-> b]
        OBVIOUS
      <4>3. row.status = "draft"
        BY <4>2
      <4>4. ContractWritten(t, c, row)
        BY <4>1, <4>2, TableViews
      <4> QED BY <4>3, <4>4
    <3>2. CASE EditsContract(t)
      <4>1. PICK d \in Contracts : d = req[t].contract /\ NewCon(d).status = "draft"
        BY <3>2 DEF EditsContract
      <4>2. PICK row : row = [NewCon(d) EXCEPT !.template = TRUE]
        OBVIOUS
      <4>3. row.status = "draft"
        BY <1>1, <4>1, <4>2 DEF ContractRow
      <4>4. ContractWritten(t, d, row)
        BY <3>2, <4>1, <4>2, TableViews DEF EditsContract
      <4> QED BY <4>3, <4>4
    <3> QED BY <1>7, <3>1, <3>2
  <2>2. ~ChangesUnit(t) /\ pc'[t] \notin {"sell_unit", "free_unit", "release_unit"}
    BY <1>7 DEF InsertsContract, EditsContract, ChangesUnit, UnitStatusAt, Logs
  <2>3. ASSUME NEW d \in Contracts, NewCon(d)'.status = "active"
        PROVE  dirty'.units[NewCon(d)'.unit] # "available" \/ NewCon(d)'.unit \in LeftByHand'
    <3>1. NewCon(d)' = NewCon(d)
      BY <2>1, <2>3 DEF ContractWritten
    <3> QED BY <1>10, <2>2, <2>3, <3>1
  <2> QED BY <2>2, <2>3 DEF NewTaken, FreesFree
<1>8. CASE \/ InsertsReservation(t) \/ MovesReservation(t) \/ LooksForHolder(t)
           \/ ListsLines(t) \/ PlansLines(t) \/ BillsLine(t) \/ AsksApproval(t)
           \/ UpdatesLine(t)
  <2>1. CASE MovesContract(t)
    BY <1>6, <2>1
  <2>2. CASE ChangesUnit(t)
    BY <1>4, <2>2
  <2>3. CASE ~MovesContract(t) /\ ~ChangesUnit(t)
    <3>1. /\ ~InsertsContract(t) /\ ~EditsContract(t) /\ pc'[t] # "free_unit"
          /\ pc'[t] = "release_unit" => LooksForHolder(t) /\ pc[t] = "look_for_holder"
                                        /\ req'[t] = req[t]
      BY <1>8, <2>3 DEF InsertsReservation, MovesReservation,
         LooksForHolder, AsksApproval, InsertsContract, EditsContract,
         PlansLines, BillsLine, UpdatesLine, ListsLines, Logs, Goes
    <3>2. ContractsStay
      BY <2>3, <3>1, Untouched, TableViews
    <3>3. ASSUME NEW d \in Contracts, NewCon(d)'.status = "active"
          PROVE  dirty'.units[NewCon(d)'.unit] # "available" \/ NewCon(d)'.unit \in LeftByHand'
      <4>1. NewCon(d)' = NewCon(d)
        BY <3>2 DEF ContractsStay
      <4> QED BY <1>10, <2>3, <3>3, <4>1
    <3>4. ASSUME pc'[t] = "release_unit", NEW d \in Contracts
          PROVE  ~(NewCon(d)'.status = "active" /\ NewCon(d)'.unit = req'[t].unit)
      <4>1. NoneActive(req[t].unit)
        BY <1>1, <3>1, <3>4, ReleaseReads
      <4> QED BY <3>1, <3>2, <3>4, <4>1 DEF NoneActive, ContractsStay
    <3> QED BY <3>1, <3>3, <3>4 DEF NewTaken, FreesFree, NoneActive
  <2> QED BY <2>1, <2>2, <2>3
<1> QED BY <1>4, <1>6, <1>7, <1>8 DEF Acts

LEMMA UnitsTakenNext ==
  ASSUME Sound, NoIdleLocks, UnitsTaken, NoDraftCancelled, [Next]_vars, OneRunning,
         OneRunning'
  PROVE  UnitsTaken'
<1>1. /\ Typed
      /\ \A c \in Contracts : /\ ContractRowOK(Con(c)) /\ ContractRowOK(NewCon(c))
                              /\ Con(c).status = "active" => Con(c).unit \in Units
                              /\ NewCon(c).status = "active" => NewCon(c).unit \in Units
  BY TypedRows DEF Sound, ContractRowOK, NoContract
<1>2. "units" \in TableName /\ Rows["units"] = Units
  BY DEF TableName, Rows
<1>3. ASSUME ContractsStay, UNCHANGED <<pc, req>>,
             \A u \in Units : \/ RowStays("units", u) /\ (u \in byHand' <=> u \in byHand)
                             \/ u \in LeftByHand'
      PROVE  UnitsTaken'
  <2>1. ASSUME NEW u \in Units
        PROVE  /\ u \in byHand' \/ (u \notin byHand /\ db'.units[u] = db.units[u])
               /\ u \in LeftByHand => u \in LeftByHand'
               /\ u \in LeftByHand' \/ dirty'.units[u] = dirty.units[u]
    BY <1>3 DEF RowStays, LeftByHand
  <2>2. \A c \in Contracts : Con(c)' = Con(c) /\ NewCon(c)' = NewCon(c)
    BY <1>3 DEF ContractsStay
  <2>3. Taken'
    <3> SUFFICES ASSUME NEW c \in Contracts, Con(c)'.status = "active",
                        Con(c)'.unit \notin byHand'
                 PROVE  db'.units[Con(c)'.unit] # "available"
      BY DEF Taken
    <3>1. Con(c)' = Con(c) /\ Con(c).unit \in Units
      BY <1>1, <2>2
    <3> QED BY <2>1, <3>1 DEF UnitsTaken, Taken
  <2>4. NewTaken'
    <3> SUFFICES ASSUME NEW c \in Contracts, NewCon(c)'.status = "active"
                 PROVE  \/ dirty'.units[NewCon(c)'.unit] # "available"
                        \/ NewCon(c)'.unit \in LeftByHand'
                        \/ \E t \in Tx : pc'[t] = "sell_unit" /\ req'[t].contract = c
      BY DEF NewTaken
    <3>1. NewCon(c)' = NewCon(c) /\ NewCon(c).unit \in Units
      BY <1>1, <2>2
    <3>2. \/ dirty.units[NewCon(c).unit] # "available"
          \/ NewCon(c).unit \in LeftByHand
          \/ \E t \in Tx : pc[t] = "sell_unit" /\ req[t].contract = c
      BY <3>1 DEF UnitsTaken, NewTaken
    <3>3. NewCon(c)'.unit \in LeftByHand' \/ dirty'.units[NewCon(c)'.unit] = dirty.units[NewCon(c).unit]
      BY <2>1, <3>1 DEF LeftByHand
    <3>4. NewCon(c).unit \in LeftByHand => NewCon(c)'.unit \in LeftByHand'
      BY <2>1, <3>1 DEF LeftByHand
    <3> QED BY <1>3, <3>2, <3>3, <3>4
  <2>5. \A t \in Tx : FreesFree(t)'
    BY <1>3, <2>2 DEF UnitsTaken, FreesFree, NoneActive
  <2> QED BY <2>3, <2>4, <2>5 DEF UnitsTaken
<1>4. CASE SettlesOther
  <2>1. ContractsStay /\ UNCHANGED <<pc, req>>
    BY <1>4, Untouched, TableViews DEF TableName, SettlesOther
  <2>2. CASE UnitEntered
    <3>1. PICK v \in Units, row \in SalesStatus :
            ReplacesRow("units", v, row) /\ byHand' = byHand \cup {v}
      BY <2>2 DEF UnitEntered
    <3>2. ASSUME NEW u \in Units
          PROVE  \/ RowStays("units", u) /\ (u \in byHand' <=> u \in byHand)
                 \/ u \in LeftByHand'
      <4>1. CASE u = v
        BY <1>2, <3>1, <4>1 DEF ReplacesRow, RowReplaced, LeftByHand
      <4>2. CASE u # v
        BY <1>2, <3>1, <4>2 DEF ReplacesRow, OthersStayBut
      <4> QED BY <4>1, <4>2
    <3> QED BY <1>3, <2>1, <3>2
  <2>3. CASE TableStays("units") /\ byHand' = byHand
    <3>1. \A u \in Units : RowStays("units", u)
      BY <1>2, <2>3 DEF TableStays
    <3> QED BY <1>3, <2>1, <2>3, <3>1
  <2> QED BY <1>4, <2>2, <2>3, Untouched
<1>5. ASSUME NEW t \in Tx, SerialStep(t) PROVE UnitsTaken'
  <2>1. \A x \in Tx \ {t} : FreesFree(x)'
    BY <1>5 DEF SerialStep, Alone, FreesFree
  <2>2. CASE (Begun(t) \/ Acts(t)) /\ Kept
    <3>1. byHand' = byHand /\ Taken'
      <4>1. \A u \in Units : db'.units[u] = db.units[u]
        BY <1>2, <2>2 DEF Kept
      <4>2. byHand' = byHand
        BY <1>1, <2>2, ActsControl DEF Begun
      <4> QED BY <1>1, <2>2, <4>1, <4>2, SerialViews DEF UnitsTaken, Taken
    <3>2. CASE Begun(t)
      <4>1. UnitsStay /\ ContractsStay
        BY <1>2, <3>2, Untouched, TableViews DEF TableName
      <4>2. \A x \in Tx : pc[x] # "sell_unit"
        BY <1>5, <3>2 DEF SerialStep, Alone, Begun
      <4>3. NewTaken'
        BY <1>1, <3>1, <4>1, <4>2
           DEF UnitsStay, RowStays, ContractsStay, UnitsTaken, NewTaken, LeftByHand
      <4>4. FreesFree(t)'
        BY <3>2 DEF Begun, FirstStatement, FreesFree
      <4> QED BY <2>1, <3>1, <4>3, <4>4 DEF UnitsTaken
    <3>3. CASE Acts(t)
      <4>1. Step(t)
        BY <1>1, <1>5, <3>3, StartEffect, ActsControl DEF SerialStep, Begun
      <4>2. NewTaken' /\ FreesFree(t)'
        BY <1>5, <3>3, <4>1, ActsTake DEF SerialStep
      <4> QED BY <2>1, <3>1, <4>2 DEF UnitsTaken
    <3> QED BY <2>2, <3>2, <3>3
  <2>3. CASE Ends(t) /\ pc[t] = "commit" /\ Published /\ Commits(t)
    <3>1. \A u \in Units : db'.units[u] = dirty.units[u] /\ dirty'.units[u] = dirty.units[u]
      BY <1>2, <2>3 DEF Published
    <3>2. \A x \in Tx : pc[x] # "sell_unit"
      BY <1>5, <2>3 DEF SerialStep, Alone
    <3>3. Taken' /\ NewTaken'
      <4>1. ASSUME NEW c \in Contracts, NewCon(c).status = "active"
            PROVE  /\ NewCon(c).unit \in Units
                   /\ \/ dirty'.units[NewCon(c).unit] # "available"
                      \/ NewCon(c)'.unit \in LeftByHand'
        <5>1. NewCon(c).unit \in Units
          BY <1>1, <4>1
        <5>2. ASSUME NewCon(c).unit \in LeftByHand PROVE NewCon(c)'.unit \in LeftByHand'
          <6>1. PICK u \in Units : u = NewCon(c).unit
            BY <5>1
          <6>2. u \in byHand /\ owner.units[u] = Nil
            BY <5>2, <6>1 DEF LeftByHand
          <6>3. u \in byHand' /\ owner'.units[u] = Nil
            BY <1>2, <2>3, <6>2, NilAssumption DEF Commits, CommitsRows
          <6>4. NewCon(c)' = NewCon(c)
            BY <2>3, SerialViews
          <6> QED BY <6>1, <6>3, <6>4 DEF LeftByHand
        <5> QED BY <3>1, <3>2, <4>1, <5>1, <5>2 DEF UnitsTaken, NewTaken
      <4>2. \A c \in Contracts : Con(c)' = NewCon(c) /\ NewCon(c)' = NewCon(c)
        BY <2>3, SerialViews
      <4>3. Taken'
        BY <3>1, <4>1, <4>2 DEF Taken, LeftByHand
      <4>4. NewTaken'
        BY <4>1, <4>2 DEF NewTaken
      <4> QED BY <4>3, <4>4
    <3>4. FreesFree(t)'
      BY <2>3 DEF Ends, FreesFree
    <3> QED BY <2>1, <3>3, <3>4 DEF UnitsTaken
  <2>4. CASE Ends(t) /\ Undone /\ RollsBack(t)
    <3>1. \A u \in Units : db'.units[u] = db.units[u] /\ dirty'.units[u] = db.units[u]
      BY <1>2, <2>4 DEF Undone
    <3>2. Taken' /\ NewTaken'
      <4>1. \A c \in Contracts : Con(c)' = Con(c) /\ NewCon(c)' = Con(c)
        BY <2>4, SerialViews
      <4>2. byHand' = byHand /\ \A u \in Units : owner'.units[u] = Nil
        BY <1>2, <1>5, <2>4 DEF RollsBack, RollsBackRows, SerialStep, SeesNewest
      <4>3. Taken'
        BY <1>1, <3>1, <4>1, <4>2 DEF UnitsTaken, Taken
      <4> QED BY <1>1, <3>1, <4>1, <4>2, <4>3 DEF Taken, NewTaken, LeftByHand
    <3>3. FreesFree(t)'
      BY <2>4 DEF Ends, FreesFree
    <3> QED BY <2>1, <3>2, <3>3 DEF UnitsTaken
  <2> QED BY <1>5, <2>2, <2>3, <2>4 DEF SerialStep
<1> QED BY <1>1, <1>4, <1>5, SerialSteps

\* While requests are handled one at a time, and no draft is cancelled, the unit
\* of an active contract is available only if a client made it so: whoever else
\* makes a unit available has seen that no other contract holds it, and nobody
\* takes it meanwhile.
THEOREM ActiveUnitsAreTaken ==
  Spec /\ []OneRunning /\ []NoDraftCancelled => []ActiveNotAvailable
<1>1. Init => UnitsTaken
  <2> SUFFICES ASSUME Init PROVE UnitsTaken
    OBVIOUS
  <2>1. /\ Typed /\ \A t \in Tx : pc[t] = "idle"
        /\ \A tab \in TableName : \A id \in Rows[tab] : owner[tab][id] = Nil
        /\ \A c \in Contracts : Con(c) = NoContract
    <3>1. PICK sales_status : db = EmptyTables(sales_status)
      BY DEF Init
    <3>2. \A c \in Contracts : Con(c) = NoContract
      BY <3>1 DEF EmptyTables, Con
    <3> QED BY <3>2, InitFacts DEF Init
  <2>2. \A c \in Contracts : ConLocker(c) = Nil
    BY <2>1 DEF ConLocker, TableName, Rows
  <2>3. \A c \in Contracts : NewCon(c) = NoContract
    BY <2>1, <2>2, TypedRows
  <2> QED BY <2>1, <2>3 DEF UnitsTaken, Taken, NewTaken, FreesFree, NoContract
<1>2. /\ Sound /\ NoIdleLocks /\ UnitsTaken /\ NoDraftCancelled /\ [Next]_vars
      /\ OneRunning /\ OneRunning'
      => UnitsTaken'
  BY UnitsTakenNext
<1>3. UnitsTaken => ActiveNotAvailable
  BY DEF UnitsTaken, Taken, ActiveNotAvailable, StatusOf, UnitOf, Con
<1> QED BY <1>1, <1>2, <1>3, SpecSound, SpecIdle, PTL DEF Spec

-----------------------------------------------------------------------------
(***************************************************************************)
(* One request at a time: an ending is asked for once.                     *)
(***************************************************************************)
Approval(a) == db.approval_requests[a]

\* No request of this type for contract c waits to be decided.
NonePending(c, type) ==
  \A a \in ApprovalIds :
    ~ /\ Approval(a).status = "pending" /\ Approval(a).contract = c
      /\ Approval(a).type = type

\* Approvals are asked for in the order of their ids, and of those to end a
\* contract only the latest may wait to be decided.
LatestWaits ==
  /\ \A a, b \in ApprovalIds :
       a < b /\ Approval(b) # NoApproval => Approval(a) # NoApproval
  /\ \A a, b \in ApprovalIds :
       /\ a < b /\ Approval(b) # NoApproval
       /\ Approval(a).contract = Approval(b).contract
       /\ Approval(a).type = Approval(b).type
       /\ Approval(b).type # "schedule_restructure"
       => Approval(a).status # "pending"

\* t asks to end a contract only while nobody else does, and what it asks for
\* is the latest request.
AsksOnce(t) ==
  /\ pc[t] = "insert_approval" /\ req[t].op \in {"cancel", "terminate"} =>
       NonePending(req[t].contract, req[t].type)
  /\ \A a \in ApprovalIds :
       owner.approval_requests[a] = t =>
         /\ \A b \in ApprovalIds : Approval(b) = NoApproval => a <= b
         /\ dirty.approval_requests[a] # NoApproval
         /\ dirty.approval_requests[a].type # "schedule_restructure" =>
              NonePending(dirty.approval_requests[a].contract,
                          dirty.approval_requests[a].type)

AskedOnce == LatestWaits /\ \A t \in Tx : AsksOnce(t)

\* Two requests that wait would both be the latest.
LEMMA LatestIsOne == LatestWaits => NoDuplicatePending
<1> SUFFICES ASSUME LatestWaits, NEW c \in Contracts,
                    NEW type \in RequestType \ {"schedule_restructure"}
             PROVE  Cardinality({a \in ApprovalIds : Approval(a) =
                      [status |-> "pending", contract |-> c, type |-> type]}) <= 1
  BY DEF NoDuplicatePending, Approval
<1> DEFINE waiting == {a \in ApprovalIds : Approval(a) =
                         [status |-> "pending", contract |-> c, type |-> type]}
<1>1. \A a, b \in waiting : ~(a < b)
  BY DEF LatestWaits, NoApproval
<1>2. \A a \in waiting : a \in Nat
  BY SalesAssumption
<1> HIDE DEF waiting
<1>3. \A a, b \in waiting : a = b
  BY <1>1, <1>2
<1>4. Cardinality(waiting) <= 1
  BY <1>3, AllAlike
<1> QED BY <1>4 DEF waiting

\* Where the latest request of a type does not wait, none does.
LEMMA LatestDecided ==
  ASSUME LatestWaits, NEW t \in Tx, NEW c \in Contracts,
         NEW type \in RequestType \ {"schedule_restructure"},
         GetLatestSalesApprovalRequest(t, c, type) # "pending",
         \A a \in ApprovalIds : owner.approval_requests[a] # t
  PROVE  NonePending(c, type)
<1> SUFFICES ASSUME NEW a \in ApprovalIds, Approval(a).status = "pending",
                    Approval(a).contract = c, Approval(a).type = type
             PROVE  FALSE
  BY DEF NonePending
<1> DEFINE found == {b \in ApprovalIds :
                       /\ Sees(t, "approval_requests", b).contract = c
                       /\ Sees(t, "approval_requests", b).type = type}
           latest == CHOOSE b \in found : \A d \in found : d <= b
<1>1. a \in found /\ Sees(t, "approval_requests", a) = Approval(a)
  BY DEF Sees, Approval
<1>2. IsFiniteSet(found) /\ found \in SUBSET Nat
  BY SalesAssumption, FS_Subset
<1>3. \E b \in found : \A d \in found : d <= b
  <2> HIDE DEF found
  <2> QED BY <1>1, <1>2, LatestExists
<1>4. latest \in found /\ \A d \in found : d <= latest
  BY <1>3
<1>5. Sees(t, "approval_requests", latest).status # "pending"
  BY <1>1 DEF GetLatestSalesApprovalRequest
<1> HIDE DEF latest
<1>6. /\ latest \in ApprovalIds /\ latest \in Nat /\ a \in Nat /\ a <= latest
      /\ Approval(latest).contract = c /\ Approval(latest).status # "pending"
      /\ Approval(latest).type = type
  BY <1>1, <1>2, <1>4, <1>5 DEF Sees, Approval
<1>7. Approval(latest) # NoApproval
  BY <1>6, SalesAssumption DEF NoApproval
<1>8. a < latest
  BY <1>6
<1> QED BY <1>6, <1>7, <1>8 DEF LatestWaits

\* Unless clients enter requests of their own, others only decide those there
\* are: fewer wait then.
LEMMA DecisionAsked ==
  ASSUME Typed, AskedOnce, Others \/ UNCHANGED vars, ~Submitted
  PROVE  AskedOnce'
<1>0. /\ "approval_requests" \in TableName /\ Rows["approval_requests"] = ApprovalIds
      /\ RowType["approval_requests"] = ApprovalRow
      /\ StorageTypeOK /\ Nil \notin Tx
  BY NilAssumption DEF TableName, Rows, RowType, Typed
<1>1. SettlesOther
  BY OthersEffect
<1>2. TableStays("approval_requests") \/ \E b \in ApprovalIds :
        \E s \in {"approved", "rejected", "cancelled"} : DecideApproval(b, s)
  <2>1. ASSUME NEW c, NEW type \in RequestType, NEW s \in ApprovalStatus \ {"none"},
               SubmitApproval(c, type, s)
        PROVE  FALSE
    <3> DEFINE row == [status |-> s, contract |-> c, type |-> type]
    <3>1. row # NoApproval
      BY DEF NoApproval
    <3> HIDE DEF row
    <3>2. PICK a \in ApprovalIds : /\ dirty.approval_requests[a] = NoApproval
                                   /\ WriteAndCommit("approval_requests", a, row)
      BY <2>1 DEF SubmitApproval, NextApprovalId, row
    <3>3. db'.approval_requests[a] = row
      BY <1>0, <3>2, WriteAndCommitEffect DEF ReplacesRow, RowReplaced
    <3> QED BY <3>1, <3>2, <3>3 DEF Submitted
  <2>2. ASSUME NEW l \in Lines, NEW s, SettleReceivable(l, s)
        PROVE  TableStays("approval_requests")
    <3>1. \E row : WriteAndCommit("receivables", l, row)
      BY <2>2 DEF SettleReceivable
    <3>2. \E row : ReplacesRow("receivables", l, row)
      BY <1>0, <3>1, LineFacts, WriteAndCommitEffect
    <3> QED BY <1>0, <3>2 DEF ReplacesRow, OthersStayBut
  <2>3. CASE UNCHANGED storage
    BY <1>0, <2>3, Untouched
  <2>4. UNCHANGED vars \/ (\E r \in Reservations : ExpiryPasses(r)) => UNCHANGED storage
    BY DEF vars, storage, ExpiryPasses
  <2>5. ASSUME NEW u \in Units, NEW s, UpdateUnit(u, s)
        PROVE  TableStays("approval_requests")
    <3>1. "units" \in TableName /\ Rows["units"] = Units
      BY DEF TableName, Rows
    <3>2. ReplacesRow("units", u, s)
      BY <1>0, <2>5, <3>1, WriteAndCommitEffect DEF UpdateUnit
    <3> QED BY <1>0, <3>2 DEF ReplacesRow, OthersStayBut
  <2> QED BY <2>1, <2>2, <2>3, <2>4, <2>5 DEF Others
<1>3. ASSUME NEW a \in ApprovalIds
      PROVE  /\ Approval(a)' = NoApproval <=> Approval(a) = NoApproval
             /\ Approval(a)'.contract = Approval(a).contract
             /\ Approval(a)'.type = Approval(a).type
             /\ Approval(a)'.status = "pending" => Approval(a).status = "pending"
             /\ owner'.approval_requests[a] = owner.approval_requests[a]
             /\ owner.approval_requests[a] # Nil =>
                  dirty'.approval_requests[a] = dirty.approval_requests[a]
  <2>1. CASE TableStays("approval_requests")
    BY <1>0, <2>1 DEF TableStays, RowStays, Approval
  <2>2. ASSUME NEW b \in ApprovalIds, NEW s \in {"approved", "rejected", "cancelled"},
               DecideApproval(b, s)
        PROVE  /\ Approval(a)' = NoApproval <=> Approval(a) = NoApproval
               /\ Approval(a)'.contract = Approval(a).contract
               /\ Approval(a)'.type = Approval(a).type
               /\ Approval(a)'.status = "pending" => Approval(a).status = "pending"
               /\ owner'.approval_requests[a] = owner.approval_requests[a]
               /\ owner.approval_requests[a] # Nil =>
                    dirty'.approval_requests[a] = dirty.approval_requests[a]
    <3>1. PICK row : row = [db["approval_requests"][b] EXCEPT !.status = s]
      OBVIOUS
    <3>2. /\ Approval(b).status = "pending"
          /\ WriteAndCommit("approval_requests", b, row)
      BY <2>2, <3>1 DEF DecideApproval, Approval
    <3>3. Approval(b) \in ApprovalRow
      BY <1>0 DEF StorageTypeOK, Approval
    <3>4. /\ row.status = s /\ row.contract = Approval(b).contract
          /\ row.type = Approval(b).type
      BY <3>1, <3>3 DEF ApprovalRow, Approval
    <3>5. /\ owner.approval_requests[b] = Nil /\ owner'.approval_requests[b] = Nil
          /\ Approval(b)' = row
          /\ a # b => RowStays("approval_requests", a)
      BY <1>0, <3>2, WriteAndCommitEffect DEF ReplacesRow, RowReplaced, OthersStayBut, Approval
    <3>6. CASE a = b
      BY <3>2, <3>4, <3>5, <3>6 DEF NoApproval
    <3>7. CASE a # b
      BY <3>5, <3>7 DEF RowStays, Approval
    <3> QED BY <3>6, <3>7
  <2> QED BY <1>2, <2>1, <2>2
<1>4. pc' = pc /\ req' = req
  BY <1>1 DEF SettlesOther
<1>5. LatestWaits'
  BY <1>3 DEF AskedOnce, LatestWaits
<1>6. ASSUME NEW t \in Tx PROVE AsksOnce(t)'
  <2>1. \A c, type : NonePending(c, type) => NonePending(c, type)'
    BY <1>3 DEF NonePending
  <2>2. AsksOnce(t)
    BY DEF AskedOnce
  <2>3. \A a \in ApprovalIds : owner'.approval_requests[a] = t =>
          /\ owner.approval_requests[a] = t
          /\ dirty'.approval_requests[a] = dirty.approval_requests[a]
    BY <1>0, <1>3
  <2>4. \A b \in ApprovalIds : Approval(b)' = NoApproval => Approval(b) = NoApproval
    BY <1>3
  <2> QED BY <1>4, <2>1, <2>2, <2>3, <2>4 DEF AsksOnce
<1> QED BY <1>5, <1>6 DEF AskedOnce

\* A transaction that commits publishes the latest request.
LEMMA CommitAsked ==
  ASSUME LatestWaits, NEW t \in Tx, AsksOnce(t), ApprovalLocks(t), CommitsRows(t)
  PROVE  LatestWaits'
<1>0. "approval_requests" \in TableName /\ Rows["approval_requests"] = ApprovalIds
  BY DEF TableName, Rows
<1>1. ASSUME NEW a \in ApprovalIds
      PROVE  /\ a \in Nat
             /\ owner.approval_requests[a] = t =>
                  /\ Approval(a) = NoApproval
                  /\ Approval(a)' # NoApproval
                  /\ \A b \in ApprovalIds : Approval(b) = NoApproval => a <= b
                  /\ Approval(a)'.type # "schedule_restructure" =>
                       NonePending(Approval(a)'.contract, Approval(a)'.type)
             /\ owner.approval_requests[a] # t => Approval(a)' = Approval(a)
  <2>1. a \in Nat
    BY SalesAssumption
  <2>2. Approval(a)' = IF owner.approval_requests[a] = t
                         THEN dirty.approval_requests[a] ELSE Approval(a)
    BY <1>0 DEF CommitsRows, Approval
  <2>3. owner.approval_requests[a] = t => Approval(a) = NoApproval
    BY DEF ApprovalLocks, Approval
  <2>4. owner.approval_requests[a] = t =>
          /\ \A b \in ApprovalIds : Approval(b) = NoApproval => a <= b
          /\ dirty.approval_requests[a] # NoApproval
          /\ dirty.approval_requests[a].type # "schedule_restructure" =>
               NonePending(dirty.approval_requests[a].contract,
                           dirty.approval_requests[a].type)
    BY DEF AsksOnce
  <2> QED BY <2>1, <2>2, <2>3, <2>4
<1>2. ASSUME NEW a \in ApprovalIds, NEW b \in ApprovalIds, a < b,
             Approval(b)' # NoApproval
      PROVE  Approval(a) # NoApproval /\ Approval(a)' = Approval(a)
  <2>1. Approval(a) # NoApproval
    <3>1. CASE owner.approval_requests[b] = t
      <4>1. Approval(a) = NoApproval => b <= a
        BY <1>1, <3>1
      <4>2. a \in Nat /\ b \in Nat
        BY <1>1
      <4> QED BY <1>2, <4>1, <4>2
    <3>2. CASE owner.approval_requests[b] # t
      <4>1. Approval(b) # NoApproval
        BY <1>1, <1>2, <3>2
      <4> QED BY <1>2, <4>1 DEF LatestWaits
    <3> QED BY <3>1, <3>2
  <2> QED BY <1>1, <2>1
<1>3. ASSUME NEW a \in ApprovalIds, NEW b \in ApprovalIds, a < b,
             Approval(b)' # NoApproval, Approval(a)'.contract = Approval(b)'.contract,
             Approval(a)'.type = Approval(b)'.type,
             Approval(b)'.type # "schedule_restructure"
      PROVE  Approval(a)'.status # "pending"
  <2>1. Approval(a)' = Approval(a)
    BY <1>2, <1>3
  <2>2. CASE owner.approval_requests[b] = t
    <3>1. NonePending(Approval(b)'.contract, Approval(b)'.type)
      BY <1>1, <1>3, <2>2
    <3> QED BY <1>3, <2>1, <3>1 DEF NonePending
  <2>3. CASE owner.approval_requests[b] # t
    <3>1. Approval(b)' = Approval(b)
      BY <1>1, <2>3
    <3>2. Approval(a).status # "pending"
      BY <1>3, <2>1, <3>1 DEF LatestWaits
    <3> QED BY <2>1, <3>2
  <2> QED BY <2>2, <2>3
<1>4. ASSUME NEW a \in ApprovalIds, NEW b \in ApprovalIds, a < b,
             Approval(b)' # NoApproval
      PROVE  Approval(a)' # NoApproval
  BY <1>2, <1>4
<1> QED BY <1>3, <1>4 DEF LatestWaits

\* What t does while nobody else runs.
LEMMA StepAsked ==
  ASSUME Typed, ApprovalsSound, AskedOnce, NEW t \in Tx, SerialStep(t)
  PROVE  LatestWaits' /\ AsksOnce(t)'
<1>1. /\ RequestOK(t) /\ LatestWaits /\ AsksOnce(t) /\ ApprovalLocks(t) /\ Nil \notin Tx
      /\ "approval_requests" \in TableName /\ Rows["approval_requests"] = ApprovalIds
  BY TypedRows, NilAssumption DEF AskedOnce, ApprovalsSound, TableName, Rows
<1>2. pc[t] # "commit" => \A a \in ApprovalIds : owner.approval_requests[a] # t
  BY <1>1 DEF ApprovalLocks
<1>3. ASSUME TableStays("approval_requests")
      PROVE  /\ LatestWaits' /\ \A c, type : NonePending(c, type) => NonePending(c, type)'
             /\ \A a \in ApprovalIds :
                  owner'.approval_requests[a] = owner.approval_requests[a]
  BY <1>1, <1>3 DEF TableStays, RowStays, LatestWaits, NonePending, Approval
<1>4. CASE Begun(t)
  <2>1. TableStays("approval_requests") /\ pc[t] = "idle" /\ ~Step(t)
    BY <1>1, <1>4, Untouched, StepEffect, ActsControl DEF Begun, FirstStatement, Acts, Ends
  <2>2. \A a \in ApprovalIds : owner.approval_requests[a] # t
    BY <1>2, <2>1
  <2>3. ASSUME pc'[t] = "insert_approval", req'[t].op \in {"cancel", "terminate"}
        PROVE  NonePending(req'[t].contract, req'[t].type)
    <3>1. /\ req'[t].contract \in Contracts
          /\ req'[t].type \in RequestType \ {"schedule_restructure"}
          /\ GetLatestSalesApprovalRequest(t, req'[t].contract, req'[t].type) # "pending"
      BY <2>1, <2>3, StartReads DEF SerialStep
    <3> QED BY <1>1, <2>2, <3>1, LatestDecided
  <2> QED BY <1>3, <2>1, <2>2, <2>3 DEF AsksOnce
<1>5. CASE Acts(t) /\ ~AsksApproval(t)
  <2>1. TableStays("approval_requests") /\ pc[t] # "commit"
    BY <1>5, Untouched, ActsControl
  <2>2. pc'[t] # "insert_approval"
    BY <1>5 DEF Acts, InsertsReservation, ChangesUnit, MovesReservation, LooksForHolder,
       InsertsContract, EditsContract, MovesContract, ListsLines, PlansLines, BillsLine,
       UpdatesLine, Logs, Goes
  <2> QED BY <1>2, <1>3, <2>1, <2>2 DEF AsksOnce
<1>6. CASE AsksApproval(t)
  <2>1. PICK row : row = [status |-> "pending", contract |-> req[t].contract,
                          type |-> req[t].type]
    OBVIOUS
  <2>2. PICK a \in ApprovalIds :
          /\ \A b \in ApprovalIds : dirty.approval_requests[b] = NoApproval => a <= b
          /\ WritesRow(t, "approval_requests", a, row)
    BY <1>6, <2>1 DEF AsksApproval
  <2>3. /\ pc[t] = "insert_approval" /\ pc'[t] = "commit"
        /\ req[t].op \in {"cancel", "terminate", "update_line"}
    BY <1>1, <1>6 DEF AsksApproval, Logs, RequestOK, StatementsOf
  <2>4. \A b \in ApprovalIds : dirty.approval_requests[b] = Approval(b)
    <3>1. \A b \in ApprovalIds : owner.approval_requests[b] # t
      BY <1>2, <2>3
    <3>2. SeesNewest(t)
      BY DEF SerialStep
    <3> QED BY <1>1, <3>1, <3>2 DEF SeesNewest, Sees, Approval
  <2>5. /\ row # NoApproval
        /\ row.type # "schedule_restructure" => NonePending(row.contract, row.type)
    <3>1. row.type # "schedule_restructure" => req[t].op \in {"cancel", "terminate"}
      BY <1>1, <2>1, <2>3 DEF RequestOK, FieldsOK
    <3> QED BY <1>1, <2>1, <2>3, <3>1 DEF AsksOnce, NoApproval
  <2>6. \A b \in ApprovalIds :
          /\ Approval(b)' = Approval(b)
          /\ owner'.approval_requests[b] = t => b = a /\ dirty'.approval_requests[b] = row
    <3>1. \A b \in ApprovalIds : owner.approval_requests[b] # t
      BY <1>2, <2>3
    <3> QED BY <1>1, <2>2, <3>1 DEF WritesRow, RowWritten, OthersStayBut, RowStays, Approval
  <2>7. LatestWaits' /\ \A c, type : NonePending(c, type) => NonePending(c, type)'
    BY <1>1, <2>6 DEF LatestWaits, NonePending
  <2>8. \A b \in ApprovalIds : Approval(b)' = NoApproval => a <= b
    BY <2>2, <2>4, <2>6
  <2>9. pc'[t] # "insert_approval"
    BY <2>3
  <2> QED BY <2>5, <2>6, <2>7, <2>8, <2>9 DEF AsksOnce
<1>7. CASE Ends(t)
  <2>1. AsksOnce(t)'
    <3>1. pc'[t] = "idle" /\ \A a \in ApprovalIds : owner'.approval_requests[a] # t
      BY <1>1, <1>7 DEF Ends, Commits, RollsBack, CommitsRows, RollsBackRows
    <3> QED BY <3>1 DEF AsksOnce
  <2>2. CASE CommitsRows(t)
    BY <1>1, <2>1, <2>2, CommitAsked
  <2>3. CASE RollsBackRows(t)
    <3>1. \A a \in ApprovalIds : Approval(a)' = Approval(a)
      BY <1>1, <2>3 DEF RollsBackRows, Approval
    <3> QED BY <1>1, <2>1, <3>1 DEF LatestWaits
  <2> QED BY <1>7, <2>2, <2>3 DEF Ends, Commits, RollsBack
<1> QED BY <1>4, <1>5, <1>6, <1>7 DEF SerialStep

LEMMA AskedNext ==
  ASSUME Typed, NoIdleLocks, ApprovalsSound, AskedOnce, [Next]_vars, ~Submitted,
         OneRunning, OneRunning'
  PROVE  AskedOnce'
<1>1. CASE Others \/ UNCHANGED vars
  BY <1>1, DecisionAsked
<1>2. ASSUME NEW t \in Tx, SerialStep(t) PROVE AskedOnce'
  <2>1. LatestWaits' /\ AsksOnce(t)'
    BY <1>2, StepAsked
  <2>2. ASSUME NEW x \in Tx \ {t} PROVE AsksOnce(x)'
    <3>1. NoIdleLocks' /\ pc'[x] = "idle"
      BY <1>2, IdleLocksNext DEF SerialStep, Alone
    <3>2. \A a \in ApprovalIds : owner'.approval_requests[a] # x
      BY <3>1 DEF NoIdleLocks, TableName, Rows
    <3> QED BY <3>1, <3>2 DEF AsksOnce
  <2> QED BY <2>1, <2>2 DEF AskedOnce
<1> QED BY <1>1, <1>2, SerialSteps

\* While requests are handled one at a time, and no client enters an approval
\* request of its own, a contract has one pending request to end it at most:
\* cancelling and terminating ask only when the latest does not wait, and then
\* no earlier one does either.
THEOREM OneEndingWaits ==
  Spec /\ []OneRunning /\ [][~Submitted]_vars => []NoDuplicatePending
<1>1. Init => AskedOnce
  <2> SUFFICES ASSUME Init PROVE AskedOnce
    OBVIOUS
  <2>1. /\ \A t \in Tx : pc[t] = "idle"
        /\ \A a \in ApprovalIds : owner.approval_requests[a] = Nil
    BY InitFacts DEF TableName, Rows
  <2>2. \A a \in ApprovalIds : Approval(a) = NoApproval
    BY DEF Init, EmptyTables, Approval
  <2>3. \A t \in Tx : AsksOnce(t)
    BY <2>1, NilAssumption DEF AsksOnce
  <2> QED BY <2>2, <2>3 DEF AskedOnce, LatestWaits
<1>2. /\ Sound /\ ApprovalsSound /\ NoIdleLocks /\ AskedOnce /\ [Next]_vars
      /\ OneRunning /\ OneRunning' /\ [~Submitted]_vars
      => AskedOnce'
  <2>1. UNCHANGED vars => (AskedOnce => AskedOnce')
    BY DEF vars, storage, AskedOnce, LatestWaits, AsksOnce, NonePending, Approval
  <2> QED BY <2>1, AskedNext DEF Sound
<1>3. Sound /\ ApprovalsSound /\ [Next]_vars => ApprovalsSound'
  BY ApprovalsNext DEF Sound
<1>4. Init => ApprovalsSound
  <2>1. Init => /\ \A t \in Tx : pc[t] = "idle"
                /\ \A a \in ApprovalIds : owner["approval_requests"][a] = Nil
    BY InitFacts DEF TableName, Rows
  <2> QED BY <2>1, NilAssumption DEF ApprovalsSound, ApprovalLocks, EndApproved, WillEnd
<1>5. AskedOnce => NoDuplicatePending
  BY LatestIsOne DEF AskedOnce
<1> QED BY <1>1, <1>2, <1>3, <1>4, <1>5, SpecSound, SpecIdle, PTL DEF Spec

-----------------------------------------------------------------------------
(***************************************************************************)
(* The workloads with one client.                                          *)
(***************************************************************************)
\* The transactions that handle a request.
Running == {t \in Tx : pc[t] # "idle"}

\* With one client no more than one request is handled, and what is handled is
\* of the workload.
OneClient == OneAtATime => IsFiniteSet(Running) /\ Cardinality(Running) <= 1

OfTheLoad == \A t \in Tx : pc[t] # "idle" => req[t].op \in load.ops

\* A step starts or ends the requests of one transaction at most.
LEMMA NextClient ==
  ASSUME Typed, OneClient, [MCNext]_<<vars, load>>
  PROVE  OneClient'
<1> SUFFICES ASSUME OneAtATime'
             PROVE  IsFiniteSet(Running') /\ Cardinality(Running') <= 1
  BY DEF OneClient
<1>0. /\ load' = load /\ OneAtATime
      /\ IsFiniteSet(Running) /\ Cardinality(Running) <= 1
  BY DEF MCNext, OneClient, OneAtATime
<1>1. CASE UNCHANGED <<vars, load>>
  BY <1>0, <1>1 DEF vars, Running
<1>2. CASE MCNext
  <2>1. [Next]_vars
    BY <1>2 DEF MCNext
  <2>2. CASE SettlesOther
    BY <1>0, <2>2 DEF SettlesOther, Running
  <2>3. ASSUME NEW t \in Tx, OthersStay(t) PROVE IsFiniteSet(Running')
    <3>1. Running' \subseteq Running \cup {t}
      BY <2>3 DEF Running, OthersStay
    <3> QED BY <1>0, <3>1, FS_AddElement, FS_Subset
  <2>4. IsFiniteSet(Running')
    BY <1>0, <2>1, <2>2, <2>3, WholeSteps
  <2>5. Cardinality(Running') <= 1
    BY <1>0, <1>2 DEF MCNext, Within, Running, OneAtATime
  <2> QED BY <2>4, <2>5
<1> QED BY <1>1, <1>2

LEMMA NextOfTheLoad ==
  ASSUME OfTheLoad, Typed', [MCNext]_<<vars, load>>
  PROVE  OfTheLoad'
<1>1. CASE UNCHANGED <<vars, load>>
  BY <1>1 DEF vars, OfTheLoad
<1>2. CASE MCNext
  <2> SUFFICES ASSUME NEW t \in Tx, pc'[t] # "idle" PROVE req'[t].op \in load'.ops
    BY DEF OfTheLoad
  <2>1. req'[t] \in Request
    BY DEF Typed, ControlTypeOK, RequestOK
  <2> QED BY <1>2, <2>1, NilIsNoRequest DEF MCNext, Within
<1> QED BY <1>1, <1>2

\* What the workloads with one client are to show, for any of them: receivables
\* are for what was scheduled; the unit of an active contract is taken, if no
\* contract is cancelled; and an ending is asked for once, if no client enters
\* an approval request.
THEOREM SeriallySalesSound == MCSpec => []SeriallySound
<1> DEFINE Cancels == "cancel" \in load.ops
           Submits == "submit_approval" \in load.ops
<1>1. MCInit => Init /\ OneClient /\ OfTheLoad
  <2> SUFFICES ASSUME MCInit PROVE OneClient /\ OfTheLoad
    BY DEF MCInit
  <2>1. Running = {}
    BY DEF MCInit, Init, Running
  <2> QED BY <2>1, FS_EmptySet DEF OneClient, OfTheLoad, Running
<1>2. Sound /\ OneClient /\ [MCNext]_<<vars, load>> => OneClient'
  BY NextClient DEF Sound
<1>3. Sound' /\ OfTheLoad /\ [MCNext]_<<vars, load>> => OfTheLoad'
  BY NextOfTheLoad DEF Sound
<1>4. OneClient => (OneAtATime => OneRunning)
  BY AtMostOne DEF OneClient, OneRunning, Running
<1>5. OfTheLoad => (~Cancels => NoDraftCancelled)
  BY DEF OfTheLoad, NoDraftCancelled
<1>6. [MCNext]_<<vars, load>> =>
        /\ [Next]_vars /\ (~Submits => [~Submitted]_vars)
        /\ (OneAtATime <=> OneAtATime') /\ (Cancels <=> Cancels') /\ (Submits <=> Submits')
  BY DEF MCNext, OneAtATime
<1>7. SeriallySound <=>
        (OneAtATime => /\ BilledAsScheduled
                       /\ ~Cancels => ActiveNotAvailable
                       /\ ~Submits => NoDuplicatePending)
  BY DEF SeriallySound
<1> HIDE DEF Cancels, Submits
<1>8. MCSpec => Spec /\ []OneClient /\ []OfTheLoad
  BY <1>1, <1>2, <1>3, <1>6, SpecSound, PTL DEF Spec, MCSpec
<1>9. MCSpec => [](OneAtATime => BilledAsScheduled)
  BY <1>4, <1>6, <1>8, LinesAreBilledAsScheduled, PTL DEF MCSpec
<1>10. MCSpec => [](OneAtATime /\ ~Cancels => ActiveNotAvailable)
  BY <1>4, <1>5, <1>6, <1>8, ActiveUnitsAreTaken, PTL DEF MCSpec
<1>11. MCSpec => [](OneAtATime /\ ~Submits => NoDuplicatePending)
  BY <1>4, <1>6, <1>8, OneEndingWaits, PTL DEF MCSpec
<1> QED BY <1>7, <1>9, <1>10, <1>11, PTL
=============================================================================
