----------------------------- MODULE LeasesProofs -----------------------------
(***************************************************************************)
(* Proofs about Leases, for any number of units, leases, bills, approvals  *)
(* and concurrent transactions.  What is committed is right because of     *)
(* what an open transaction may have done so far, so the invariants say,   *)
(* of every row that is locked, who has locked it and what its new version *)
(* is.  They come in layers: each is inductive given those before it.      *)
(* While one request is handled at a time, what it reads is what is        *)
(* committed.  At the end the bills of a term, as LeaseBilling makes them. *)
(***************************************************************************)
EXTENDS MCLeases, LeaseBilling, Sequences, ReadCommittedProofs, FiniteSetTheorems

Op == {"create", "update", "activate", "generate", "terminate", "renew",
       "deposit_refund"}

Request == [op : Op \cup {Nil}, lease : LeaseIds \cup {Nil}, unit : Units \cup {Nil},
            periods : 0..MaxPeriods, renews : LeaseIds \cup {Nil},
            type : RequestType \cup {Nil}, next : 1..(MaxPeriods + 1)]

\* The statements of each handler.
StatementsOf(op) ==
  CASE op = "create"         -> {"insert_lease", "commit"}
    [] op = "update"         -> {"update_lease", "commit"}
    [] op = "activate"       -> {"activate_status", "insert_party", "occupy", "commit"}
    [] op = "generate"       -> {"bill", "commit"}
    [] op = "terminate"      -> {"terminate_status", "close_parties", "vacate",
                                 "insert_approval", "commit"}
    [] op = "renew"          -> {"renew_status", "insert_lease", "commit"}
    [] op = "deposit_refund" -> {"insert_approval", "commit"}

\* What a transaction remembers fits its handler.
RequestOK(t) ==
  pc[t] # "idle" =>
    /\ req[t] \in Request /\ req[t].op \in Op
    /\ pc[t] \in StatementsOf(req[t].op)
    /\ req[t].op # "create" => req[t].lease \in LeaseIds
    /\ req[t].op \in {"create", "update", "renew"} => req[t].periods # 0
    /\ req[t].op \in {"create", "activate", "terminate", "renew"} =>
         req[t].unit \in Units
    /\ req[t].renews = IF req[t].op = "renew" THEN req[t].lease ELSE Nil

Row(l)    == db.lease_contracts[l]
NewRow(l) == dirty.lease_contracts[l]
Locker(l) == owner.lease_contracts[l]

-----------------------------------------------------------------------------
(***************************************************************************)
(* Leases: what their rows may be, and what is done to those locked.       *)
(***************************************************************************)
\* A lease that exists has a unit and a term.
LeaseRowOK(row) ==
  row # NoLease => row.status # "none" /\ row.unit \in Units /\ row.periods # 0

\* The handlers that change the status of a lease.
From == [activate |-> "draft", terminate |-> "active", renew |-> "active"]
To   == [activate |-> "active", terminate |-> "terminated", renew |-> "renewed"]

\* t changes the status of its lease, has edited it, or has inserted l.
Moves(t, l) ==
  /\ l = req[t].lease /\ req[t].op \in DOMAIN To
  /\ pc[t] \in {"insert_party", "occupy", "close_parties", "vacate",
                "insert_lease", "commit"}
  /\ Row(l).status = From[req[t].op]
  /\ NewRow(l) = [Row(l) EXCEPT !.status = To[req[t].op]]

Edits(t, l) ==
  /\ l = req[t].lease /\ req[t].op = "update" /\ pc[t] = "commit"
  /\ Row(l).status = "draft"
  /\ NewRow(l) = [Row(l) EXCEPT !.periods = req[t].periods]

Inserts(t, l) ==
  /\ req[t].op \in {"create", "renew"} /\ pc[t] = "commit"
  /\ Row(l) = NoLease
  /\ NewRow(l) = [status |-> "draft", unit |-> req[t].unit,
                  renewed_from |-> req[t].renews, periods |-> req[t].periods]

LeaseLocks(t) ==
  \A l \in LeaseIds :
    Locker(l) = t => Moves(t, l) \/ Edits(t, l) \/ Inserts(t, l)

\* The statements after the one that changes the status.
HasMoved(t) ==
  \/ pc[t] \in {"insert_party", "occupy", "close_parties", "vacate"}
  \/ pc[t] = "insert_lease" /\ req[t].op = "renew"
  \/ pc[t] = "commit" /\ req[t].op \in {"activate", "renew"}

MoverLocks(t) == HasMoved(t) => Locker(req[t].lease) = t

\* The unit a request remembers is its lease's, which never changes.
UnitIsRemembered(t) ==
  pc[t] # "idle" /\ req[t].op # "create" =>
    /\ Row(req[t].lease).status # "none"
    /\ req[t].op \in DOMAIN To => Row(req[t].lease).unit = req[t].unit

LeasesSoundFor(t) == LeaseLocks(t) /\ MoverLocks(t) /\ UnitIsRemembered(t)
LeasesSound == \A t \in Tx : LeasesSoundFor(t)

\* No two leases of a unit are active, or will be when open transactions end.
OneActive ==
  \A l, m \in LeaseIds : l # m =>
    \A x \in {Row(l), NewRow(l)}, y \in {Row(m), NewRow(m)} :
      ~(x.status = "active" /\ y.status = "active" /\ x.unit = y.unit)

-----------------------------------------------------------------------------
(***************************************************************************)
(* Approvals.                                                              *)
(***************************************************************************)
Approved(l) ==
  \E a \in ApprovalIds :
    db.approval_requests[a] =
      [status |-> "approved", lease |-> l, type |-> "lease_termination"]

\* Only a new request for approval is ever locked.
ApprovalLocks(t) ==
  \A a \in ApprovalIds :
    owner.approval_requests[a] = t =>
      pc[t] = "commit" /\ db.approval_requests[a] = NoApproval

\* Who is about to terminate, or has, was approved to.
TerminationApproved(t) ==
  /\ pc[t] \in {"terminate_status", "close_parties", "vacate"} =>
       Approved(req[t].lease)
  /\ pc[t] = "commit" /\ req[t].op = "terminate" /\ Locker(req[t].lease) = t =>
       Approved(req[t].lease)

ApprovalsSound == \A t \in Tx : ApprovalLocks(t) /\ TerminationApproved(t)

-----------------------------------------------------------------------------
(***************************************************************************)
(* Units and tenants, which activation and termination also change.        *)
(***************************************************************************)
\* t will commit the activation or the termination of its lease.
WillMove(t) ==
  /\ pc[t] = "commit" /\ req[t].op \in {"activate", "terminate"}
  /\ Locker(req[t].lease) = t

\* It has the unit then, and nothing before that; it has the tenant since the
\* statement before.
UnitLocks(t) ==
  /\ \A u \in Units : owner.units[u] = t => WillMove(t) /\ u = req[t].unit
  /\ WillMove(t) =>
       /\ owner.units[req[t].unit] = t
       /\ dirty.units[req[t].unit] =
            IF req[t].op = "activate" THEN "occupied" ELSE "vacant"

PartyLocks(t) ==
  /\ \A l \in LeaseIds :
       owner.lease_parties[l] = t =>
         l = req[t].lease /\ (pc[t] \in {"occupy", "vacate"} \/ WillMove(t))
  /\ pc[t] \in {"occupy", "vacate"} \/ WillMove(t) =>
       /\ owner.lease_parties[req[t].lease] = t
       /\ dirty.lease_parties[req[t].lease] =
            IF req[t].op = "activate" THEN "active" ELSE "closed"

PremisesSound ==
  /\ \A t \in Tx : UnitLocks(t) /\ PartyLocks(t)
  /\ OccupiedWhileLet /\ TenantWhileLet

-----------------------------------------------------------------------------
(***************************************************************************)
(* Renewals.                                                               *)
(***************************************************************************)
\* A transaction inserts one lease at most, and a renewal does.
InsertsOne(t) ==
  /\ \A k, m \in LeaseIds :
       Locker(k) = t /\ Locker(m) = t /\ Row(k) = NoLease /\ Row(m) = NoLease => k = m
  /\ pc[t] = "commit" /\ req[t].op = "renew" =>
       \E k \in LeaseIds : Locker(k) = t /\ Row(k) = NoLease

Renews(k, l) == Row(k).renewed_from = l

RenewalsAreRenewed ==
  \A l \in LeaseIds :
    /\ \A k \in LeaseIds : Renews(k, l) => Row(l).status = "renewed"
    /\ \A k, m \in LeaseIds : Renews(k, l) /\ Renews(m, l) => k = m
    /\ Row(l).status = "renewed" => \E k \in LeaseIds : Renews(k, l)

RenewalsSound == RenewalsAreRenewed /\ \A t \in Tx : InsertsOne(t)

-----------------------------------------------------------------------------
(***************************************************************************)
(* Bills.                                                                  *)
(***************************************************************************)
\* Only a new bill of the lease whose bills t generates is ever locked.
BillLocks(t) ==
  \A l \in LeaseIds, n \in 1..MaxPeriods :
    owner.lease_bills[<<l, n>>] = t =>
      /\ pc[t] \in {"bill", "commit"} /\ req[t].op = "generate"
      /\ l = req[t].lease /\ n < req[t].next
      /\ dirty.lease_bills[<<l, n>>] = "draft"

\* t has seen or inserted the bills before the next, to all there are.
Generates(t) ==
  pc[t] # "idle" /\ req[t].op = "generate" =>
    /\ Row(req[t].lease).status \notin {"none", "draft"}
    /\ req[t].periods = Row(req[t].lease).periods
    /\ req[t].next <= req[t].periods + 1
    /\ \A n \in 1..MaxPeriods :
         n < req[t].next => Sees(t, "lease_bills", <<req[t].lease, n>>) # "none"
    /\ pc[t] = "commit" => req[t].next = req[t].periods + 1

Bill(l, n) == db.lease_bills[<<l, n>>]

\* A draft has no bills, and a lease has all of its bills or none.
AllOrNone ==
  \A l \in LeaseIds, n \in 1..MaxPeriods :
    Bill(l, n) # "none" =>
      /\ Row(l).status \notin {"none", "draft"}
      /\ n <= Row(l).periods
      /\ \A m \in 1..MaxPeriods : m <= Row(l).periods => Bill(l, m) # "none"

BillsSound == AllOrNone /\ \A t \in Tx : BillLocks(t) /\ Generates(t)

-----------------------------------------------------------------------------
(***************************************************************************)
(* Type correctness, and what a statement does to the tables.              *)
(***************************************************************************)
TableName == {"units", "lease_contracts", "lease_parties", "lease_bills",
              "approval_requests"}

Tables == [units : [Units -> Occupancy],
           lease_contracts : [LeaseIds -> LeaseRow],
           lease_parties : [LeaseIds -> PartyStatus],
           lease_bills : [BillIds -> BillStatus],
           approval_requests : [ApprovalIds -> ApprovalRow]]

LocksOK ==
  /\ DOMAIN owner = TableName
  /\ owner.units \in [Units -> Tx \cup {Nil}]
  /\ owner.lease_contracts \in [LeaseIds -> Tx \cup {Nil}]
  /\ owner.lease_parties \in [LeaseIds -> Tx \cup {Nil}]
  /\ owner.lease_bills \in [BillIds -> Tx \cup {Nil}]
  /\ owner.approval_requests \in [ApprovalIds -> Tx \cup {Nil}]

Statement == {"idle", "insert_lease", "update_lease", "activate_status",
              "insert_party", "occupy", "bill", "terminate_status",
              "close_parties", "vacate", "insert_approval", "renew_status",
              "commit"}

StorageTypeOK == db \in Tables /\ dirty \in Tables /\ LocksOK

ControlTypeOK ==
  /\ pc \in [Tx -> Statement]
  /\ req \in [Tx -> Request \cup {Nil}]
  /\ \A t \in Tx : RequestOK(t)
  /\ byHand \subseteq Units

RowsOK == \A l \in LeaseIds : LeaseRowOK(Row(l)) /\ LeaseRowOK(NewRow(l))

Typed == StorageTypeOK /\ ControlTypeOK /\ RowsOK /\ DirtyIsCommitted

\* The tables and their rows.
LEMMA StorageTabular ==
  ASSUME StorageTypeOK
  PROVE  /\ Tabular /\ DOMAIN db = TableName
         /\ DOMAIN db["units"] = Units
         /\ DOMAIN db["lease_contracts"] = LeaseIds
         /\ DOMAIN db["lease_parties"] = LeaseIds
         /\ DOMAIN db["lease_bills"] = BillIds
         /\ DOMAIN db["approval_requests"] = ApprovalIds
BY DEF StorageTypeOK, Tables, LocksOK, TableName, Tabular

\* t has locked one row and given it a new version.
WritesRow(t, tab, id, row) ==
  /\ db' = db
  /\ owner[tab][id] \in {Nil, t}
  /\ dirty'[tab] = [dirty[tab] EXCEPT ![id] = row]
  /\ owner'[tab] = [owner[tab] EXCEPT ![id] = t]
  /\ \A other \in TableName \ {tab} :
       dirty'[other] = dirty[other] /\ owner'[other] = owner[other]

\* What Write does, table by table.
LEMMA WriteEffect ==
  ASSUME StorageTypeOK, NEW t \in Tx, NEW tab \in TableName,
         NEW id \in DOMAIN db[tab], NEW row, Write(t, tab, id, row)
  PROVE  /\ WritesRow(t, tab, id, row)
         /\ DirtyIsCommitted => DirtyIsCommitted'
<1>1. /\ Tabular /\ DOMAIN db = TableName
  BY StorageTabular
<1>2. Free(t, tab, id)
  BY DEF Write
<1> QED BY <1>1, <1>2, WriteChanges DEF Tabular, WritesRow, Free

\* Writing, committing and rolling back keep the tables' types.
LEMMA WriteType ==
  ASSUME StorageTypeOK, NEW t \in Tx
  PROVE  /\ \A u \in Units, s \in Occupancy :
              Write(t, "units", u, s) => StorageTypeOK'
         /\ \A l \in LeaseIds, row \in LeaseRow :
              Write(t, "lease_contracts", l, row) => StorageTypeOK'
         /\ \A l \in LeaseIds, s \in PartyStatus :
              Write(t, "lease_parties", l, s) => StorageTypeOK'
         /\ \A b \in BillIds, s \in BillStatus :
              Write(t, "lease_bills", b, s) => StorageTypeOK'
         /\ \A a \in ApprovalIds, row \in ApprovalRow :
              Write(t, "approval_requests", a, row) => StorageTypeOK'
<1> USE DEF StorageTypeOK, Tables, LocksOK, TableName, Write
<1>1. ASSUME NEW u \in Units, NEW s \in Occupancy,
             Write(t, "units", u, s)
      PROVE  StorageTypeOK'
  BY <1>1
<1>2. ASSUME NEW l \in LeaseIds, NEW row \in LeaseRow,
             Write(t, "lease_contracts", l, row)
      PROVE  StorageTypeOK'
  BY <1>2
<1>3. ASSUME NEW l \in LeaseIds, NEW s \in PartyStatus,
             Write(t, "lease_parties", l, s)
      PROVE  StorageTypeOK'
  BY <1>3
<1>4. ASSUME NEW b \in BillIds, NEW s \in BillStatus,
             Write(t, "lease_bills", b, s)
      PROVE  StorageTypeOK'
  BY <1>4
<1>5. ASSUME NEW a \in ApprovalIds, NEW row \in ApprovalRow,
             Write(t, "approval_requests", a, row)
      PROVE  StorageTypeOK'
  BY <1>5
<1> QED
  <2> HIDE DEF StorageTypeOK, Write
  <2> QED BY <1>1, <1>2, <1>3, <1>4, <1>5

\* Ending a transaction keeps the tables' types.
LEMMA EndType ==
  ASSUME StorageTypeOK, NEW t \in Tx, CommitTx(t) \/ RollbackTx(t)
  PROVE  StorageTypeOK'
<1>1. LocksOK'
  BY DEF StorageTypeOK, LocksOK, TableName, CommitTx, RollbackTx, Unlocked
<1>2. CASE CommitTx(t)
  BY <1>1, <1>2 DEF StorageTypeOK, Tables, LocksOK, TableName, CommitTx, Sees
<1>3. CASE RollbackTx(t)
  BY <1>1, <1>3 DEF StorageTypeOK, Tables, LocksOK, TableName, RollbackTx
<1> QED BY <1>2, <1>3

\* A transaction that has ended left no locks, and committed rows where it had.
LEMMA EndEffect ==
  ASSUME StorageTypeOK, NEW t \in Tx, CommitTx(t) \/ RollbackTx(t)
  PROVE  /\ \A tab \in TableName : \A id \in DOMAIN db[tab] :
              /\ owner'[tab][id] =
                   IF owner[tab][id] = t THEN Nil ELSE owner[tab][id]
              /\ CommitTx(t) =>
                   /\ dirty'[tab][id] = dirty[tab][id]
                   /\ db'[tab][id] = IF owner[tab][id] = t
                        THEN dirty[tab][id] ELSE db[tab][id]
              /\ RollbackTx(t) =>
                   /\ db'[tab][id] = db[tab][id]
                   /\ dirty'[tab][id] = IF owner[tab][id] = t
                        THEN db[tab][id] ELSE dirty[tab][id]
         /\ DirtyIsCommitted => DirtyIsCommitted'
BY StorageTabular, EndChanges

USE DEF At, Goto, Next_

OthersStay(t) == \A x \in Tx \ {t} : pc'[x] = pc[x] /\ req'[x] = req[x]

\* A request that begins.
Begun(t) ==
  /\ pc[t] = "idle" /\ OthersStay(t) /\ UNCHANGED <<storage, byHand>>
  /\ req'[t] \in Request /\ req'[t].op \in Op
  /\ \/ /\ req'[t].op = "create" /\ pc'[t] = "insert_lease"
        /\ req'[t].unit \in Units /\ req'[t].renews = Nil
        /\ req'[t].periods # 0
     \/ /\ req'[t].op = "update" /\ pc'[t] = "update_lease"
        /\ LeaseOf(t, req'[t].lease).status = "draft"
        /\ req'[t].renews = Nil /\ req'[t].periods # 0
     \/ /\ req'[t].op \in DOMAIN To
        /\ LeaseOf(t, req'[t].lease).status = From[req'[t].op]
        /\ req'[t].unit = LeaseOf(t, req'[t].lease).unit
        /\ \/ /\ req'[t].op = "activate" /\ pc'[t] = "activate_status"
              /\ req'[t].renews = Nil
           \/ /\ req'[t].op = "terminate" /\ req'[t].renews = Nil
              /\ \/ pc'[t] = "insert_approval"
                    /\ LatestTermination(t, req'[t].lease) # "pending"
                 \/ pc'[t] = "terminate_status"
                    /\ LatestTermination(t, req'[t].lease) = "approved"
           \/ /\ req'[t].op = "renew" /\ pc'[t] = "renew_status"
              /\ req'[t].renews = req'[t].lease /\ req'[t].periods # 0
     \/ /\ req'[t].op = "generate" /\ pc'[t] = "bill"
        /\ LeaseOf(t, req'[t].lease).status = "active"
        /\ req'[t].periods = LeaseOf(t, req'[t].lease).periods
        /\ req'[t].next = 1 /\ req'[t].renews = Nil
     \/ /\ req'[t].op = "deposit_refund" /\ pc'[t] = "insert_approval"
        /\ LeaseOf(t, req'[t].lease).status # "none" /\ req'[t].renews = Nil
        /\ req'[t].type = "deposit_refund"
  /\ req'[t].op # "create" => req'[t].lease \in LeaseIds

\* Setting a field of a request.
LEMMA RequestFields ==
  ASSUME NEW r \in Request
  PROVE  /\ \A x \in Op : [r EXCEPT !.op = x] \in Request
         /\ \A x \in LeaseIds : [r EXCEPT !.lease = x] \in Request
         /\ \A x \in Units \cup {Nil} : [r EXCEPT !.unit = x] \in Request
         /\ \A x \in 0..MaxPeriods : [r EXCEPT !.periods = x] \in Request
         /\ \A x \in LeaseIds : [r EXCEPT !.renews = x] \in Request
         /\ \A x \in RequestType : [r EXCEPT !.type = x] \in Request
         /\ \A x \in 1..(MaxPeriods + 1) : [r EXCEPT !.next = x] \in Request
BY DEF Request

\* What each handler remembers when it begins.
LEMMA StartEffect ==
  ASSUME Typed, NEW t \in Tx, Start(t)
  PROVE  Begun(t)
<1>1. /\ pc \in [Tx -> Statement] /\ req \in [Tx -> Request \cup {Nil}]
  BY DEF Typed, ControlTypeOK
<1>2. /\ \A l \in LeaseIds : /\ LeaseOf(t, l).unit \in Units \cup {Nil}
                             /\ LeaseOf(t, l).periods \in 0..MaxPeriods
      /\ \A n \in 1..MaxPeriods : n \in 0..MaxPeriods /\ n # 0
  <2>1. \A l \in LeaseIds : LeaseOf(t, l) \in LeaseRow
    BY DEF Typed, StorageTypeOK, Tables, LeaseOf, Sees
  <2> QED BY <2>1, LeaseAssumption DEF LeaseRow
<1>3. Blank \in Request
  BY LeaseAssumption DEF Blank, Request
<1>4. /\ \A op \in {"create", "update", "activate", "generate", "terminate",
                   "renew", "deposit_refund"} : op \in Op
      /\ {"lease_termination", "deposit_refund"} = RequestType
      /\ \A u \in Units : u \in Units \cup {Nil}
  BY DEF Op, RequestType
<1>5. CASE \E u \in Units, n \in 1..MaxPeriods : CreateLeaseContract(t, u, n)
  <2>1. PICK u \in Units, n \in 1..MaxPeriods : CreateLeaseContract(t, u, n)
    BY <1>5
  <2> DEFINE r == [[Blank EXCEPT !.unit = u, !.periods = n] EXCEPT !.op = "create"]
  <2>2. /\ r.op = "create" /\ r.unit = u
        /\ r.renews = Nil /\ r.periods = n
    BY DEF Blank
  <2>3. r \in Request
    BY <1>2, <1>3, <1>4, RequestFields, Zenon
  <2>4. /\ pc[t] = "idle" /\ OthersStay(t) /\ UNCHANGED <<storage, byHand>>
        /\ req'[t] = r /\ pc'[t] = "insert_lease"
    BY <1>1, <2>1 DEF CreateLeaseContract, Begin, OthersStay
  <2> HIDE DEF r
  <2> QED BY <1>2, <1>3, <2>2, <2>3, <2>4 DEF Begun, Op, To, From
<1>6. CASE \E l \in LeaseIds, n \in 1..MaxPeriods : UpdateLeaseContract(t, l, n)
  <2>1. PICK l \in LeaseIds, n \in 1..MaxPeriods : UpdateLeaseContract(t, l, n)
    BY <1>6
  <2> DEFINE r == [[Blank EXCEPT !.lease = l, !.periods = n] EXCEPT !.op = "update"]
  <2>2. /\ r.op = "update" /\ r.lease = l
        /\ r.renews = Nil /\ r.periods = n
    BY DEF Blank
  <2>3. r \in Request
    BY <1>2, <1>3, <1>4, RequestFields, Zenon
  <2>4. /\ pc[t] = "idle" /\ OthersStay(t) /\ UNCHANGED <<storage, byHand>>
        /\ req'[t] = r /\ pc'[t] = "update_lease"
        /\ LeaseOf(t, l).status = "draft"
    BY <1>1, <2>1 DEF UpdateLeaseContract, Begin, OthersStay
  <2> HIDE DEF r
  <2> QED BY <1>2, <1>3, <2>2, <2>3, <2>4 DEF Begun, Op, To, From
<1>7. CASE \E l \in LeaseIds, n \in 1..MaxPeriods : RenewLeaseContract(t, l, n)
  <2>1. PICK l \in LeaseIds, n \in 1..MaxPeriods : RenewLeaseContract(t, l, n)
    BY <1>7
  <2> DEFINE r == [[Blank EXCEPT !.lease = l, !.unit = LeaseOf(t, l).unit,
                                   !.periods = n, !.renews = l] EXCEPT !.op = "renew"]
  <2>2. /\ r.op = "renew" /\ r.lease = l /\ r.unit = LeaseOf(t, l).unit
        /\ r.renews = l /\ r.periods = n
    BY DEF Blank
  <2>3. r \in Request
    BY <1>2, <1>3, <1>4, RequestFields, Zenon
  <2>4. /\ pc[t] = "idle" /\ OthersStay(t) /\ UNCHANGED <<storage, byHand>>
        /\ req'[t] = r /\ pc'[t] = "renew_status"
        /\ LeaseOf(t, l).status = "active"
    BY <1>1, <2>1 DEF RenewLeaseContract, Begin, OthersStay
  <2> HIDE DEF r
  <2> QED BY <1>2, <1>3, <2>2, <2>3, <2>4 DEF Begun, Op, To, From
<1>8. CASE \E l \in LeaseIds : ActivateLeaseContract(t, l)
  <2>1. PICK l \in LeaseIds : ActivateLeaseContract(t, l)
    BY <1>8
  <2> DEFINE r == [[Blank EXCEPT !.lease = l, !.unit = LeaseOf(t, l).unit] EXCEPT !.op = "activate"]
  <2>2. /\ r.op = "activate" /\ r.lease = l
        /\ r.unit = LeaseOf(t, l).unit /\ r.renews = Nil
    BY DEF Blank
  <2>3. r \in Request
    BY <1>2, <1>3, <1>4, RequestFields, Zenon
  <2>4. /\ pc[t] = "idle" /\ OthersStay(t) /\ UNCHANGED <<storage, byHand>>
        /\ req'[t] = r /\ pc'[t] = "activate_status"
        /\ LeaseOf(t, l).status = "draft"
    BY <1>1, <2>1 DEF ActivateLeaseContract, Begin, OthersStay
  <2> HIDE DEF r
  <2> QED BY <1>2, <1>3, <2>2, <2>3, <2>4 DEF Begun, Op, To, From
<1>9. CASE \E l \in LeaseIds : GenerateLeaseBills(t, l)
  <2>1. PICK l \in LeaseIds : GenerateLeaseBills(t, l)
    BY <1>9
  <2> DEFINE r == [[Blank EXCEPT !.lease = l, !.periods = LeaseOf(t, l).periods] EXCEPT !.op = "generate"]
  <2>2. /\ r.op = "generate" /\ r.lease = l /\ r.next = 1
        /\ r.periods = LeaseOf(t, l).periods /\ r.renews = Nil
    BY DEF Blank
  <2>3. r \in Request
    BY <1>2, <1>3, <1>4, RequestFields, Zenon
  <2>4. /\ pc[t] = "idle" /\ OthersStay(t) /\ UNCHANGED <<storage, byHand>>
        /\ req'[t] = r /\ pc'[t] = "bill"
        /\ LeaseOf(t, l).status = "active"
    BY <1>1, <2>1 DEF GenerateLeaseBills, Begin, OthersStay
  <2> HIDE DEF r
  <2> QED BY <1>2, <1>3, <2>2, <2>3, <2>4 DEF Begun, Op, To, From
<1>10. CASE \E l \in LeaseIds : TerminateLeaseContract(t, l)
  <2>1. PICK l \in LeaseIds : TerminateLeaseContract(t, l)
    BY <1>10
  <2> DEFINE r == [[Blank EXCEPT !.lease = l, !.unit = LeaseOf(t, l).unit,
                                   !.type = "lease_termination"] EXCEPT !.op = "terminate"]
  <2>2. /\ r.op = "terminate" /\ r.lease = l
        /\ r.unit = LeaseOf(t, l).unit /\ r.renews = Nil
    BY DEF Blank
  <2>3. r \in Request
    BY <1>2, <1>3, <1>4, RequestFields, Zenon
  <2>4. /\ pc[t] = "idle" /\ OthersStay(t) /\ UNCHANGED <<storage, byHand>>
        /\ req'[t] = r /\ pc'[t] = IF LatestTermination(t, l) = "approved"
             THEN "terminate_status" ELSE "insert_approval"
        /\ LeaseOf(t, l).status = "active" /\ LatestTermination(t, l) # "pending"
    BY <1>1, <2>1 DEF TerminateLeaseContract, Begin, OthersStay
  <2> HIDE DEF r
  <2> QED BY <1>2, <1>3, <2>2, <2>3, <2>4 DEF Begun, Op, To, From
<1>11. CASE \E l \in LeaseIds : RequestLeaseDepositRefund(t, l)
  <2>1. PICK l \in LeaseIds : RequestLeaseDepositRefund(t, l)
    BY <1>11
  <2> DEFINE r == [[Blank EXCEPT !.lease = l, !.type = "deposit_refund"] EXCEPT !.op = "deposit_refund"]
  <2>2. /\ r.op = "deposit_refund" /\ r.lease = l
        /\ r.renews = Nil /\ r.type = "deposit_refund"
    BY DEF Blank
  <2>3. r \in Request
    BY <1>2, <1>3, <1>4, RequestFields, Zenon
  <2>4. /\ pc[t] = "idle" /\ OthersStay(t) /\ UNCHANGED <<storage, byHand>>
        /\ req'[t] = r /\ pc'[t] = "insert_approval"
        /\ LeaseOf(t, l).status \in {"active", "terminated"}
    BY <1>1, <2>1 DEF RequestLeaseDepositRefund, Begin, OthersStay
  <2> HIDE DEF r
  <2> QED BY <1>2, <1>3, <2>2, <2>3, <2>4 DEF Begun, Op, To, From
<1> QED BY <1>5, <1>6, <1>7, <1>8, <1>9, <1>10, <1>11 DEF Start

Goes(t, stmt) ==
  /\ pc'[t] = stmt /\ req'[t] = req[t] /\ OthersStay(t)
  /\ byHand' = byHand

\* What each statement does, to one row of one table.
InsertsLease(t) ==
  /\ req[t].op \in {"create", "renew"} /\ pc[t] = "insert_lease" /\ Goes(t, "commit")
  /\ \E l \in LeaseIds :
       /\ NewRow(l) = NoLease
       /\ WritesRow(t, "lease_contracts", l,
                    [status |-> "draft", unit |-> req[t].unit,
                     renewed_from |-> req[t].renews, periods |-> req[t].periods])

EditsLease(t) ==
  /\ req[t].op = "update" /\ pc[t] = "update_lease" /\ Goes(t, "commit")
  /\ NewRow(req[t].lease).status = "draft"
  /\ WritesRow(t, "lease_contracts", req[t].lease,
               [NewRow(req[t].lease) EXCEPT !.periods = req[t].periods])

MovesLease(t) ==
  /\ \/ req[t].op = "activate" /\ pc[t] = "activate_status" /\ Goes(t, "insert_party")
     \/ req[t].op = "terminate" /\ pc[t] = "terminate_status" /\ Goes(t, "close_parties")
     \/ req[t].op = "renew" /\ pc[t] = "renew_status" /\ Goes(t, "insert_lease")
  /\ NewRow(req[t].lease).status = From[req[t].op]
  /\ req[t].op = "activate" =>
       \A l \in LeaseIds \ {req[t].lease} :
         \A version \in {LeaseOf(t, l), NewRow(l)} :
           ~(version.status = "active" /\ version.unit = NewRow(req[t].lease).unit)
  /\ WritesRow(t, "lease_contracts", req[t].lease,
               [NewRow(req[t].lease) EXCEPT !.status = To[req[t].op]])

ChangesParty(t) ==
  \/ /\ req[t].op = "activate" /\ pc[t] = "insert_party" /\ Goes(t, "occupy")
     /\ WritesRow(t, "lease_parties", req[t].lease, "active")
  \/ /\ req[t].op = "terminate" /\ pc[t] = "close_parties" /\ Goes(t, "vacate")
     /\ \/ WritesRow(t, "lease_parties", req[t].lease, "closed")
        \/ /\ Sees(t, "lease_parties", req[t].lease) # "active"
           /\ UNCHANGED storage

ChangesUnit(t) ==
  \/ /\ req[t].op = "activate" /\ pc[t] = "occupy" /\ Goes(t, "commit")
     /\ WritesRow(t, "units", req[t].unit, "occupied")
  \/ /\ req[t].op = "terminate" /\ pc[t] = "vacate" /\ Goes(t, "commit")
     /\ WritesRow(t, "units", req[t].unit, "vacant")

BillsNext(t) ==
  LET bill == <<req[t].lease, req[t].next>>
  IN /\ req[t].op = "generate" /\ pc[t] = "bill"
     /\ req[t].next <= req[t].periods /\ bill \in BillIds
     /\ pc'[t] = "bill" /\ OthersStay(t) /\ byHand' = byHand
     /\ req'[t] = [req[t] EXCEPT !.next = req[t].next + 1]
     /\ \/ Sees(t, "lease_bills", bill) # "none" /\ UNCHANGED storage
        \/ WritesRow(t, "lease_bills", bill, "draft")

BillsNoMore(t) ==
  /\ req[t].op = "generate" /\ pc[t] = "bill" /\ Goes(t, "commit")
  /\ req[t].next > req[t].periods
  /\ UNCHANGED storage

AsksApproval(t) ==
  /\ pc[t] = "insert_approval" /\ Goes(t, "commit")
  /\ req[t].op \in {"terminate", "deposit_refund"}
  /\ \E a \in ApprovalIds :
       /\ dirty.approval_requests[a] = NoApproval
       /\ \A b \in ApprovalIds : dirty.approval_requests[b] = NoApproval => a <= b
       /\ WritesRow(t, "approval_requests", a,
                    [status |-> "pending", lease |-> req[t].lease,
                     type |-> req[t].type])

Ends(t) ==
  /\ pc[t] # "idle" /\ pc'[t] = "idle" /\ req'[t] = Nil /\ OthersStay(t)
  /\ \/ /\ CommitTx(t) /\ pc[t] = "commit"
        /\ byHand' = {u \in byHand : owner.units[u] # t}
     \/ RollbackTx(t) /\ byHand' = byHand

\* A statement does that, and leaves the tables and requests as they must be.
LEMMA StepEffect ==
  ASSUME Typed, NEW t \in Tx, Step(t)
  PROVE  /\ \/ InsertsLease(t) \/ EditsLease(t) \/ MovesLease(t)
            \/ ChangesParty(t) \/ ChangesUnit(t)
            \/ BillsNext(t) \/ BillsNoMore(t)
            \/ AsksApproval(t) \/ Ends(t)
         /\ StorageTypeOK' /\ DirtyIsCommitted'
<1>1. /\ pc \in [Tx -> Statement] /\ req \in [Tx -> Request \cup {Nil}]
      /\ RequestOK(t) /\ StorageTypeOK /\ DirtyIsCommitted
  BY DEF Typed, ControlTypeOK
<1>2. /\ DOMAIN db["units"] = Units
      /\ DOMAIN db["lease_contracts"] = LeaseIds
      /\ DOMAIN db["lease_parties"] = LeaseIds
      /\ DOMAIN db["lease_bills"] = BillIds
      /\ DOMAIN db["approval_requests"] = ApprovalIds
  BY <1>1, StorageTabular
<1>3. \A tab \in TableName : \A id \in DOMAIN db[tab] : \A row :
        Write(t, tab, id, row) => WritesRow(t, tab, id, row) /\ DirtyIsCommitted'
  BY <1>1, WriteEffect
<1>4. \A stmt : Goto(t, stmt) /\ req' = req /\ byHand' = byHand => Goes(t, stmt)
  BY <1>1 DEF Goes, OthersStay
<1>5. /\ {"units", "lease_contracts", "lease_parties", "lease_bills",
         "approval_requests"} = TableName
      /\ \A l \in LeaseIds : NewRow(l) \in LeaseRow
      /\ \A l \in LeaseIds : NewRow(l) = dirty["lease_contracts"][l]
      /\ UNCHANGED storage => StorageTypeOK' /\ DirtyIsCommitted'
  BY <1>1 DEF TableName, StorageTypeOK, Tables, NewRow, storage, DirtyIsCommitted,
              LocksOK
<1>6. CASE InsertLease(t)
  <2>1. /\ pc[t] = "insert_lease" /\ Goes(t, "commit")
        /\ req[t].op \in {"create", "renew"}
    BY <1>1, <1>4, <1>6 DEF InsertLease, RequestOK, StatementsOf, Op
  <2> DEFINE row == [status |-> "draft", unit |-> req[t].unit,
                     renewed_from |-> req[t].renews, periods |-> req[t].periods]
  <2>2. row \in LeaseRow
    BY <1>1, <2>1 DEF RequestOK, Request, LeaseRow, LeaseStatus
  <2>3. PICK l \in LeaseIds : NewRow(l) = NoLease /\ Write(t, "lease_contracts", l, row)
    BY <1>6 DEF InsertLease, CreateLeaseContractRow, NewRow
  <2> HIDE DEF row
  <2>4. WritesRow(t, "lease_contracts", l, row) /\ StorageTypeOK' /\ DirtyIsCommitted'
    BY <1>1, <1>2, <1>3, <1>5, <2>2, <2>3, WriteType
  <2>5. InsertsLease(t)
    BY <2>1, <2>3, <2>4 DEF InsertsLease, row
  <2> QED BY <2>4, <2>5
<1>7. CASE UpdateLease(t)
  <2>1. /\ pc[t] = "update_lease" /\ Goes(t, "commit")
        /\ req[t].op = "update" /\ req[t].lease \in LeaseIds
    BY <1>1, <1>4, <1>7 DEF UpdateLease, RequestOK, StatementsOf, Op
  <2> DEFINE row == [NewRow(req[t].lease) EXCEPT !.periods = req[t].periods]
  <2>2. row \in LeaseRow
    BY <1>1, <1>5, <2>1 DEF RequestOK, Request, LeaseRow
  <2>3. /\ NewRow(req[t].lease).status = "draft"
        /\ Write(t, "lease_contracts", req[t].lease, row)
    BY <1>7 DEF UpdateLease, UpdateLeaseContractRow, NewRow
  <2> HIDE DEF row
  <2>4. /\ WritesRow(t, "lease_contracts", req[t].lease, row)
        /\ StorageTypeOK' /\ DirtyIsCommitted'
    BY <1>1, <1>2, <1>3, <1>5, <2>1, <2>2, <2>3, WriteType
  <2>5. EditsLease(t)
    BY <2>1, <2>3, <2>4 DEF EditsLease, row
  <2> QED BY <2>4, <2>5
<1>8. CASE ActivateStatus(t) \/ TerminateStatus(t) \/ RenewStatus(t)
  <2> DEFINE to == To[req[t].op]
             row == [NewRow(req[t].lease) EXCEPT !.status = to]
  <2>1. /\ \/ /\ req[t].op = "activate" /\ pc[t] = "activate_status"
              /\ Goes(t, "insert_party")
           \/ /\ req[t].op = "terminate" /\ pc[t] = "terminate_status"
              /\ Goes(t, "close_parties")
           \/ /\ req[t].op = "renew" /\ pc[t] = "renew_status"
              /\ Goes(t, "insert_lease")
        /\ req[t].lease \in LeaseIds
    BY <1>1, <1>4, <1>8 DEF ActivateStatus, TerminateStatus, RenewStatus, RequestOK,
         StatementsOf, Op
  <2>2. row \in LeaseRow
    <3>1. to \in LeaseStatus
      BY <2>1 DEF To, LeaseStatus
    <3> HIDE DEF to
    <3> QED BY <1>5, <2>1, <3>1 DEF LeaseRow
  <2>3. UpdateLeaseContractStatus(t, req[t].lease, to, From[req[t].op])
    BY <1>8, <2>1 DEF ActivateStatus, TerminateStatus, RenewStatus, To, From
  <2>4. /\ NewRow(req[t].lease).status = From[req[t].op]
        /\ to = "active" =>
             \A l \in LeaseIds \ {req[t].lease} :
               \A version \in {LeaseOf(t, l), NewRow(l)} :
                 ~(version.status = "active"
                     /\ version.unit = NewRow(req[t].lease).unit)
        /\ Write(t, "lease_contracts", req[t].lease, row)
    <3> HIDE DEF to
    <3> QED BY <2>3 DEF UpdateLeaseContractStatus, NewRow
  <2>5. req[t].op = "activate" => to = "active"
    BY DEF To
  <2> HIDE DEF row, to
  <2>6. /\ WritesRow(t, "lease_contracts", req[t].lease, row)
        /\ StorageTypeOK' /\ DirtyIsCommitted'
    BY <1>1, <1>2, <1>3, <1>5, <2>1, <2>2, <2>4, WriteType
  <2>7. MovesLease(t)
    BY <2>1, <2>4, <2>5, <2>6 DEF MovesLease, row, to
  <2> QED BY <2>6, <2>7
<1>9. CASE CreateLeaseParty(t) \/ CloseAllActiveLeaseParties(t)
  <2>1. /\ \/ /\ req[t].op = "activate" /\ pc[t] = "insert_party" /\ Goes(t, "occupy")
              /\ Write(t, "lease_parties", req[t].lease, "active")
           \/ /\ req[t].op = "terminate" /\ pc[t] = "close_parties" /\ Goes(t, "vacate")
              /\ \/ Write(t, "lease_parties", req[t].lease, "closed")
                 \/ /\ Sees(t, "lease_parties", req[t].lease) # "active"
                    /\ UNCHANGED storage
        /\ req[t].lease \in LeaseIds
    BY <1>1, <1>4, <1>9 DEF CreateLeaseParty, CloseAllActiveLeaseParties, RequestOK,
         StatementsOf, Op
  <2>2. {"active", "closed"} \subseteq PartyStatus
    BY DEF PartyStatus
  <2>3. ASSUME NEW s \in {"active", "closed"}, Write(t, "lease_parties", req[t].lease, s)
        PROVE  /\ WritesRow(t, "lease_parties", req[t].lease, s)
               /\ StorageTypeOK' /\ DirtyIsCommitted'
    BY <1>1, <1>2, <1>3, <1>5, <2>1, <2>2, <2>3, WriteType
  <2>4. ChangesParty(t) /\ StorageTypeOK' /\ DirtyIsCommitted'
    BY <1>5, <2>1, <2>3 DEF ChangesParty
  <2> QED BY <2>4
<1>10. CASE OccupyUnit(t) \/ VacateUnit(t)
  <2>1. /\ \/ /\ req[t].op = "activate" /\ pc[t] = "occupy" /\ Goes(t, "commit")
              /\ Write(t, "units", req[t].unit, "occupied")
           \/ /\ req[t].op = "terminate" /\ pc[t] = "vacate" /\ Goes(t, "commit")
              /\ Write(t, "units", req[t].unit, "vacant")
        /\ req[t].unit \in Units
    BY <1>1, <1>4, <1>10 DEF OccupyUnit, VacateUnit, RequestOK, StatementsOf, Op
  <2>2. ASSUME NEW s \in {"occupied", "vacant"}, Write(t, "units", req[t].unit, s)
        PROVE  /\ WritesRow(t, "units", req[t].unit, s)
               /\ StorageTypeOK' /\ DirtyIsCommitted'
    <3>1. s \in Occupancy
      BY DEF Occupancy
    <3> QED BY <1>1, <1>2, <1>3, <1>5, <2>1, <2>2, <3>1, WriteType
  <2>3. ChangesUnit(t) /\ StorageTypeOK' /\ DirtyIsCommitted'
    BY <2>1, <2>2 DEF ChangesUnit
  <2> QED BY <2>3
<1>11. CASE GenerateBill(t)
  <2> DEFINE bill == <<req[t].lease, req[t].next>>
  <2>1. /\ req[t].op = "generate" /\ pc[t] = "bill" /\ req[t].next <= req[t].periods
        /\ req[t].lease \in LeaseIds /\ req[t].next \in 1..MaxPeriods
    <3>1. /\ req[t].op = "generate" /\ pc[t] = "bill" /\ req[t].lease \in LeaseIds
          /\ req[t].next <= req[t].periods /\ req[t] \in Request
      BY <1>1, <1>11 DEF GenerateBill, RequestOK, StatementsOf, Op
    <3> QED BY <3>1, LeaseAssumption DEF Request
  <2>2. bill \in BillIds
    BY <2>1 DEF BillIds
  <2>3. /\ pc'[t] = "bill" /\ OthersStay(t) /\ byHand' = byHand
        /\ req'[t] = [req[t] EXCEPT !.next = req[t].next + 1]
    <3>1. /\ pc' = [pc EXCEPT ![t] = "bill"]
          /\ req' = [req EXCEPT ![t] = [req[t] EXCEPT !.next = req[t].next + 1]]
          /\ byHand' = byHand
      BY <1>11 DEF GenerateBill
    <3> QED BY <1>1, <3>1 DEF OthersStay
  <2>4. \/ Sees(t, "lease_bills", bill) # "none" /\ UNCHANGED storage
        \/ Write(t, "lease_bills", bill, "draft")
    BY <1>11 DEF GenerateBill
  <2>5. "draft" \in BillStatus
    BY DEF BillStatus
  <2> HIDE DEF bill
  <2>6. /\ \/ Sees(t, "lease_bills", bill) # "none" /\ UNCHANGED storage
           \/ WritesRow(t, "lease_bills", bill, "draft")
        /\ StorageTypeOK' /\ DirtyIsCommitted'
    BY <1>1, <1>2, <1>3, <1>5, <2>2, <2>4, <2>5, WriteType
  <2>7. BillsNext(t)
    BY <2>1, <2>2, <2>3, <2>6 DEF BillsNext, bill
  <2> QED BY <2>6, <2>7
<1>12. CASE GenerateEnds(t)
  <2>1. req[t].op = "generate" /\ BillsNoMore(t)
    BY <1>1, <1>4, <1>12 DEF GenerateEnds, RequestOK, StatementsOf, Op, BillsNoMore
  <2> QED BY <1>5, <2>1 DEF BillsNoMore
<1>13. CASE InsertApproval(t)
  <2>1. /\ pc[t] = "insert_approval" /\ Goes(t, "commit")
        /\ req[t].op \in {"terminate", "deposit_refund"}
    BY <1>1, <1>4, <1>13 DEF InsertApproval, RequestOK, StatementsOf, Op
  <2> DEFINE row == [status |-> "pending", lease |-> req[t].lease, type |-> req[t].type]
  <2>2. row \in ApprovalRow
    BY <1>1, <2>1 DEF RequestOK, Request, ApprovalRow, ApprovalStatus
  <2>3. PICK a \in ApprovalIds :
          /\ dirty.approval_requests[a] = NoApproval
          /\ \A b \in ApprovalIds : dirty.approval_requests[b] = NoApproval => a <= b
          /\ Write(t, "approval_requests", a, row)
    BY <1>13 DEF InsertApproval, NextApprovalId
  <2> HIDE DEF row
  <2>4. WritesRow(t, "approval_requests", a, row) /\ StorageTypeOK' /\ DirtyIsCommitted'
    BY <1>1, <1>2, <1>3, <1>5, <2>2, <2>3, WriteType
  <2>5. AsksApproval(t)
    BY <2>1, <2>3, <2>4 DEF AsksApproval, row
  <2> QED BY <2>4, <2>5
<1>14. CASE Commit(t) \/ Rollback(t)
  <2>1. Ends(t)
    BY <1>1, <1>14 DEF Commit, Rollback, Ends, OthersStay
  <2>2. StorageTypeOK' /\ DirtyIsCommitted'
    BY <1>1, <2>1, EndType, EndEffect DEF Ends
  <2> QED BY <2>1, <2>2
<1> QED BY <1>6, <1>7, <1>8, <1>9, <1>10, <1>11, <1>12, <1>13, <1>14 DEF Step

\* A transaction of one statement, by somebody else: a row that nobody has
\* locked gets a new version.
RowSettled(tab, id, row) ==
  /\ owner[tab][id] = Nil
  /\ db'[tab] = [db[tab] EXCEPT ![id] = row]
  /\ dirty'[tab] = [dirty[tab] EXCEPT ![id] = row]
  /\ \A other \in TableName \ {tab} :
       db'[other] = db[other] /\ dirty'[other] = dirty[other]

ApprovalDecided ==
  /\ \E a \in ApprovalIds, status \in {"approved", "rejected", "cancelled"} :
       /\ db.approval_requests[a].status = "pending"
       /\ RowSettled("approval_requests", a,
                     [db.approval_requests[a] EXCEPT !.status = status])
  /\ byHand' = byHand

\* A request that a client has entered, in whatever status.
ApprovalEntered ==
  /\ \E a \in ApprovalIds, row \in ApprovalRow :
       /\ db.approval_requests[a] = NoApproval
       /\ dirty.approval_requests[a] = NoApproval
       /\ row # NoApproval
       /\ RowSettled("approval_requests", a, row)
  /\ byHand' = byHand

BillSettled ==
  /\ \E b \in BillIds, status \in {"issued", "voided"} :
       /\ db.lease_bills[b] # "none"
       /\ RowSettled("lease_bills", b, status)
  /\ byHand' = byHand

UnitEntered ==
  \E u \in Units, status \in Occupancy :
    /\ RowSettled("units", u, status)
    /\ byHand' = byHand \cup {u}

SettlesOther ==
  /\ UNCHANGED <<pc, req, owner>>
  /\ ApprovalDecided \/ ApprovalEntered \/ BillSettled \/ UnitEntered

\* What WriteAndCommit does, table by table.
LEMMA SettleEffect ==
  ASSUME StorageTypeOK, DirtyIsCommitted, NEW tab \in TableName,
         NEW id \in DOMAIN db[tab], NEW row, WriteAndCommit(tab, id, row)
  PROVE  /\ RowSettled(tab, id, row) /\ owner' = owner
         /\ DirtyIsCommitted'
<1>1. /\ Tabular /\ DOMAIN db = TableName
  BY StorageTabular
<1>2. owner[tab][id] = Nil
  BY DEF WriteAndCommit
<1> QED BY <1>1, <1>2, WriteAndCommitChanges DEF RowSettled

LEMMA OthersEffect ==
  ASSUME StorageTypeOK, DirtyIsCommitted, Others
  PROVE  SettlesOther /\ StorageTypeOK' /\ DirtyIsCommitted'
<1>1. /\ DOMAIN db["units"] = Units
      /\ DOMAIN db["lease_bills"] = BillIds
      /\ DOMAIN db["approval_requests"] = ApprovalIds
  BY StorageTabular
<1>2. /\ {"units", "lease_bills", "approval_requests"} \subseteq TableName
      /\ \A a \in ApprovalIds : db.approval_requests[a] \in ApprovalRow
  BY DEF TableName, StorageTypeOK, Tables
<1>3. ASSUME NEW a \in ApprovalIds, NEW s \in {"approved", "rejected", "cancelled"},
             DecideApproval(a, s)
      PROVE  SettlesOther /\ StorageTypeOK' /\ DirtyIsCommitted'
  <2> DEFINE row == [db.approval_requests[a] EXCEPT !.status = s]
  <2>1. row \in ApprovalRow
    BY <1>2 DEF ApprovalRow, ApprovalStatus
  <2>2. /\ db.approval_requests[a].status = "pending"
        /\ WriteAndCommit("approval_requests", a, row) /\ UNCHANGED <<pc, req, byHand>>
    BY <1>3 DEF DecideApproval
  <2> HIDE DEF row
  <2>3. RowSettled("approval_requests", a, row) /\ owner' = owner /\ DirtyIsCommitted'
    BY <1>1, <1>2, <2>2, SettleEffect
  <2>4. StorageTypeOK'
    BY <2>1, <2>2 DEF StorageTypeOK, Tables, LocksOK, TableName, WriteAndCommit
  <2>5. ApprovalDecided
    BY <2>2, <2>3 DEF ApprovalDecided, row
  <2> QED BY <2>2, <2>3, <2>4, <2>5 DEF SettlesOther
<1>4. ASSUME NEW b \in BillIds, NEW s \in {"issued", "voided"}, SettleBill(b, s)
      PROVE  SettlesOther /\ StorageTypeOK' /\ DirtyIsCommitted'
  <2>1. s \in BillStatus
    BY DEF BillStatus
  <2>2. /\ db.lease_bills[b] # "none" /\ WriteAndCommit("lease_bills", b, s)
        /\ UNCHANGED <<pc, req, byHand>>
    BY <1>4 DEF SettleBill
  <2>3. RowSettled("lease_bills", b, s) /\ owner' = owner /\ DirtyIsCommitted'
    BY <1>1, <1>2, <2>2, SettleEffect
  <2>4. StorageTypeOK'
    BY <2>1, <2>2 DEF StorageTypeOK, Tables, LocksOK, TableName, WriteAndCommit
  <2>5. BillSettled
    BY <2>2, <2>3 DEF BillSettled
  <2> QED BY <2>2, <2>3, <2>4, <2>5 DEF SettlesOther
<1>5. ASSUME NEW l \in LeaseIds, NEW type \in RequestType,
             NEW s \in ApprovalStatus \ {"none"}, SubmitApproval(l, type, s)
      PROVE  SettlesOther /\ StorageTypeOK' /\ DirtyIsCommitted'
  <2> DEFINE row == [status |-> s, lease |-> l, type |-> type]
  <2>1. row \in ApprovalRow /\ row # NoApproval
    BY DEF ApprovalRow, NoApproval
  <2>2. PICK a \in ApprovalIds : /\ dirty.approval_requests[a] = NoApproval
                                 /\ WriteAndCommit("approval_requests", a, row)
    BY <1>5 DEF SubmitApproval, NextApprovalId
  <2>3. UNCHANGED <<pc, req, byHand>>
    BY <1>5 DEF SubmitApproval
  <2> HIDE DEF row
  <2>4. RowSettled("approval_requests", a, row) /\ owner' = owner /\ DirtyIsCommitted'
    BY <1>1, <1>2, <2>2, SettleEffect
  <2>5. StorageTypeOK'
    BY <2>1, <2>2 DEF StorageTypeOK, Tables, LocksOK, TableName, WriteAndCommit
  <2>6. db.approval_requests[a] = NoApproval
    <3>1. /\ "approval_requests" \in DOMAIN owner
          /\ a \in DOMAIN owner["approval_requests"]
      BY DEF StorageTypeOK, LocksOK, TableName
    <3>2. owner["approval_requests"][a] = Nil
      BY <2>4 DEF RowSettled
    <3>3. dirty["approval_requests"][a] = db["approval_requests"][a]
      BY <3>1, <3>2 DEF DirtyIsCommitted
    <3> QED BY <2>2, <3>3
  <2>7. ApprovalEntered
    BY <2>1, <2>2, <2>3, <2>4, <2>6 DEF ApprovalEntered
  <2> QED BY <2>3, <2>4, <2>5, <2>7 DEF SettlesOther
<1>6. ASSUME NEW u \in Units, NEW s \in Occupancy, UpdateUnit(u, s)
      PROVE  SettlesOther /\ StorageTypeOK' /\ DirtyIsCommitted'
  <2>1. /\ WriteAndCommit("units", u, s) /\ UNCHANGED <<pc, req>>
        /\ byHand' = byHand \cup {u}
    BY <1>6 DEF UpdateUnit
  <2>2. RowSettled("units", u, s) /\ owner' = owner /\ DirtyIsCommitted'
    BY <1>1, <1>2, <2>1, SettleEffect
  <2>3. StorageTypeOK'
    BY <2>1 DEF StorageTypeOK, Tables, LocksOK, TableName, WriteAndCommit
  <2>4. UnitEntered
    BY <2>1, <2>2 DEF UnitEntered
  <2> QED BY <2>1, <2>2, <2>3, <2>4 DEF SettlesOther
<1> QED BY <1>3, <1>4, <1>5, <1>6 DEF Others

\* It is one row of one of these tables.
LEMMA SettlesTables ==
  ASSUME SettlesOther
  PROVE  \A tab \in TableName \ {"units", "approval_requests", "lease_bills"} :
           db'[tab] = db[tab] /\ dirty'[tab] = dirty[tab]
BY DEF SettlesOther, ApprovalDecided, ApprovalEntered, BillSettled, UnitEntered, RowSettled

\* What a step does to one table.
TableStays(tab) == db'[tab] = db[tab] /\ dirty'[tab] = dirty[tab] /\ owner'[tab] = owner[tab]

TableEnds(t, tab) ==
  \A id \in DOMAIN db[tab] :
    /\ owner'[tab][id] = IF owner[tab][id] = t THEN Nil ELSE owner[tab][id]
    /\ CommitTx(t) =>
         /\ dirty'[tab][id] = dirty[tab][id]
         /\ db'[tab][id] = IF owner[tab][id] = t THEN dirty[tab][id] ELSE db[tab][id]
    /\ RollbackTx(t) =>
         /\ db'[tab][id] = db[tab][id]
         /\ dirty'[tab][id] = IF owner[tab][id] = t THEN db[tab][id] ELSE dirty[tab][id]

LEMMA TableEffect ==
  ASSUME StorageTypeOK, NEW tab \in TableName
  PROVE  /\ UNCHANGED storage => TableStays(tab)
         /\ \A t \in Tx, other \in TableName \ {tab} : \A id, row :
              WritesRow(t, other, id, row) => TableStays(tab)
         /\ \A t \in Tx : Ends(t) => TableEnds(t, tab)
<1>1. UNCHANGED storage => TableStays(tab)
  BY DEF storage, TableStays
<1>2. ASSUME NEW t \in Tx, NEW other \in TableName \ {tab}, NEW id, NEW row,
             WritesRow(t, other, id, row)
      PROVE  TableStays(tab)
  BY <1>2 DEF WritesRow, TableStays
<1>3. ASSUME NEW t \in Tx, Ends(t) PROVE TableEnds(t, tab)
  BY <1>3, EndEffect DEF Ends, TableEnds
<1> QED BY <1>1, <1>2, <1>3

LeasesStay ==
  \A l \in LeaseIds :
    Row(l)' = Row(l) /\ NewRow(l)' = NewRow(l) /\ Locker(l)' = Locker(l)

LeaseWritten(t, l, row) ==
  /\ Locker(l) \in {Nil, t}
  /\ \A m \in LeaseIds :
       /\ Row(m)' = Row(m)
       /\ NewRow(m)' = IF m = l THEN row ELSE NewRow(m)
       /\ Locker(m)' = IF m = l THEN t ELSE Locker(m)

LeasesEnd(t) ==
  /\ \A l \in LeaseIds : Locker(l)' = IF Locker(l) = t THEN Nil ELSE Locker(l)
  /\ \/ /\ CommitTx(t) /\ pc[t] = "commit"
        /\ \A l \in LeaseIds :
             /\ NewRow(l)' = NewRow(l)
             /\ Row(l)' = IF Locker(l) = t THEN NewRow(l) ELSE Row(l)
     \/ /\ RollbackTx(t)
        /\ \A l \in LeaseIds :
             /\ Row(l)' = Row(l)
             /\ NewRow(l)' = IF Locker(l) = t THEN Row(l) ELSE NewRow(l)

\* What a step does to the leases.
LEMMA LeaseEffect ==
  ASSUME StorageTypeOK
  PROVE  /\ UNCHANGED storage \/ SettlesOther => LeasesStay
         /\ \A t \in Tx :
              /\ ChangesParty(t) \/ ChangesUnit(t) \/ BillsNext(t) \/ BillsNoMore(t)
                   \/ AsksApproval(t) => LeasesStay
              /\ \A l \in LeaseIds : \A row :
                   WritesRow(t, "lease_contracts", l, row) => LeaseWritten(t, l, row)
              /\ Ends(t) => LeasesEnd(t)
<1> DEFINE tab == "lease_contracts"
<1>1. /\ tab \in TableName /\ DOMAIN db[tab] = LeaseIds
      /\ dirty[tab] \in [LeaseIds -> LeaseRow] /\ owner[tab] \in [LeaseIds -> Tx \cup {Nil}]
  BY StorageTabular DEF TableName, StorageTypeOK, Tables, LocksOK
<1>2. TableStays(tab) => LeasesStay
  BY DEF TableStays, LeasesStay, Row, NewRow, Locker
<1>3. UNCHANGED storage => LeasesStay
  BY <1>1, <1>2, TableEffect
<1>4. SettlesOther => LeasesStay
  <2>1. tab \in TableName \ {"units", "approval_requests", "lease_bills"}
    BY <1>1
  <2>2. SettlesOther => TableStays(tab)
    <3> HIDE DEF tab
    <3> QED BY <2>1, SettlesTables DEF SettlesOther, TableStays
  <2> QED BY <1>2, <2>2
<1>5. ASSUME NEW t \in Tx, NEW other \in TableName \ {tab}, NEW id, NEW row,
             WritesRow(t, other, id, row)
      PROVE  LeasesStay
  BY <1>1, <1>2, <1>5, TableEffect
<1>6. {"units", "lease_parties", "lease_bills", "approval_requests"} \subseteq TableName \ {tab}
  BY DEF TableName
<1>7. ASSUME NEW t \in Tx,
             ChangesParty(t) \/ ChangesUnit(t) \/ BillsNext(t) \/ BillsNoMore(t)
               \/ AsksApproval(t)
      PROVE  LeasesStay
  BY <1>3, <1>5, <1>6, <1>7
     DEF ChangesParty, ChangesUnit, BillsNext, BillsNoMore, AsksApproval
<1>8. ASSUME NEW t \in Tx, NEW l \in LeaseIds, NEW row, WritesRow(t, tab, l, row)
      PROVE  LeaseWritten(t, l, row)
  BY <1>1, <1>8 DEF WritesRow, LeaseWritten, Row, NewRow, Locker
<1>9. ASSUME NEW t \in Tx, Ends(t) PROVE LeasesEnd(t)
  <2>1. TableEnds(t, tab) /\ ((CommitTx(t) /\ pc[t] = "commit") \/ RollbackTx(t))
    BY <1>1, <1>9, TableEffect DEF Ends
  <2> QED BY <1>1, <2>1 DEF TableEnds, LeasesEnd, Row, NewRow, Locker
<1> QED BY <1>3, <1>4, <1>7, <1>8, <1>9

\* What changes the control state is one transaction's.
LEMMA ControlFrame ==
  ASSUME NEW t \in Tx, Start(t) \/ Step(t)
  PROVE  /\ \E stmt : pc' = [pc EXCEPT ![t] = stmt]
         /\ req' = req \/ \E r : req' = [req EXCEPT ![t] = r]
<1> USE DEF Begin
<1>1. CASE Start(t)
  BY <1>1 DEF Start, CreateLeaseContract, UpdateLeaseContract, RenewLeaseContract,
       ActivateLeaseContract, GenerateLeaseBills, TerminateLeaseContract,
       RequestLeaseDepositRefund
<1>2. CASE Step(t)
  BY <1>2 DEF Step, InsertLease, UpdateLease, ActivateStatus, CreateLeaseParty,
       OccupyUnit, GenerateBill, GenerateEnds, TerminateStatus,
       CloseAllActiveLeaseParties, VacateUnit, InsertApproval, RenewStatus, Commit,
       Rollback
<1> QED BY <1>1, <1>2

\* A step keeps the types.
LEMMA TypedNext == Typed /\ [Next]_vars => Typed'
<1> SUFFICES ASSUME Typed, [Next]_vars PROVE Typed'
  OBVIOUS
<1>1. /\ pc \in [Tx -> Statement] /\ req \in [Tx -> Request \cup {Nil}]
      /\ \A x \in Tx : RequestOK(x)
      /\ StorageTypeOK /\ DirtyIsCommitted /\ byHand \subseteq Units
      /\ \A l \in LeaseIds : LeaseRowOK(Row(l)) /\ LeaseRowOK(NewRow(l))
  BY DEF Typed, ControlTypeOK, RowsOK
<1>2. ASSUME LeasesStay PROVE RowsOK'
  BY <1>1, <1>2 DEF LeasesStay, RowsOK, LeaseRowOK
<1>3. CASE UNCHANGED vars
  <2>1. StorageTypeOK' /\ DirtyIsCommitted'
    BY <1>1, <1>3 DEF vars, StorageTypeOK, LocksOK, DirtyIsCommitted
  <2>2. ControlTypeOK'
    BY <1>1, <1>3 DEF vars, ControlTypeOK, RequestOK
  <2>3. RowsOK'
    BY <1>1, <1>2, <1>3, LeaseEffect DEF vars, storage
  <2> QED BY <2>1, <2>2, <2>3 DEF Typed
<1>4. CASE Others
  <2>1. SettlesOther /\ StorageTypeOK' /\ DirtyIsCommitted'
    BY <1>1, <1>4, OthersEffect
  <2>2. ControlTypeOK'
    <3>1. byHand' \subseteq Units
      BY <1>1, <2>1 DEF SettlesOther, ApprovalDecided, ApprovalEntered, BillSettled,
         UnitEntered
    <3> QED BY <1>1, <2>1, <3>1 DEF SettlesOther, ControlTypeOK, RequestOK
  <2>3. RowsOK'
    BY <1>1, <1>2, <2>1, LeaseEffect
  <2> QED BY <2>1, <2>2, <2>3 DEF Typed
<1>5. ASSUME NEW t \in Tx, Start(t) \/ Step(t), OthersStay(t), RequestOK(t)',
             pc'[t] \in Statement, req'[t] \in Request \cup {Nil},
             byHand' \subseteq byHand
      PROVE  ControlTypeOK'
  <2>1. PICK stmt : pc' = [pc EXCEPT ![t] = stmt]
    BY <1>5, ControlFrame
  <2>2. req' = req \/ \E r : req' = [req EXCEPT ![t] = r]
    BY <1>5, ControlFrame
  <2>3. pc' \in [Tx -> Statement] /\ req' \in [Tx -> Request \cup {Nil}]
    BY <1>1, <1>5, <2>1, <2>2
  <2>4. \A x \in Tx \ {t} : RequestOK(x)'
    BY <1>1, <1>5 DEF OthersStay, RequestOK
  <2> QED BY <1>1, <1>5, <2>3, <2>4 DEF ControlTypeOK
<1>6. ASSUME NEW t \in Tx, Start(t) PROVE Typed'
  <2>1. Begun(t)
    BY <1>6, StartEffect
  <2>2. \A l \in LeaseIds : LeaseRowOK(LeaseOf(t, l))
    BY <1>1 DEF LeaseOf, Sees, Row, NewRow
  <2>3. RequestOK(t)' /\ pc'[t] \in Statement /\ req'[t] \in Request
    BY <2>1, <2>2 DEF Begun, RequestOK, StatementsOf, Op, Statement, LeaseRowOK, NoLease,
       To, From
  <2>4. ControlTypeOK'
    BY <1>5, <1>6, <2>1, <2>3 DEF Begun
  <2>5. RowsOK' /\ StorageTypeOK' /\ DirtyIsCommitted'
    BY <1>1, <1>2, <2>1, LeaseEffect
       DEF Begun, storage, StorageTypeOK, LocksOK, DirtyIsCommitted
  <2> QED BY <2>4, <2>5 DEF Typed
<1>7. ASSUME NEW t \in Tx, Step(t) PROVE Typed'
  <2>1. /\ \/ InsertsLease(t) \/ EditsLease(t) \/ MovesLease(t)
           \/ ChangesParty(t) \/ ChangesUnit(t)
           \/ BillsNext(t) \/ BillsNoMore(t)
           \/ AsksApproval(t) \/ Ends(t)
        /\ StorageTypeOK' /\ DirtyIsCommitted'
    BY <1>7, StepEffect
  <2>2. /\ pc[t] # "idle" /\ RequestOK(t) /\ req[t] \in Request /\ req[t].op \in Op
    BY <1>1, <2>1 DEF InsertsLease, EditsLease, MovesLease, ChangesParty, ChangesUnit,
       BillsNext, BillsNoMore, AsksApproval, Ends, RequestOK
  <2>3. OthersStay(t) /\ RequestOK(t)' /\ pc'[t] \in Statement
        /\ req'[t] \in Request \cup {Nil}
    <3>1. CASE \E stmt : Goes(t, stmt) /\ stmt \in StatementsOf(req[t].op) /\ stmt \in Statement
      BY <2>2, <3>1 DEF Goes, RequestOK
    <3>2. CASE Ends(t)
      BY <3>2 DEF Ends, RequestOK, Statement
    <3>3. CASE BillsNext(t)
      <4>1. req[t].next + 1 \in 1..(MaxPeriods + 1)
        BY <2>2, <3>3, LeaseAssumption DEF BillsNext, BillIds, Request
      <4>2. /\ req'[t] \in Request /\ req'[t].op = req[t].op
            /\ req'[t].lease = req[t].lease /\ req'[t].renews = req[t].renews
        <5>1. req'[t] = [req[t] EXCEPT !.next = req[t].next + 1]
          BY <3>3 DEF BillsNext
        <5> QED BY <2>2, <4>1, <5>1, RequestFields DEF Request
      <4> QED BY <2>2, <3>3, <4>2 DEF BillsNext, RequestOK, Statement
    <3>4. CASE \/ InsertsLease(t) \/ EditsLease(t) \/ MovesLease(t) \/ ChangesParty(t)
               \/ ChangesUnit(t) \/ BillsNoMore(t) \/ AsksApproval(t)
      <4>1. \E stmt : Goes(t, stmt) /\ stmt \in StatementsOf(req[t].op) /\ stmt \in Statement
        BY <3>4 DEF InsertsLease, EditsLease, MovesLease, ChangesParty, ChangesUnit,
           BillsNoMore, AsksApproval, StatementsOf, Statement
      <4> QED BY <3>1, <4>1
    <3> QED BY <2>1, <3>2, <3>3, <3>4
  <2>4. ControlTypeOK'
    <3>1. byHand' \subseteq byHand
      BY <2>1 DEF InsertsLease, EditsLease, MovesLease, ChangesParty, ChangesUnit, BillsNext,
         BillsNoMore, AsksApproval, Ends, Goes
    <3> QED BY <1>5, <1>7, <2>3, <3>1
  <2>5. RowsOK'
    <3>1. CASE \E l \in LeaseIds : \E row : LeaseWritten(t, l, row) /\ LeaseRowOK(row)
      BY <1>1, <3>1 DEF LeaseWritten, RowsOK, LeaseRowOK
    <3>2. CASE InsertsLease(t)
      <4> DEFINE row == [status |-> "draft", unit |-> req[t].unit,
                         renewed_from |-> req[t].renews, periods |-> req[t].periods]
      <4>1. LeaseRowOK(row)
        BY <2>2, <3>2 DEF InsertsLease, RequestOK, LeaseRowOK
      <4>2. \E l \in LeaseIds : WritesRow(t, "lease_contracts", l, row)
        BY <3>2 DEF InsertsLease
      <4> HIDE DEF row
      <4> QED BY <1>1, <3>1, <4>1, <4>2, LeaseEffect
    <3>3. ASSUME NEW l \in LeaseIds, NewRow(l).status # "none"
          PROVE  /\ \A s : s # "none" => LeaseRowOK([NewRow(l) EXCEPT !.status = s])
                 /\ \A n : n # 0 => LeaseRowOK([NewRow(l) EXCEPT !.periods = n])
      <4>1. NewRow(l) \in LeaseRow /\ LeaseRowOK(NewRow(l))
        BY <1>1 DEF StorageTypeOK, Tables, NewRow
      <4> QED BY <3>3, <4>1 DEF LeaseRow, LeaseRowOK, NoLease
    <3>4. CASE EditsLease(t)
      <4> DEFINE row == [NewRow(req[t].lease) EXCEPT !.periods = req[t].periods]
      <4>1. /\ LeaseRowOK(row) /\ req[t].lease \in LeaseIds
            /\ WritesRow(t, "lease_contracts", req[t].lease, row)
        BY <2>2, <3>3, <3>4 DEF EditsLease, RequestOK
      <4> HIDE DEF row
      <4> QED BY <1>1, <3>1, <4>1, LeaseEffect
    <3>5. CASE MovesLease(t)
      <4> DEFINE row == [NewRow(req[t].lease) EXCEPT !.status = To[req[t].op]]
      <4>0. /\ From[req[t].op] # "none" /\ To[req[t].op] # "none"
            /\ req[t].lease \in LeaseIds
        BY <2>2, <3>5 DEF MovesLease, From, To, RequestOK
      <4>1. /\ LeaseRowOK(row)
            /\ WritesRow(t, "lease_contracts", req[t].lease, row)
        BY <3>3, <3>5, <4>0 DEF MovesLease
      <4> HIDE DEF row
      <4> QED BY <1>1, <3>1, <4>0, <4>1, LeaseEffect
    <3>6. CASE Ends(t)
      <4>1. LeasesEnd(t)
        BY <1>1, <3>6, LeaseEffect
      <4> QED BY <1>1, <4>1 DEF LeasesEnd, RowsOK, LeaseRowOK
    <3> QED BY <1>1, <1>2, <2>1, <3>2, <3>4, <3>5, <3>6, LeaseEffect
  <2> QED BY <2>1, <2>4, <2>5 DEF Typed
<1> QED BY <1>3, <1>4, <1>6, <1>7 DEF Next

\* The parts of Typed that are about leases and requests.
LEMMA TypedLeases ==
  ASSUME Typed
  PROVE  /\ StorageTypeOK /\ \A t \in Tx : RequestOK(t)
         /\ \A l \in LeaseIds :
              /\ Row(l) \in LeaseRow /\ NewRow(l) \in LeaseRow
              /\ Locker(l) \in Tx \cup {Nil}
              /\ Locker(l) = Nil => NewRow(l) = Row(l)
              /\ LeaseRowOK(Row(l)) /\ LeaseRowOK(NewRow(l))
<1> DEFINE tab == "lease_contracts"
<1>1. StorageTypeOK /\ DirtyIsCommitted /\ RowsOK /\ \A t \in Tx : RequestOK(t)
  BY DEF Typed, ControlTypeOK
<1>2. tab \in DOMAIN owner /\ DOMAIN owner[tab] = LeaseIds
  BY <1>1 DEF StorageTypeOK, LocksOK, TableName
<1>3. \A l \in LeaseIds : owner[tab][l] = Nil => dirty[tab][l] = db[tab][l]
  BY <1>1, <1>2 DEF DirtyIsCommitted
<1> QED BY <1>1, <1>3 DEF StorageTypeOK, Tables, LocksOK, RowsOK, Row, NewRow, Locker

\* A step of t is one of these; the rest is stuttering and other people's.
LEMMA StepCases ==
  ASSUME Typed, [Next]_vars
  PROVE  \/ UNCHANGED vars \/ SettlesOther
         \/ \E t \in Tx :
              \/ Begun(t)
              \/ InsertsLease(t) \/ EditsLease(t) \/ MovesLease(t)
              \/ ChangesParty(t) \/ ChangesUnit(t)
              \/ BillsNext(t) \/ BillsNoMore(t)
              \/ AsksApproval(t) \/ Ends(t)
<1>1. Others => SettlesOther
  BY OthersEffect DEF Typed
<1>2. ASSUME NEW t \in Tx, Start(t) PROVE Begun(t)
  BY <1>2, StartEffect
<1>3. ASSUME NEW t \in Tx, Step(t)
      PROVE  \/ InsertsLease(t) \/ EditsLease(t) \/ MovesLease(t)
             \/ ChangesParty(t) \/ ChangesUnit(t)
             \/ BillsNext(t) \/ BillsNoMore(t)
             \/ AsksApproval(t) \/ Ends(t)
  BY <1>3, StepEffect
<1> QED BY <1>1, <1>2, <1>3 DEF Next

-----------------------------------------------------------------------------
(***************************************************************************)
(* The locks on leases.                                                    *)
(***************************************************************************)
\* A transaction that has not written a lease has locked none.
LEMMA NoLeaseLocked ==
  ASSUME LeasesSound, NEW t \in Tx, NEW l \in LeaseIds, Locker(l) = t
  PROVE  /\ pc[t] \in {"insert_party", "occupy", "close_parties", "vacate",
                      "insert_lease", "commit"}
         /\ req[t].op \in {"create", "update", "activate", "terminate", "renew"}
         /\ pc[t] # "commit" => Moves(t, l)
         /\ Moves(t, l) \/ Edits(t, l) \/ Inserts(t, l)
BY DEF LeasesSound, LeasesSoundFor, LeaseLocks, Moves, Edits, Inserts, To

\* The unit of a lease and the lease it renews never change.
LeaseKept(l) ==
  Row(l).status # "none" =>
    /\ Row(l)'.status # "none" /\ Row(l)'.unit = Row(l).unit
    /\ Row(l)'.renewed_from = Row(l).renewed_from

LEMMA LeasesAreKept ==
  ASSUME Typed, LeasesSound, NEW t \in Tx, LeasesEnd(t), NEW l \in LeaseIds
  PROVE  LeaseKept(l)
<1>1. /\ Row(l) \in LeaseRow
      /\ Row(l)' \in {Row(l), NewRow(l)}
      /\ Row(l)' # Row(l) => Locker(l) = t
  BY TypedLeases DEF LeasesEnd
<1>2. CASE Locker(l) # t
  BY <1>1, <1>2 DEF LeaseKept
<1>3. CASE Locker(l) = t
  <2>1. Moves(t, l) \/ Edits(t, l) \/ Inserts(t, l)
    BY <1>3, NoLeaseLocked
  <2>2. CASE Moves(t, l)
    <3>1. /\ NewRow(l) = [Row(l) EXCEPT !.status = To[req[t].op]]
          /\ To[req[t].op] # "none"
      BY <2>2 DEF Moves, To
    <3> QED BY <1>1, <3>1 DEF LeaseKept, LeaseRow
  <2>3. CASE Edits(t, l)
    BY <1>1, <2>3 DEF Edits, LeaseKept, LeaseRow
  <2>4. CASE Inserts(t, l)
    BY <2>4 DEF Inserts, LeaseKept, NoLease
  <2> QED BY <2>1, <2>2, <2>3, <2>4
<1> QED BY <1>2, <1>3

\* What is said of a transaction stays so as long as it does nothing.
LEMMA LeasesOfOthers ==
  ASSUME Typed, LeasesSound, NEW x \in Tx, pc'[x] = pc[x], req'[x] = req[x],
         \A l \in LeaseIds :
           /\ Locker(l)' = x <=> Locker(l) = x
           /\ Locker(l) = x => Row(l)' = Row(l) /\ NewRow(l)' = NewRow(l)
           /\ LeaseKept(l)
  PROVE  LeasesSoundFor(x)'
<1>1. LeasesSoundFor(x) /\ RequestOK(x)
  BY TypedLeases DEF LeasesSound
<1>2. LeaseLocks(x)'
  BY <1>1 DEF LeasesSoundFor, LeaseLocks, Moves, Edits, Inserts
<1>3. pc[x] # "idle" /\ req[x].op # "create" => req[x].lease \in LeaseIds
  BY <1>1 DEF RequestOK
<1>4. HasMoved(x) => pc[x] # "idle" /\ req[x].op # "create"
  BY <1>1 DEF HasMoved, RequestOK, StatementsOf, Op
<1>5. MoverLocks(x)'
  BY <1>1, <1>3, <1>4 DEF LeasesSoundFor, MoverLocks, HasMoved
<1>6. UnitIsRemembered(x)'
  BY <1>1, <1>3 DEF LeasesSoundFor, UnitIsRemembered, LeaseKept
<1> QED BY <1>2, <1>5, <1>6 DEF LeasesSoundFor

\* Every step keeps what is said of the locks on leases.
LEMMA LeasesNext == Typed /\ LeasesSound /\ [Next]_vars => LeasesSound'
<1> SUFFICES ASSUME Typed, LeasesSound, [Next]_vars PROVE LeasesSound'
  OBVIOUS
<1>1. /\ StorageTypeOK /\ \A t \in Tx : RequestOK(t) /\ LeasesSoundFor(t)
      /\ Nil \notin Tx
      /\ \A l \in LeaseIds :
           /\ Row(l) \in LeaseRow /\ NewRow(l) \in LeaseRow
           /\ Locker(l) = Nil => NewRow(l) = Row(l)
  BY TypedLeases, NilAssumption DEF LeasesSound
<1>2. CASE UNCHANGED vars \/ SettlesOther
  <2>1. LeasesStay /\ \A x \in Tx : pc'[x] = pc[x] /\ req'[x] = req[x]
    BY <1>1, <1>2, LeaseEffect DEF vars, storage, SettlesOther
  <2> QED BY <2>1, LeasesOfOthers DEF LeasesSound, LeasesStay, LeaseKept
<1>3. ASSUME NEW t \in Tx, OthersStay(t), LeasesStay, LeasesSoundFor(t)'
      PROVE  LeasesSound'
  BY <1>3, LeasesOfOthers DEF OthersStay, LeasesSound, LeasesStay, LeaseKept
<1>4. ASSUME NEW t \in Tx, Begun(t) PROVE LeasesSound'
  <2>1. OthersStay(t) /\ LeasesStay /\ pc[t] = "idle"
    BY <1>1, <1>4, LeaseEffect DEF Begun
  <2>2. \A l \in LeaseIds : Locker(l) # t /\ Locker(l)' # t
    BY <1>1, <2>1, NoLeaseLocked DEF LeasesStay
  <2>3. \A l \in LeaseIds : LeaseOf(t, l) = Row(l)
    BY <2>2 DEF LeaseOf, Sees, Row, Locker
  <2>4. LeaseLocks(t)' /\ MoverLocks(t)'
    BY <1>4, <2>2 DEF LeaseLocks, MoverLocks, HasMoved, Begun, To
  <2>5. UnitIsRemembered(t)'
    BY <1>4, <2>1, <2>3 DEF UnitIsRemembered, Begun, LeasesStay, To, From
  <2> QED BY <1>3, <2>1, <2>4, <2>5 DEF LeasesSoundFor
<1>5. ASSUME NEW t \in Tx,
             ChangesParty(t) \/ ChangesUnit(t) \/ BillsNext(t) \/ BillsNoMore(t)
               \/ AsksApproval(t)
      PROVE  LeasesSound'
  <2>1. OthersStay(t) /\ LeasesStay
    BY <1>1, <1>5, LeaseEffect DEF ChangesParty, ChangesUnit, BillsNext, BillsNoMore,
       AsksApproval, Goes
  <2>2. /\ req'[t].op = req[t].op /\ req'[t].lease = req[t].lease
        /\ req'[t].unit = req[t].unit /\ req[t].op # "create"
        /\ pc[t] # "idle" /\ req[t].lease \in LeaseIds
    <3>1. /\ pc[t] # "idle" /\ req[t].op # "create"
          /\ req'[t] = req[t] \/ req'[t] = [req[t] EXCEPT !.next = req[t].next + 1]
      BY <1>5 DEF ChangesParty, ChangesUnit, BillsNext, BillsNoMore, AsksApproval, Goes
    <3>2. req[t] \in Request /\ req[t].lease \in LeaseIds
      BY <1>1, <3>1 DEF RequestOK
    <3> QED BY <3>1, <3>2 DEF Request
  <2>3. ASSUME NEW l \in LeaseIds, Locker(l) = t
        PROVE  Moves(t, l)'
    <3>1. Moves(t, l) /\ (ChangesParty(t) \/ ChangesUnit(t))
      BY <1>5, <2>3, NoLeaseLocked
         DEF ChangesParty, ChangesUnit, BillsNext, BillsNoMore, AsksApproval
    <3> QED BY <2>1, <2>2, <3>1 DEF Moves, LeasesStay, ChangesParty, ChangesUnit, Goes
  <2>4. MoverLocks(t)'
    <3>1. HasMoved(t)' => HasMoved(t)
      BY <1>5, <2>2 DEF HasMoved, ChangesParty, ChangesUnit, BillsNext, BillsNoMore,
         AsksApproval, Goes
    <3> QED BY <1>1, <2>1, <2>2, <3>1 DEF LeasesSoundFor, MoverLocks, LeasesStay
  <2>5. LeaseLocks(t)'
    BY <2>1, <2>3 DEF LeaseLocks, LeasesStay
  <2>6. UnitIsRemembered(t)'
    BY <1>1, <2>1, <2>2 DEF LeasesSoundFor, UnitIsRemembered, LeasesStay
  <2> QED BY <1>3, <2>1, <2>4, <2>5, <2>6 DEF LeasesSoundFor
<1>6. ASSUME NEW t \in Tx, NEW l \in LeaseIds, NEW row, LeaseWritten(t, l, row),
             OthersStay(t), LeasesSoundFor(t)'
      PROVE  LeasesSound'
  <2>1. ASSUME NEW x \in Tx \ {t} PROVE LeasesSoundFor(x)'
    <3>1. /\ pc'[x] = pc[x] /\ req'[x] = req[x]
          /\ \A m \in LeaseIds :
               /\ Locker(m)' = x <=> Locker(m) = x
               /\ Locker(m) = x => Row(m)' = Row(m) /\ NewRow(m)' = NewRow(m)
               /\ LeaseKept(m)
      BY <1>1, <1>6 DEF OthersStay, LeaseWritten, LeaseKept
    <3> QED BY <3>1, LeasesOfOthers
  <2> QED BY <1>6, <2>1 DEF LeasesSound
<1>7. ASSUME NEW t \in Tx, InsertsLease(t) PROVE LeasesSound'
  <2> DEFINE row == [status |-> "draft", unit |-> req[t].unit,
                     renewed_from |-> req[t].renews, periods |-> req[t].periods]
  <2>1. PICK l \in LeaseIds : NewRow(l) = NoLease /\ WritesRow(t, "lease_contracts", l, row)
    BY <1>7 DEF InsertsLease
  <2>2. LeaseWritten(t, l, row)
    <3> HIDE DEF row
    <3> QED BY <1>1, <2>1, LeaseEffect
  <2>3. /\ OthersStay(t) /\ pc[t] = "insert_lease" /\ pc'[t] = "commit"
        /\ req'[t] = req[t] /\ req[t].op \in {"create", "renew"}
    BY <1>7 DEF InsertsLease, Goes
  <2>4. ASSUME NEW m \in LeaseIds, Locker(m) = t PROVE Moves(t, m) /\ m # l
    BY <1>1, <2>1, <2>3, <2>4, NoLeaseLocked DEF Moves, NoLease, LeaseRow, To
  <2>5. Inserts(t, l)'
    <3>1. Row(l) = NoLease
      BY <1>1, <2>1, <2>2, <2>4 DEF LeaseWritten
    <3> QED BY <2>2, <2>3, <3>1 DEF Inserts, LeaseWritten
  <2>6. LeaseLocks(t)'
    BY <2>2, <2>3, <2>4, <2>5 DEF LeaseLocks, LeaseWritten, Moves
  <2>7. MoverLocks(t)'
    <3>1. req[t].op = "renew" => req[t].lease \in LeaseIds /\ Locker(req[t].lease) = t
      BY <1>1, <2>3 DEF RequestOK, LeasesSoundFor, MoverLocks, HasMoved
    <3> QED BY <2>2, <2>3, <3>1 DEF MoverLocks, HasMoved, LeaseWritten
  <2>8. UnitIsRemembered(t)'
    <3>1. req[t].op = "renew" => req[t].lease \in LeaseIds
      BY <1>1, <2>3 DEF RequestOK
    <3> QED BY <1>1, <2>2, <2>3, <3>1 DEF UnitIsRemembered, LeaseWritten, LeasesSoundFor
  <2> QED BY <1>6, <2>2, <2>3, <2>6, <2>7, <2>8 DEF LeasesSoundFor
<1>8. ASSUME NEW t \in Tx, EditsLease(t) \/ MovesLease(t) PROVE LeasesSound'
  <2> DEFINE l == req[t].lease
             row == IF req[t].op = "update"
                      THEN [NewRow(l) EXCEPT !.periods = req[t].periods]
                      ELSE [NewRow(l) EXCEPT !.status = To[req[t].op]]
  <2>1. /\ OthersStay(t) /\ req'[t] = req[t] /\ pc[t] # "idle" /\ l \in LeaseIds
        /\ pc[t] \in {"update_lease", "activate_status", "terminate_status",
                     "renew_status"}
        /\ req[t].op \in {"update", "activate", "terminate", "renew"}
    BY <1>1, <1>8 DEF EditsLease, MovesLease, Goes, RequestOK
  <2>2. WritesRow(t, "lease_contracts", l, row)
    BY <1>8 DEF EditsLease, MovesLease
  <2>3. LeaseWritten(t, l, row)
    <3> HIDE DEF row, l
    <3> QED BY <1>1, <2>1, <2>2, LeaseEffect
  <2>4. \A m \in LeaseIds : Locker(m) # t
    BY <2>1, NoLeaseLocked
  <2>5. NewRow(l) = Row(l)
    BY <1>1, <2>1, <2>3, <2>4 DEF LeaseWritten
  <2>6. LeaseLocks(t)'
    <3>1. Moves(t, l)' \/ Edits(t, l)'
      <4>1. Row(l)' = Row(l) /\ NewRow(l)' = row
        BY <2>1, <2>3 DEF LeaseWritten
      <4>2. CASE EditsLease(t)
        BY <2>1, <2>5, <4>1, <4>2 DEF EditsLease, Goes, Edits
      <4>3. CASE MovesLease(t)
        BY <2>1, <2>5, <4>1, <4>3 DEF MovesLease, Goes, Moves, To
      <4> QED BY <1>8, <4>2, <4>3
    <3>2. \A m \in LeaseIds : Locker(m)' = t => m = l /\ m = req'[t].lease
      BY <2>1, <2>3, <2>4 DEF LeaseWritten
    <3> QED BY <2>1, <3>1, <3>2 DEF LeaseLocks
  <2>7. MoverLocks(t)'
    <3>1. Locker(l)' = t
      BY <2>1, <2>3 DEF LeaseWritten
    <3> QED BY <2>1, <3>1 DEF MoverLocks
  <2>8. UnitIsRemembered(t)'
    BY <1>1, <2>1, <2>3 DEF UnitIsRemembered, LeaseWritten, LeasesSoundFor
  <2> QED BY <1>6, <2>1, <2>3, <2>6, <2>7, <2>8 DEF LeasesSoundFor
<1>9. ASSUME NEW t \in Tx, Ends(t) PROVE LeasesSound'
  <2>1. LeasesEnd(t) /\ OthersStay(t) /\ pc'[t] = "idle"
    BY <1>1, <1>9, LeaseEffect DEF Ends
  <2>2. LeasesSoundFor(t)'
    BY <1>1, <2>1 DEF LeasesSoundFor, LeaseLocks, MoverLocks, HasMoved, UnitIsRemembered,
       LeasesEnd
  <2>3. ASSUME NEW x \in Tx \ {t} PROVE LeasesSoundFor(x)'
    <3>1. \A m \in LeaseIds : LeaseKept(m)
      BY <2>1, LeasesAreKept
    <3>2. /\ pc'[x] = pc[x] /\ req'[x] = req[x]
          /\ \A m \in LeaseIds :
               /\ Locker(m)' = x <=> Locker(m) = x
               /\ Locker(m) = x => Row(m)' = Row(m) /\ NewRow(m)' = NewRow(m)
      BY <1>1, <2>1 DEF OthersStay, LeasesEnd
    <3> QED BY <3>1, <3>2, LeasesOfOthers
  <2> QED BY <2>2, <2>3 DEF LeasesSound
<1> QED BY <1>2, <1>4, <1>5, <1>7, <1>8, <1>9, StepCases

\* At first there is nothing, and nobody has begun.
LEMMA InitFacts ==
  ASSUME Init
  PROVE  /\ Typed /\ \A t \in Tx : pc[t] = "idle"
         /\ \A l \in LeaseIds :
              /\ Row(l) = NoLease /\ NewRow(l) = NoLease /\ Locker(l) = Nil
              /\ db.lease_parties[l] = "none" /\ owner.lease_parties[l] = Nil
         /\ \A u \in Units : owner.units[u] = Nil
         /\ byHand = Units
         /\ \A b \in BillIds : db.lease_bills[b] = "none" /\ owner.lease_bills[b] = Nil
         /\ \A a \in ApprovalIds : owner.approval_requests[a] = Nil
<1>1. PICK occupancy_status \in [Units -> Occupancy] :
         db = [units |-> occupancy_status,
               lease_contracts |-> [l \in LeaseIds |-> NoLease],
               lease_parties |-> [l \in LeaseIds |-> "none"],
               lease_bills |-> [b \in BillIds |-> "none"],
               approval_requests |-> [a \in ApprovalIds |-> NoApproval]]
  BY DEF Init
<1>0. /\ dirty = db
      /\ owner = [tab \in DOMAIN Rows |-> [id \in Rows[tab] |-> Nil]]
      /\ pc = [t \in Tx |-> "idle"] /\ req = [t \in Tx |-> Nil]
      /\ byHand = Units
  BY DEF Init
<1>2. NoLease \in LeaseRow /\ NoApproval \in ApprovalRow
  BY LeaseAssumption DEF NoLease, LeaseRow, LeaseStatus, NoApproval, ApprovalRow,
     ApprovalStatus
<1>3. db \in Tables /\ dirty \in Tables
  <2> HIDE DEF NoLease, NoApproval
  <2> QED BY <1>0, <1>1, <1>2 DEF Tables, PartyStatus, BillStatus
<1>4. /\ DOMAIN owner = TableName
      /\ owner.units = [u \in Units |-> Nil]
      /\ owner.lease_contracts = [l \in LeaseIds |-> Nil]
      /\ owner.lease_parties = [l \in LeaseIds |-> Nil]
      /\ owner.lease_bills = [b \in BillIds |-> Nil]
      /\ owner.approval_requests = [a \in ApprovalIds |-> Nil]
  <2>1. /\ DOMAIN Rows = TableName
        /\ Rows.units = Units /\ Rows.lease_contracts = LeaseIds
        /\ Rows.lease_parties = LeaseIds /\ Rows.lease_bills = BillIds
        /\ Rows.approval_requests = ApprovalIds
    BY DEF Rows, TableName
  <2> HIDE DEF Rows
  <2> QED BY <1>0, <2>1 DEF TableName
<1>5. ControlTypeOK
  BY <1>0 DEF ControlTypeOK, RequestOK, Statement
<1>6. Typed
  <2>1. StorageTypeOK
    BY <1>3, <1>4 DEF StorageTypeOK, LocksOK
  <2>2. RowsOK /\ DirtyIsCommitted
    BY <1>0, <1>1 DEF RowsOK, LeaseRowOK, Row, NewRow, DirtyIsCommitted
  <2> QED BY <1>5, <2>1, <2>2 DEF Typed
<1>7. /\ db.lease_contracts = [l \in LeaseIds |-> NoLease]
      /\ db.lease_parties = [l \in LeaseIds |-> "none"]
      /\ db.lease_bills = [b \in BillIds |-> "none"]
  BY <1>1
<1> QED BY <1>0, <1>4, <1>6, <1>7 DEF Row, NewRow, Locker

LEMMA OneActiveNext == Typed /\ LeasesSound /\ OneActive /\ [Next]_vars => OneActive'
<1> SUFFICES ASSUME Typed, LeasesSound, OneActive, [Next]_vars PROVE OneActive'
  OBVIOUS
<1>1. /\ StorageTypeOK /\ \A t \in Tx : RequestOK(t)
      /\ \A l \in LeaseIds : Row(l) \in LeaseRow /\ NewRow(l) \in LeaseRow
  BY TypedLeases
<1>2. ASSUME \A l \in LeaseIds :
               /\ Row(l)' \in {Row(l), NewRow(l)}
               /\ NewRow(l)' \in {Row(l), NewRow(l)} \/ NewRow(l)'.status # "active"
      PROVE  OneActive'
  BY <1>2 DEF OneActive
<1>3. ASSUME LeasesStay PROVE OneActive'
  BY <1>2, <1>3 DEF LeasesStay
<1>4. ASSUME NEW t \in Tx, Ends(t) PROVE OneActive'
  BY <1>1, <1>2, <1>4, LeaseEffect DEF LeasesEnd
<1>5. ASSUME NEW t \in Tx, NEW l \in LeaseIds, NEW row, LeaseWritten(t, l, row),
             row.status # "active"
      PROVE  OneActive'
  BY <1>2, <1>5 DEF LeaseWritten
<1>6. ASSUME NEW t \in Tx, InsertsLease(t) PROVE OneActive'
  <2>1. PICK l \in LeaseIds : \E row : row.status = "draft" /\ LeaseWritten(t, l, row)
    <3> DEFINE row == [status |-> "draft", unit |-> req[t].unit,
                       renewed_from |-> req[t].renews, periods |-> req[t].periods]
    <3>1. /\ row.status = "draft"
          /\ \E l \in LeaseIds : WritesRow(t, "lease_contracts", l, row)
      BY <1>6 DEF InsertsLease
    <3> HIDE DEF row
    <3> QED BY <1>1, <3>1, LeaseEffect
  <2> QED BY <1>5, <2>1
<1>7. ASSUME NEW t \in Tx, EditsLease(t) PROVE OneActive'
  <2> DEFINE row == [NewRow(req[t].lease) EXCEPT !.periods = req[t].periods]
  <2>1. req[t].lease \in LeaseIds
    BY <1>1, <1>7 DEF EditsLease, RequestOK
  <2>2. row.status = "draft" /\ WritesRow(t, "lease_contracts", req[t].lease, row)
    BY <1>1, <1>7, <2>1 DEF EditsLease, LeaseRow
  <2> HIDE DEF row
  <2> QED BY <1>1, <1>5, <2>1, <2>2, LeaseEffect
<1>8. ASSUME NEW t \in Tx, MovesLease(t) PROVE OneActive'
  <2> DEFINE l == req[t].lease
             row == [NewRow(l) EXCEPT !.status = To[req[t].op]]
  <2>1. l \in LeaseIds /\ pc[t] \notin {"insert_lease", "commit"}
    BY <1>1, <1>8 DEF MovesLease, RequestOK
  <2>2. /\ row.status = To[req[t].op] /\ row.unit = NewRow(l).unit
        /\ WritesRow(t, "lease_contracts", l, row)
    BY <1>1, <1>8, <2>1 DEF MovesLease, LeaseRow
  <2>3. LeaseWritten(t, l, row)
    <3> HIDE DEF row, l
    <3> QED BY <1>1, <2>1, <2>2, LeaseEffect
  <2>4. CASE req[t].op # "activate"
    <3>1. row.status # "active"
      BY <1>8, <2>2, <2>4 DEF MovesLease, To
    <3> HIDE DEF row
    <3> QED BY <1>5, <2>1, <2>3, <3>1
  <2>5. CASE req[t].op = "activate"
    <3>1. \A m \in LeaseIds \ {l} : LeaseOf(t, m) = Row(m)
      <4>1. \A m \in LeaseIds : Locker(m) # t
        BY <1>8, NoLeaseLocked DEF MovesLease
      <4> QED BY <4>1 DEF LeaseOf, Sees, Row, Locker
    <3>2. \A m \in LeaseIds \ {l} : \A y \in {Row(m), NewRow(m)} :
            ~(y.status = "active" /\ y.unit = row.unit)
      BY <1>8, <2>2, <2>5, <3>1 DEF MovesLease
    <3> HIDE DEF row, l
    <3> QED BY <2>1, <2>3, <3>2 DEF OneActive, LeaseWritten
  <2> QED BY <2>4, <2>5
<1>9. UNCHANGED vars \/ SettlesOther => LeasesStay
  BY <1>1, LeaseEffect DEF vars, storage
<1>10. \A t \in Tx : Begun(t) => LeasesStay
  BY <1>1, LeaseEffect DEF Begun
<1>11. \A t \in Tx : ChangesParty(t) \/ ChangesUnit(t) \/ BillsNext(t) \/ BillsNoMore(t)
                      \/ AsksApproval(t) => LeasesStay
  BY <1>1, LeaseEffect
<1> QED BY <1>3, <1>4, <1>6, <1>7, <1>8, <1>9, <1>10, <1>11, StepCases

\* The inductive invariant of the leases.
Sound == Typed /\ LeasesSound /\ OneActive

LEMMA SpecSound == Spec => []Sound
<1>1. Init => Sound
  <2> SUFFICES ASSUME Init PROVE Sound
    OBVIOUS
  <2>1. Typed /\ \A t \in Tx : pc[t] = "idle"
    BY InitFacts
  <2>2. \A l \in LeaseIds : Row(l) = NoLease /\ NewRow(l) = NoLease /\ Locker(l) = Nil
    BY InitFacts
  <2>3. LeasesSound
    BY <2>1, <2>2, NilAssumption DEF LeasesSound, LeasesSoundFor, LeaseLocks, MoverLocks,
       HasMoved, UnitIsRemembered
  <2>4. OneActive
    BY <2>2 DEF OneActive, NoLease
  <2> QED BY <2>1, <2>3, <2>4 DEF Sound
<1>2. Sound /\ [Next]_vars => Sound'
  BY TypedNext, LeasesNext, OneActiveNext DEF Sound
<1> QED BY <1>1, <1>2, PTL DEF Spec

\* The tables are of their types.
THEOREM TypeCorrect == Spec => []TypeOK
<1>1. Sound => TypeOK
  BY DEF Sound, Typed, StorageTypeOK, ControlTypeOK, Tables, TypeOK
<1> QED BY <1>1, SpecSound, PTL

-----------------------------------------------------------------------------
(***************************************************************************)
(* Leases implement UnitHolding.                                           *)
(***************************************************************************)
\* l neither begins nor ends to be let.
Unmoved(l) ==
  \/ StatusOf(l)' = StatusOf(l) /\ UnitOf(l)' = UnitOf(l)
  \/ StatusOf(l) \in {"none", "draft"} /\ StatusOf(l)' \in {"none", "draft"}

\* t commits that its lease is activated, terminated or renewed.
CommitsMove(t, l) ==
  /\ l = req[t].lease /\ req[t].op \in DOMAIN To /\ Locker(l) = t
  /\ Ends(t) /\ CommitTx(t) /\ pc[t] = "commit" /\ LeasesEnd(t)
  /\ StatusOf(l) = From[req[t].op] /\ StatusOf(l)' = To[req[t].op]
  /\ UnitOf(l)' = UnitOf(l) /\ UnitOf(l) = req[t].unit
  /\ NewRow(l).status = "active" => req[t].op = "activate"
  /\ NewRow(l).status = StatusOf(l)' /\ NewRow(l).unit = UnitOf(l)
  /\ \A m \in LeaseIds \ {l} : Unmoved(m)

\* What a step does to the statuses of the leases that are committed.
LEMMA CommittedMoves ==
  ASSUME Sound, [Next]_vars
  PROVE  \/ \A l \in LeaseIds : Unmoved(l)
         \/ \E t \in Tx : \E l \in LeaseIds : CommitsMove(t, l)
<1>1. /\ Typed /\ LeasesSound /\ StorageTypeOK
      /\ \A t \in Tx : RequestOK(t) /\ LeasesSoundFor(t)
      /\ \A l \in LeaseIds : Row(l) \in LeaseRow /\ NewRow(l) \in LeaseRow
  BY TypedLeases DEF Sound, LeasesSound
<1>2. ASSUME \A l \in LeaseIds : Row(l)' = Row(l)
      PROVE  \A l \in LeaseIds : Unmoved(l)
  BY <1>2 DEF Unmoved, StatusOf, UnitOf, Row
<1>3. ASSUME LeasesStay PROVE \A l \in LeaseIds : Unmoved(l)
  BY <1>2, <1>3 DEF LeasesStay
<1>4. ASSUME NEW t \in Tx, NEW l \in LeaseIds, \E row : LeaseWritten(t, l, row)
      PROVE  \A m \in LeaseIds : Unmoved(m)
  BY <1>2, <1>4 DEF LeaseWritten
<1>5. ASSUME NEW t \in Tx, InsertsLease(t) \/ EditsLease(t) \/ MovesLease(t)
      PROVE  \A m \in LeaseIds : Unmoved(m)
  <2>1. pc[t] # "idle" /\ (req[t].op # "create" => req[t].lease \in LeaseIds)
    BY <1>1, <1>5 DEF InsertsLease, EditsLease, MovesLease, RequestOK
  <2>2. \E l \in LeaseIds : \E row : WritesRow(t, "lease_contracts", l, row)
    BY <1>5, <2>1 DEF InsertsLease, EditsLease, MovesLease
  <2> QED BY <1>1, <1>4, <2>2, LeaseEffect
<1>6. ASSUME NEW t \in Tx, Ends(t)
      PROVE  \/ \A l \in LeaseIds : Unmoved(l)
             \/ \E l \in LeaseIds : CommitsMove(t, l)
  <2>1. LeasesEnd(t)
    BY <1>1, <1>6, LeaseEffect
  <2>2. CASE RollbackTx(t) /\ \A l \in LeaseIds : Row(l)' = Row(l)
    BY <1>2, <2>2
  <2>3. CASE /\ CommitTx(t) /\ pc[t] = "commit"
             /\ \A l \in LeaseIds :
                  Row(l)' = IF Locker(l) = t THEN NewRow(l) ELSE Row(l)
    <3>1. ASSUME NEW m \in LeaseIds, ~(Locker(m) = t /\ Moves(t, m)) PROVE Unmoved(m)
      <4>1. CASE Locker(m) # t
        BY <2>3, <4>1 DEF Unmoved, StatusOf, UnitOf, Row
      <4>2. CASE Edits(t, m) \/ Inserts(t, m)
        BY <1>1, <2>3, <4>2 DEF Edits, Inserts, Unmoved, StatusOf, Row, LeaseRow, NoLease
      <4> QED BY <1>1, <3>1, <4>1, <4>2, NoLeaseLocked
    <3>2. ASSUME NEW l \in LeaseIds, Locker(l) = t, Moves(t, l) PROVE CommitsMove(t, l)
      <4>1. /\ l = req[t].lease /\ req[t].op \in DOMAIN To
            /\ Row(l).status = From[req[t].op] /\ Row(l) \in LeaseRow
            /\ NewRow(l) = [Row(l) EXCEPT !.status = To[req[t].op]]
            /\ Row(l)' = NewRow(l)
        BY <1>1, <2>3, <3>2 DEF Moves
      <4>2. NewRow(l).status = To[req[t].op] /\ NewRow(l).unit = Row(l).unit
        BY <4>1 DEF LeaseRow
      <4>3. Row(l).unit = req[t].unit
        BY <1>1, <2>3, <4>1 DEF LeasesSoundFor, UnitIsRemembered, To
      <4>4. \A m \in LeaseIds \ {l} : Unmoved(m)
        BY <3>1, <4>1 DEF Moves
      <4>5. To[req[t].op] = "active" => req[t].op = "activate"
        BY <4>1 DEF To
      <4> QED BY <1>6, <2>1, <2>3, <3>2, <4>1, <4>2, <4>3, <4>4, <4>5
              DEF CommitsMove, StatusOf, UnitOf, Row
    <3> QED BY <3>1, <3>2
  <2> QED BY <2>1, <2>2, <2>3 DEF LeasesEnd
<1>7. UNCHANGED vars \/ SettlesOther => LeasesStay
  BY <1>1, LeaseEffect DEF vars, storage
<1>8. \A t \in Tx : Begun(t) => LeasesStay
  BY <1>1, LeaseEffect DEF Begun
<1>9. \A t \in Tx : ChangesParty(t) \/ ChangesUnit(t) \/ BillsNext(t) \/ BillsNoMore(t)
                     \/ AsksApproval(t) => LeasesStay
  BY <1>1, LeaseEffect
<1> QED BY <1>1, <1>3, <1>5, <1>6, <1>7, <1>8, <1>9, StepCases

\* A unit is held by the lease that is active.
LEMMA HolderOf ==
  ASSUME OneActive, NEW u
  PROVE  \A l \in ActiveFor(u) : ActiveFor(u) = {l}
BY DEF OneActive, ActiveFor, StatusOf, UnitOf, Row

\* However activations, renewals and terminations interleave, a unit has one
\* active lease at a time, and a lease that was renewed or terminated is never
\* active again: the guard of UpdateLeaseContractStatus and the unique index
\* decide, not what ActivateLeaseContract read before.
THEOREM OneLeasePerUnit == Spec => HoldsUnitOnce
<1> DEFINE Only(S) == IF S = {} THEN Nil ELSE CHOOSE l \in S : TRUE
           H == [u \in Units |-> Only(ActiveFor(u))]
<1>0. Only({}) = Nil /\ \A l : Only({l}) = l
  <2>1. \A l : Only({l}) = l
    OBVIOUS
  <2> QED BY <2>1
<1> HIDE DEF Only
<1>1. ASSUME Sound
      PROVE  \A u \in Units : /\ ActiveFor(u) = {} => H[u] = Nil
                              /\ \A l \in ActiveFor(u) : H[u] = l
  BY <1>0, <1>1, HolderOf DEF Sound
<1>2. ASSUME Sound'
      PROVE  \A u \in Units : /\ ActiveFor(u)' = {} => H'[u] = Nil
                              /\ \A l \in ActiveFor(u)' : H'[u] = l
  <2>1. ASSUME NEW u \in Units, NEW l \in ActiveFor(u)' PROVE ActiveFor(u)' = {l}
    BY <1>2, <2>1 DEF Sound, OneActive, ActiveFor, StatusOf, UnitOf, Row
  <2> QED BY <1>0, <2>1
<1>3. ASSUME \A l \in LeaseIds : Unmoved(l)
      PROVE  H' = H /\ Ended' = Ended
  <2>1. /\ \A u \in Units : ActiveFor(u)' = ActiveFor(u)
        /\ Ended' = Ended
    BY <1>3 DEF Unmoved, ActiveFor, Ended
  <2> QED BY <2>1
<1>4. ASSUME Sound, Sound', NEW t \in Tx, NEW l \in LeaseIds, CommitsMove(t, l)
      PROVE  \E u \in Units : Holding!Leave(u) \/ Holding!Take(u, l)
  <2>0. PICK unit : unit = req[t].unit
    OBVIOUS
  <2>1. /\ unit \in Units /\ l # Nil
        /\ UnitOf(l) = unit /\ UnitOf(l)' = unit
    <3>1. RequestOK(t) /\ pc[t] # "idle" /\ req[t].op \in {"activate", "terminate", "renew"}
      BY <1>4, TypedLeases DEF Sound, CommitsMove, To
    <3> QED BY <1>4, <2>0, <3>1, LeaseAssumption DEF RequestOK, CommitsMove
  <2>2. \A m \in LeaseIds \ {l} :
          /\ \A u \in Units : m \in ActiveFor(u)' <=> m \in ActiveFor(u)
          /\ m \in Ended' <=> m \in Ended
    BY <1>4 DEF CommitsMove, Unmoved, ActiveFor, Ended
  <2>3. \A u \in Units \ {unit} : ActiveFor(u)' = ActiveFor(u)
    BY <2>1, <2>2 DEF ActiveFor
  <2>4. CASE req[t].op = "activate"
    <3>1. /\ l \notin Ended /\ l \notin Ended' /\ l \in ActiveFor(unit)'
          /\ \A u \in Units : l \notin ActiveFor(u)
      BY <1>4, <2>1, <2>4 DEF CommitsMove, From, To, Ended, ActiveFor
    <3>2. ActiveFor(unit) = {}
      <4>1. NewRow(l).status = "active" /\ NewRow(l).unit = unit
        BY <1>4, <2>1, <2>4 DEF CommitsMove, To
      <4>2. \A m \in LeaseIds \ {l} : ~(Row(m).status = "active" /\ Row(m).unit = unit)
        BY <1>4, <4>1 DEF Sound, OneActive
      <4> QED BY <3>1, <2>1, <4>2 DEF ActiveFor, StatusOf, UnitOf, Row
    <3>3. H[unit] = Nil /\ H'[unit] = l
      BY <1>1, <1>2, <1>4, <2>1, <3>1, <3>2
    <3>4. H' = [H EXCEPT ![unit] = l]
      <4>1. \A u \in Units : H'[u] = IF u = unit THEN l ELSE H[u]
        BY <2>1, <2>3, <3>3
      <4> QED BY <2>1, <4>1
    <3>5. Ended' = Ended
      BY <2>2, <3>1 DEF Ended
    <3>6. \A u \in Units : H[u] # l
      BY <1>1, <1>4, <2>1, <3>1
    <3>7. Holding!Take(unit, l)
      <4>1. l \notin Ended \cup Holding!Holding
        BY <3>1, <3>6 DEF Holding!Holding
      <4> QED BY <3>3, <3>4, <3>5, <4>1 DEF Holding!Take, Only
    <3> QED BY <2>1, <3>7
  <2>5. CASE req[t].op \in {"terminate", "renew"}
    <3>1. /\ l \in ActiveFor(unit) /\ l \notin ActiveFor(unit)' /\ l \in Ended'
      BY <1>4, <2>1, <2>5 DEF CommitsMove, From, To, Ended, ActiveFor
    <3>2. ActiveFor(unit) = {l}
      BY <1>4, <3>1, HolderOf DEF Sound
    <3>3. ActiveFor(unit)' = {}
      BY <2>1, <2>2, <3>1, <3>2 DEF ActiveFor
    <3>4. H[unit] = l /\ H'[unit] = Nil
      BY <1>1, <1>2, <1>4, <2>1, <3>1, <3>3
    <3>5. H' = [H EXCEPT ![unit] = Nil]
      <4>1. \A u \in Units : H'[u] = IF u = unit THEN Nil ELSE H[u]
        BY <2>1, <2>3, <3>4
      <4> QED BY <2>1, <4>1
    <3>6. Ended' = Ended \cup {l}
      BY <2>2, <3>1 DEF Ended
    <3>7. Holding!Leave(unit)
      BY <2>1, <3>4, <3>5, <3>6 DEF Holding!Leave, Only
    <3> QED BY <2>1, <3>7
  <2> QED BY <1>4, <2>4, <2>5 DEF CommitsMove, To
<1>5. Init => Holding!Init
  <2> SUFFICES ASSUME Init PROVE Holding!Init
    OBVIOUS
  <2>1. \A l \in LeaseIds : StatusOf(l) = "none"
    BY InitFacts DEF StatusOf, Row, NoLease
  <2>2. Ended = {} /\ \A u \in Units : ActiveFor(u) = {}
    BY <2>1 DEF Ended, ActiveFor
  <2> QED BY <2>2 DEF Holding!Init
<1>6. Sound /\ Sound' /\ [Next]_vars => [Holding!Next]_<<H, Ended>>
  BY <1>3, <1>4, CommittedMoves DEF Holding!Next
<1> QED BY <1>5, <1>6, SpecSound, PTL DEF Spec, HoldsUnitOnce, Holding!Spec, Only

-----------------------------------------------------------------------------
(***************************************************************************)
(* What a step does to the other tables.                                   *)
(***************************************************************************)
StepKind(t) ==
  \/ Begun(t) \/ InsertsLease(t) \/ EditsLease(t) \/ MovesLease(t)
  \/ ChangesParty(t) \/ ChangesUnit(t) \/ BillsNext(t) \/ BillsNoMore(t)
  \/ AsksApproval(t) \/ Ends(t)

\* A statement writes one row of one table.
LEMMA StepWrites ==
  ASSUME Typed, NEW t \in Tx
  PROVE  /\ Begun(t) \/ BillsNoMore(t) => UNCHANGED storage
         /\ InsertsLease(t) \/ EditsLease(t) \/ MovesLease(t) =>
              \E l \in LeaseIds : \E row : WritesRow(t, "lease_contracts", l, row)
         /\ ChangesParty(t) =>
              UNCHANGED storage \/ \E l \in LeaseIds : \E row : WritesRow(t, "lease_parties", l, row)
         /\ ChangesUnit(t) =>
              \E u \in Units : \E row : WritesRow(t, "units", u, row)
         /\ BillsNext(t) =>
              UNCHANGED storage \/ \E b \in BillIds : \E row : WritesRow(t, "lease_bills", b, row)
         /\ AsksApproval(t) =>
              \E a \in ApprovalIds : \E row : WritesRow(t, "approval_requests", a, row)
<1>1. RequestOK(t)
  BY TypedLeases
<1>3. ASSUME InsertsLease(t) \/ EditsLease(t) \/ MovesLease(t)
      PROVE  \E l \in LeaseIds : \E row : WritesRow(t, "lease_contracts", l, row)
  BY <1>1, <1>3 DEF InsertsLease, EditsLease, MovesLease, RequestOK
<1>4. ASSUME ChangesParty(t)
      PROVE  UNCHANGED storage \/ \E l \in LeaseIds : \E row : WritesRow(t, "lease_parties", l, row)
  BY <1>1, <1>4 DEF ChangesParty, RequestOK
<1>5. ASSUME ChangesUnit(t)
      PROVE  \E u \in Units : \E row : WritesRow(t, "units", u, row)
  BY <1>1, <1>5 DEF ChangesUnit, RequestOK
<1>6. ASSUME BillsNext(t)
      PROVE  UNCHANGED storage \/ \E b \in BillIds : \E row : WritesRow(t, "lease_bills", b, row)
  BY <1>6 DEF BillsNext
<1>7. ASSUME AsksApproval(t)
      PROVE  \E a \in ApprovalIds : \E row : WritesRow(t, "approval_requests", a, row)
  BY <1>7 DEF AsksApproval
<1>8. Begun(t) \/ BillsNoMore(t) => UNCHANGED storage
  BY DEF Begun, BillsNoMore
<1> QED BY <1>3, <1>4, <1>5, <1>6, <1>7, <1>8

\* So it leaves the other tables alone.
LEMMA OnlyTouches ==
  ASSUME Typed, NEW tab \in TableName
  PROVE  /\ UNCHANGED storage => TableStays(tab)
         /\ SettlesOther /\ tab \notin {"units", "approval_requests", "lease_bills"} =>
              TableStays(tab)
         /\ \A t \in Tx :
              /\ Begun(t) \/ BillsNoMore(t) => TableStays(tab)
              /\ InsertsLease(t) \/ EditsLease(t) \/ MovesLease(t) =>
                   tab = "lease_contracts" \/ TableStays(tab)
              /\ ChangesParty(t) => tab = "lease_parties" \/ TableStays(tab)
              /\ ChangesUnit(t) => tab = "units" \/ TableStays(tab)
              /\ BillsNext(t) => tab = "lease_bills" \/ TableStays(tab)
              /\ AsksApproval(t) => tab = "approval_requests" \/ TableStays(tab)
              /\ Ends(t) => TableEnds(t, tab)
<1>1. /\ UNCHANGED storage => TableStays(tab)
      /\ \A t \in Tx, other \in TableName \ {tab} : \A id, row :
           WritesRow(t, other, id, row) => TableStays(tab)
      /\ \A t \in Tx : Ends(t) => TableEnds(t, tab)
  BY TableEffect DEF Typed
<1>2. {"lease_contracts", "lease_parties", "units", "lease_bills", "approval_requests"}
        = TableName
  BY DEF TableName
<1>3. SettlesOther /\ tab \notin {"units", "approval_requests", "lease_bills"} =>
        TableStays(tab)
  BY <1>2, SettlesTables DEF SettlesOther, TableStays
<1>4. ASSUME NEW t \in Tx
      PROVE  /\ InsertsLease(t) \/ EditsLease(t) \/ MovesLease(t) =>
                  tab = "lease_contracts" \/ TableStays(tab)
             /\ ChangesParty(t) => tab = "lease_parties" \/ TableStays(tab)
             /\ ChangesUnit(t) => tab = "units" \/ TableStays(tab)
             /\ BillsNext(t) => tab = "lease_bills" \/ TableStays(tab)
             /\ AsksApproval(t) => tab = "approval_requests" \/ TableStays(tab)
  BY <1>1, <1>2, <1>4, StepWrites
<1>5. \A t \in Tx : Begun(t) \/ BillsNoMore(t) => TableStays(tab)
  BY <1>1, StepWrites
<1> QED BY <1>1, <1>3, <1>4, <1>5

\* What t does leaves the other transactions' locks, and the rows they have
\* locked, and what those transactions do next.
LEMMA RowsOfOthers ==
  ASSUME Typed, NEW t \in Tx, StepKind(t), NEW x \in Tx \ {t}
  PROVE  /\ pc'[x] = pc[x] /\ req'[x] = req[x]
         /\ \A tab \in TableName : \A id \in DOMAIN db[tab] :
              /\ owner'[tab][id] = x <=> owner[tab][id] = x
              /\ owner[tab][id] = x =>
                   dirty'[tab][id] = dirty[tab][id] /\ db'[tab][id] = db[tab][id]
<1>1. StorageTypeOK /\ Tabular /\ DOMAIN db = TableName /\ Nil \notin Tx
  BY StorageTabular, NilAssumption DEF Typed
<1>2. OthersStay(t)
  BY DEF StepKind, Begun, InsertsLease, EditsLease, MovesLease, ChangesParty, ChangesUnit,
     BillsNext, BillsNoMore, AsksApproval, Ends, Goes
<1>3. pc'[x] = pc[x] /\ req'[x] = req[x]
  BY <1>2 DEF OthersStay
<1>4. ASSUME NEW tab \in TableName, NEW id \in DOMAIN db[tab],
             UNCHANGED storage
             \/ \E other \in TableName : \E i, row : WritesRow(t, other, i, row)
      PROVE  /\ owner'[tab][id] = x <=> owner[tab][id] = x
             /\ owner[tab][id] = x =>
                  dirty'[tab][id] = dirty[tab][id] /\ db'[tab][id] = db[tab][id]
  <2>1. CASE UNCHANGED storage
    BY <2>1 DEF storage
  <2>2. ASSUME NEW other \in TableName, NEW i, NEW row, WritesRow(t, other, i, row)
        PROVE  /\ owner'[tab][id] = x <=> owner[tab][id] = x
               /\ owner[tab][id] = x =>
                    dirty'[tab][id] = dirty[tab][id] /\ db'[tab][id] = db[tab][id]
    <3>1. CASE tab # other
      BY <2>2, <3>1 DEF WritesRow
    <3>2. CASE tab = other
      BY <1>1, <2>2, <3>2 DEF WritesRow, Tabular
    <3> QED BY <3>1, <3>2
  <2> QED BY <1>4, <2>1, <2>2
<1>5. ASSUME NEW tab \in TableName, NEW id \in DOMAIN db[tab], Ends(t)
      PROVE  /\ owner'[tab][id] = x <=> owner[tab][id] = x
             /\ owner[tab][id] = x =>
                  dirty'[tab][id] = dirty[tab][id] /\ db'[tab][id] = db[tab][id]
  <2>1. TableEnds(t, tab) /\ (CommitTx(t) \/ RollbackTx(t))
    BY <1>5, OnlyTouches DEF Ends
  <2> QED BY <1>1, <2>1 DEF TableEnds
<1>6. {"lease_contracts", "lease_parties", "units", "lease_bills", "approval_requests"}
        \subseteq TableName
  BY DEF TableName
<1>7. \/ Ends(t) \/ UNCHANGED storage
      \/ \E other \in TableName : \E i, row : WritesRow(t, other, i, row)
  BY <1>6, StepWrites DEF StepKind
<1> QED BY <1>3, <1>4, <1>5, <1>7

-----------------------------------------------------------------------------
(***************************************************************************)
(* Terminations are approved.                                              *)
(***************************************************************************)
\* The request that is read as approved is one for this termination.
LEMMA LatestIsApproved ==
  ASSUME StorageTypeOK, NEW t \in Tx, NEW l \in LeaseIds,
         LatestTermination(t, l) = "approved",
         \A a \in ApprovalIds : owner.approval_requests[a] # t
  PROVE  Approved(l)
<1> DEFINE found == {a \in ApprovalIds :
                       /\ Sees(t, "approval_requests", a).lease = l
                       /\ Sees(t, "approval_requests", a).type = "lease_termination"}
           latest == CHOOSE a \in found : \A b \in found : b <= a
<1>1. found # {} /\ Sees(t, "approval_requests", latest).status = "approved"
  BY DEF LatestTermination
<1>2. IsFiniteSet(found) /\ found \in SUBSET Nat
  BY LeaseAssumption, FS_Subset
<1>3. \E a \in found : \A b \in found : b <= a
  <2> HIDE DEF found
  <2> QED BY <1>1, <1>2, LatestExists
<1>4. latest \in found
  BY <1>3
<1> HIDE DEF latest
<1>5. /\ latest \in ApprovalIds
      /\ db.approval_requests[latest] = Sees(t, "approval_requests", latest)
      /\ db.approval_requests[latest].lease = l
      /\ db.approval_requests[latest].type = "lease_termination"
      /\ db.approval_requests[latest] \in ApprovalRow
  BY <1>4 DEF Sees, StorageTypeOK, Tables
<1> QED BY <1>1, <1>5 DEF Approved, ApprovalRow

\* An approved request stays.
ApprovedStay ==
  \A a \in ApprovalIds :
    db.approval_requests[a].status = "approved" =>
      db'.approval_requests[a] = db.approval_requests[a]

LEMMA ApprovalsOfOthers ==
  ASSUME ApprovalsSound, NEW x \in Tx, pc'[x] = pc[x], req'[x] = req[x], ApprovedStay,
         \A a \in ApprovalIds : owner'.approval_requests[a] = x =>
           /\ owner.approval_requests[a] = x
           /\ db'.approval_requests[a] = db.approval_requests[a],
         \A l \in LeaseIds : Locker(l)' = x => Locker(l) = x,
         Typed
  PROVE  (ApprovalLocks(x) /\ TerminationApproved(x))'
<1>1. \A l : Approved(l) => Approved(l)'
  BY DEF Approved, ApprovedStay
<1>2. RequestOK(x) /\ (pc[x] # "idle" /\ req[x].op = "terminate" => req[x].lease \in LeaseIds)
  BY TypedLeases DEF RequestOK
<1> QED BY <1>1, <1>2 DEF ApprovalsSound, ApprovalLocks, TerminationApproved

LEMMA ApprovalsNext ==
  ASSUME Sound, Sound', ApprovalsSound, [Next]_vars
  PROVE  ApprovalsSound'
<1> DEFINE tab == "approval_requests"
<1>1. /\ Typed /\ LeasesSound /\ StorageTypeOK /\ tab \in TableName
      /\ \A t \in Tx : RequestOK(t)
      /\ DOMAIN db[tab] = ApprovalIds /\ DOMAIN db["lease_contracts"] = LeaseIds
      /\ "lease_contracts" \in TableName
  BY TypedLeases, StorageTabular DEF Sound, TableName
<1>2. CASE UNCHANGED vars \/ SettlesOther
  <2>1. UNCHANGED <<pc, req, owner>> /\ ApprovedStay
    <3>1. CASE UNCHANGED vars
      BY <3>1 DEF vars, ApprovedStay
    <3>2. CASE SettlesOther
      <4>1. ASSUME ApprovalDecided \/ ApprovalEntered PROVE ApprovedStay
        <5>1. PICK a \in ApprovalIds :
                \E row : /\ db.approval_requests[a].status # "approved"
                         /\ RowSettled(tab, a, row)
          <6>1. NoApproval.status # "approved"
            BY DEF NoApproval
          <6> QED BY <4>1, <6>1 DEF ApprovalDecided, ApprovalEntered
        <5>2. \A b \in ApprovalIds \ {a} :
                db'.approval_requests[b] = db.approval_requests[b]
          BY <1>1, <5>1 DEF RowSettled, StorageTypeOK, Tables
        <5> QED BY <5>1, <5>2 DEF ApprovedStay
      <4>2. ASSUME BillSettled \/ UnitEntered PROVE ApprovedStay
        <5>1. db'[tab] = db[tab]
          BY <1>1, <4>2 DEF BillSettled, UnitEntered, RowSettled
        <5> QED BY <5>1 DEF ApprovedStay
      <4> QED BY <3>2, <4>1, <4>2 DEF SettlesOther
    <3> QED BY <1>2, <3>1, <3>2
  <2>2. ASSUME NEW a \in ApprovalIds, NEW x \in Tx, owner.approval_requests[a] = x
        PROVE  db'.approval_requests[a] = db.approval_requests[a]
    <3>1. CASE UNCHANGED vars
      BY <3>1 DEF vars
    <3>2. CASE SettlesOther
      <4>1. CASE ApprovalDecided \/ ApprovalEntered
        BY <1>1, <2>2, <4>1, NilAssumption
           DEF ApprovalDecided, ApprovalEntered, RowSettled, StorageTypeOK, Tables
      <4>2. CASE BillSettled \/ UnitEntered
        BY <1>1, <4>2 DEF BillSettled, UnitEntered, RowSettled
      <4> QED BY <3>2, <4>1, <4>2 DEF SettlesOther
    <3> QED BY <1>2, <3>1, <3>2
  <2> QED BY <1>1, <2>1, <2>2, ApprovalsOfOthers DEF ApprovalsSound, Locker
<1>3. ASSUME NEW t \in Tx, StepKind(t), ApprovedStay,
             (ApprovalLocks(t) /\ TerminationApproved(t))'
      PROVE  ApprovalsSound'
  <2>1. ASSUME NEW x \in Tx \ {t} PROVE (ApprovalLocks(x) /\ TerminationApproved(x))'
    <3>1. /\ pc'[x] = pc[x] /\ req'[x] = req[x]
          /\ \A a \in ApprovalIds :
               /\ owner'.approval_requests[a] = x => owner.approval_requests[a] = x
               /\ owner.approval_requests[a] = x =>
                    db'.approval_requests[a] = db.approval_requests[a]
          /\ \A l \in LeaseIds : Locker(l)' = x => Locker(l) = x
      BY <1>1, <1>3, RowsOfOthers DEF Locker
    <3> QED BY <1>1, <1>3, <3>1, ApprovalsOfOthers
  <2> QED BY <1>3, <2>1 DEF ApprovalsSound
<1>4. ASSUME TableStays(tab)
      PROVE  /\ ApprovedStay
             /\ \A l : Approved(l) => Approved(l)'
             /\ \A t \in Tx : (\A a \in ApprovalIds : owner.approval_requests[a] # t) =>
                  ApprovalLocks(t)'
  BY <1>4 DEF TableStays, ApprovedStay, Approved, ApprovalLocks
<1>5. ASSUME NEW t \in Tx, pc[t] # "commit"
      PROVE  \A a \in ApprovalIds : owner.approval_requests[a] # t
  BY <1>5 DEF ApprovalsSound, ApprovalLocks
<1>6. ASSUME NEW t \in Tx, Begun(t) PROVE ApprovalsSound'
  <2>1. TableStays(tab) /\ pc[t] = "idle"
    BY <1>1, <1>6, OnlyTouches DEF Begun
  <2>2. TerminationApproved(t)'
    <3>1. pc'[t] = "terminate_status" => Approved(req'[t].lease)
      <4>1. pc'[t] = "terminate_status" =>
              req'[t].lease \in LeaseIds /\ LatestTermination(t, req'[t].lease) = "approved"
        BY <1>6 DEF Begun
      <4> QED BY <1>1, <1>5, <2>1, <4>1, LatestIsApproved
    <3>2. pc'[t] \notin {"close_parties", "vacate", "commit"}
      BY <1>6 DEF Begun
    <3> QED BY <1>4, <2>1, <3>1, <3>2 DEF TerminationApproved
  <2> QED BY <1>3, <1>4, <1>5, <1>6, <2>1, <2>2 DEF StepKind
<1>7. ASSUME NEW t \in Tx,
             \/ InsertsLease(t) \/ EditsLease(t) \/ MovesLease(t) \/ ChangesParty(t)
             \/ ChangesUnit(t) \/ BillsNext(t) \/ BillsNoMore(t)
      PROVE  ApprovalsSound'
  <2>1. TableStays(tab) /\ StepKind(t)
    BY <1>1, <1>7, OnlyTouches DEF StepKind
  <2>2. /\ req'[t].op = req[t].op /\ req'[t].lease = req[t].lease
        /\ pc[t] \notin {"commit", "idle"}
    <3>1. /\ pc[t] \notin {"commit", "idle"}
          /\ req'[t] = req[t] \/ req'[t] = [req[t] EXCEPT !.next = req[t].next + 1]
      BY <1>7 DEF InsertsLease, EditsLease, MovesLease, ChangesParty, ChangesUnit, BillsNext,
         BillsNoMore, Goes
    <3>2. req[t] \in Request
      BY <1>1, <3>1 DEF RequestOK
    <3> QED BY <3>1, <3>2 DEF Request
  <2>3. TerminationApproved(t)'
    <3>1. TerminationApproved(t)
      BY DEF ApprovalsSound
    <3>2. /\ pc'[t] = "close_parties" => pc[t] = "terminate_status"
          /\ pc'[t] = "vacate" => pc[t] = "close_parties"
          /\ pc'[t] = "commit" /\ req[t].op = "terminate" => pc[t] = "vacate"
          /\ pc'[t] # "terminate_status"
      BY <1>7 DEF InsertsLease, EditsLease, MovesLease, ChangesParty, ChangesUnit,
         BillsNext, BillsNoMore, Goes
    <3> QED BY <1>4, <2>1, <2>2, <3>1, <3>2 DEF TerminationApproved
  <2> QED BY <1>3, <1>4, <1>5, <2>1, <2>2, <2>3
<1>8. ASSUME NEW t \in Tx, AsksApproval(t) PROVE ApprovalsSound'
  <2>1. PICK a \in ApprovalIds : \E row :
          WritesRow(t, tab, a, row) /\ dirty.approval_requests[a] = NoApproval
    BY <1>8 DEF AsksApproval
  <2>2. /\ pc[t] = "insert_approval" /\ pc'[t] = "commit" /\ req'[t] = req[t]
        /\ StepKind(t)
    BY <1>8 DEF AsksApproval, Goes, StepKind
  <2>3. \A b \in ApprovalIds : owner.approval_requests[b] # t
    BY <1>5, <2>2
  <2>4. db.approval_requests[a] = NoApproval
    <3>1. owner.approval_requests[a] = Nil
      BY <2>1, <2>3 DEF WritesRow
    <3>2. DirtyIsCommitted /\ tab \in DOMAIN owner /\ a \in DOMAIN owner[tab]
      BY <1>1 DEF Typed, StorageTypeOK, LocksOK
    <3> QED BY <2>1, <3>1, <3>2 DEF DirtyIsCommitted
  <2>5. ApprovalLocks(t)'
    <3>1. /\ \A b \in ApprovalIds \ {a} : owner'.approval_requests[b] # t
          /\ db' = db
      BY <1>1, <2>1, <2>3 DEF WritesRow, StorageTypeOK, LocksOK
    <3> QED BY <2>2, <2>4, <3>1 DEF ApprovalLocks
  <2>6. TerminationApproved(t)'
    <3>1. req[t].lease \in LeaseIds /\ Locker(req[t].lease) # t
      BY <1>1, <1>8, <2>2, NoLeaseLocked DEF RequestOK, AsksApproval
    <3>2. Locker(req[t].lease)' # t
      <4>1. TableStays("lease_contracts")
        BY <1>1, <1>8, OnlyTouches
      <4> QED BY <2>2, <3>1, <4>1 DEF TableStays, Locker
    <3> QED BY <2>2, <3>2 DEF TerminationApproved
  <2>7. ApprovedStay
    BY <2>1 DEF WritesRow, ApprovedStay
  <2> QED BY <1>3, <2>2, <2>5, <2>6, <2>7
<1>9. ASSUME NEW t \in Tx, Ends(t) PROVE ApprovalsSound'
  <2>1. TableEnds(t, tab) /\ pc'[t] = "idle" /\ (CommitTx(t) \/ RollbackTx(t))
    BY <1>1, <1>9, OnlyTouches DEF Ends
  <2>2. ApprovedStay
    BY <1>1, <2>1 DEF TableEnds, ApprovedStay, ApprovalsSound, ApprovalLocks, NoApproval
  <2>3. ApprovalLocks(t)' /\ TerminationApproved(t)'
    BY <1>1, <2>1, NilAssumption DEF TableEnds, ApprovalLocks, TerminationApproved
  <2> QED BY <1>3, <1>9, <2>2, <2>3 DEF StepKind
<1> QED BY <1>1, <1>2, <1>6, <1>7, <1>8, <1>9, StepCases

\* A lease is terminated only after a request for just that was approved,
\* whoever asks for approvals, decides them or terminates at the same time:
\* what TerminateLeaseContract read as approved cannot be undone before it
\* commits.
THEOREM TerminationNeedsApproval == Spec => TerminatedByApproval
<1>1. Init => ApprovalsSound
  <2>1. Init => /\ \A t \in Tx : pc[t] = "idle"
                /\ \A a \in ApprovalIds : owner.approval_requests[a] = Nil
    BY InitFacts
  <2> QED BY <2>1, NilAssumption DEF ApprovalsSound, ApprovalLocks, TerminationApproved
<1>2. Sound /\ Sound' /\ ApprovalsSound /\ [Next]_vars => ApprovalsSound'
  BY ApprovalsNext
<1>3. ASSUME Sound, ApprovalsSound, [Next]_vars, NEW l \in LeaseIds,
             StatusOf(l) = "active", StatusOf(l)' = "terminated"
      PROVE  Approved(l)
  <2>1. ~Unmoved(l)
    BY <1>3 DEF Unmoved
  <2>2. PICK t \in Tx : CommitsMove(t, l)
    BY <1>3, <2>1, CommittedMoves DEF CommitsMove
  <2>3. req[t].op = "terminate" /\ pc[t] = "commit" /\ l = req[t].lease /\ Locker(l) = t
    BY <1>3, <2>2 DEF CommitsMove, To
  <2> QED BY <1>3, <2>3 DEF ApprovalsSound, TerminationApproved
<1>4. Sound /\ ApprovalsSound /\ [Next]_vars =>
        [\A l \in LeaseIds : StatusOf(l) = "active" /\ StatusOf(l)' = "terminated" =>
           Approved(l)]_vars
  BY <1>3
<1> QED BY <1>1, <1>2, <1>4, SpecSound, PTL DEF Spec, TerminatedByApproval, Approved

-----------------------------------------------------------------------------
(***************************************************************************)
(* Units are occupied and tenants are parties while a lease is active.     *)
(***************************************************************************)
\* Nothing is committed but by a commit.
LEMMA CommittedStay ==
  ASSUME Typed, NEW t \in Tx, StepKind(t),
         ~(Ends(t) /\ CommitTx(t) /\ pc[t] = "commit")
  PROVE  db' = db /\ byHand' = byHand
<1>1. CASE Ends(t)
  BY <1>1 DEF Ends, RollbackTx
<1>2. CASE ~Ends(t)
  <2>1. db' = db
    BY <1>2, StepWrites DEF StepKind, WritesRow, storage
  <2>2. byHand' = byHand
    BY <1>2 DEF StepKind, Begun, InsertsLease, EditsLease, MovesLease, ChangesParty,
       ChangesUnit, BillsNext, BillsNoMore, AsksApproval, Goes
  <2> QED BY <2>1, <2>2
<1> QED BY <1>1, <1>2

\* What is said of a transaction's units and tenants stays as long as it
\* does nothing.
LEMMA PremisesOfOthers ==
  ASSUME Typed, NEW t \in Tx, StepKind(t), NEW x \in Tx \ {t}, UnitLocks(x), PartyLocks(x)
  PROVE  (UnitLocks(x) /\ PartyLocks(x))'
<1>1. /\ pc'[x] = pc[x] /\ req'[x] = req[x]
      /\ \A l \in LeaseIds :
           /\ Locker(l)' = x <=> Locker(l) = x
           /\ owner'.lease_parties[l] = x <=> owner.lease_parties[l] = x
           /\ owner.lease_parties[l] = x => dirty'.lease_parties[l] = dirty.lease_parties[l]
      /\ \A u \in Units :
           /\ owner'.units[u] = x <=> owner.units[u] = x
           /\ owner.units[u] = x => dirty'.units[u] = dirty.units[u]
  <2>1. /\ {"units", "lease_contracts", "lease_parties"} \subseteq TableName
        /\ DOMAIN db["units"] = Units /\ DOMAIN db["lease_contracts"] = LeaseIds
        /\ DOMAIN db["lease_parties"] = LeaseIds
    BY StorageTabular DEF Typed, TableName
  <2> QED BY <2>1, RowsOfOthers DEF Locker
<1>2. /\ pc[x] \in {"occupy", "vacate"} \/ WillMove(x) =>
           req[x].lease \in LeaseIds /\ req[x].unit \in Units
      /\ pc[x] = "commit" /\ req[x].op \in {"activate", "terminate"} =>
           req[x].lease \in LeaseIds
  BY TypedLeases DEF RequestOK, WillMove, StatementsOf, Op
<1>3. WillMove(x)' <=> WillMove(x)
  BY <1>1, <1>2 DEF WillMove
<1> QED BY <1>1, <1>2, <1>3 DEF UnitLocks, PartyLocks

LEMMA PremiseLocksNext ==
  ASSUME Sound, PremisesSound, NEW t \in Tx, StepKind(t)
  PROVE  (UnitLocks(t) /\ PartyLocks(t))'
<1>1. /\ Typed /\ LeasesSound /\ StorageTypeOK
      /\ RequestOK(t) /\ UnitLocks(t) /\ PartyLocks(t) /\ LeasesSoundFor(t)
      /\ {"units", "lease_contracts", "lease_parties"} \subseteq TableName
      /\ DOMAIN db["units"] = Units /\ DOMAIN db["lease_contracts"] = LeaseIds
      /\ DOMAIN db["lease_parties"] = LeaseIds
      /\ Nil \notin Tx
  BY TypedLeases, StorageTabular, NilAssumption DEF Sound, PremisesSound, LeasesSound,
     TableName
<1>2. ASSUME pc[t] \notin {"occupy", "vacate", "commit"}
      PROVE  /\ \A u \in Units : owner.units[u] # t
             /\ \A l \in LeaseIds : owner.lease_parties[l] # t
  BY <1>1, <1>2 DEF UnitLocks, PartyLocks, WillMove
<1>3. ASSUME pc[t] \notin {"occupy", "vacate", "commit"},
             TableStays("units"), TableStays("lease_parties"),
             pc'[t] \notin {"occupy", "vacate"}, ~WillMove(t)'
      PROVE  (UnitLocks(t) /\ PartyLocks(t))'
  BY <1>2, <1>3 DEF TableStays, UnitLocks, PartyLocks
<1>4. CASE \/ Begun(t) \/ InsertsLease(t) \/ EditsLease(t) \/ MovesLease(t)
           \/ BillsNext(t) \/ BillsNoMore(t)
  <2>1. TableStays("units") /\ TableStays("lease_parties")
    BY <1>1, <1>4, OnlyTouches
  <2>2. /\ pc[t] \notin {"occupy", "vacate", "commit"}
        /\ pc'[t] \notin {"occupy", "vacate"}
        /\ pc'[t] = "commit" => req'[t] = req[t] /\ req[t].op \notin {"activate", "terminate"}
    BY <1>4 DEF Begun, InsertsLease, EditsLease, MovesLease, BillsNext, BillsNoMore, Goes
  <2> QED BY <1>3, <2>1, <2>2 DEF WillMove
<1>5. CASE AsksApproval(t)
  <2>1. /\ TableStays("units") /\ TableStays("lease_parties")
        /\ TableStays("lease_contracts")
    BY <1>1, <1>5, OnlyTouches
  <2>2. pc[t] = "insert_approval" /\ req'[t] = req[t] /\ pc'[t] = "commit"
        /\ req[t].lease \in LeaseIds
    BY <1>1, <1>5 DEF AsksApproval, Goes, RequestOK
  <2>3. Locker(req[t].lease) # t
    BY <1>1, <2>2, NoLeaseLocked
  <2>4. ~WillMove(t)'
    BY <2>1, <2>2, <2>3 DEF WillMove, TableStays, Locker
  <2> QED BY <1>3, <2>1, <2>2, <2>4
<1>6. CASE ChangesParty(t)
  <2> DEFINE l == req[t].lease
             status == IF req[t].op = "activate" THEN "active" ELSE "closed"
  <2>1. /\ TableStays("units") /\ req'[t] = req[t] /\ l \in LeaseIds
        /\ pc[t] \in {"insert_party", "close_parties"} /\ pc'[t] \in {"occupy", "vacate"}
    BY <1>1, <1>6, OnlyTouches DEF ChangesParty, Goes, RequestOK
  <2>2. /\ \A u \in Units : owner.units[u] # t
        /\ \A m \in LeaseIds : owner.lease_parties[m] # t
    BY <1>2, <2>1
  <2>3. WritesRow(t, "lease_parties", l, status)
    <3>1. CASE WritesRow(t, "lease_parties", l, status)
      BY <3>1
    <3>2. CASE pc[t] = "close_parties" /\ Sees(t, "lease_parties", l) # "active"
      <4>1. Locker(l) = t /\ Moves(t, l)
        BY <1>1, <2>1, <3>2, NoLeaseLocked DEF LeasesSoundFor, MoverLocks, HasMoved
      <4>2. req[t].op = "terminate" /\ StatusOf(l) = "active"
        BY <1>1, <1>6, <3>2, <4>1 DEF ChangesParty, Moves, From, StatusOf, Row
      <4>3. db.lease_parties[l] = "active"
        BY <2>1, <4>2 DEF PremisesSound, TenantWhileLet
      <4> QED BY <2>1, <2>2, <3>2, <4>3 DEF Sees
    <3> QED BY <1>6, <3>1, <3>2 DEF ChangesParty
  <2>4. /\ owner'.lease_parties[l] = t /\ dirty'.lease_parties[l] = status
        /\ \A m \in LeaseIds \ {l} : owner'.lease_parties[m] # t
    BY <1>1, <2>1, <2>2, <2>3 DEF WritesRow, StorageTypeOK, LocksOK, Tables
  <2>5. UnitLocks(t)'
    BY <2>1, <2>2 DEF UnitLocks, WillMove, TableStays
  <2>6. PartyLocks(t)'
    BY <2>1, <2>4 DEF PartyLocks, WillMove
  <2> QED BY <2>5, <2>6
<1>7. CASE ChangesUnit(t)
  <2> DEFINE u == req[t].unit
             status == IF req[t].op = "activate" THEN "occupied" ELSE "vacant"
  <2>1. /\ TableStays("lease_parties") /\ TableStays("lease_contracts")
        /\ req'[t] = req[t] /\ u \in Units /\ req[t].lease \in LeaseIds
        /\ pc[t] \in {"occupy", "vacate"} /\ pc'[t] = "commit"
        /\ req[t].op \in {"activate", "terminate"}
        /\ WritesRow(t, "units", u, status)
    BY <1>1, <1>7, OnlyTouches DEF ChangesUnit, Goes, RequestOK
  <2>2. Locker(req[t].lease) = t /\ Locker(req[t].lease)' = t
    BY <1>1, <2>1 DEF LeasesSoundFor, MoverLocks, HasMoved, TableStays, Locker
  <2>3. \A v \in Units : owner.units[v] # t
    BY <1>1, <2>1 DEF UnitLocks, WillMove
  <2>4. /\ owner'.units[u] = t /\ dirty'.units[u] = status
        /\ \A v \in Units \ {u} : owner'.units[v] # t
    BY <1>1, <2>1, <2>3 DEF WritesRow, StorageTypeOK, LocksOK, Tables
  <2>5. WillMove(t)'
    BY <2>1, <2>2 DEF WillMove
  <2>6. UnitLocks(t)'
    BY <2>1, <2>4, <2>5 DEF UnitLocks
  <2>7. PartyLocks(t)'
    BY <1>1, <2>1, <2>5 DEF PartyLocks, TableStays
  <2> QED BY <2>6, <2>7
<1>8. CASE Ends(t)
  <2>1. pc'[t] = "idle" /\ TableEnds(t, "units") /\ TableEnds(t, "lease_parties")
    BY <1>1, <1>8, OnlyTouches DEF Ends
  <2> QED BY <1>1, <2>1 DEF TableEnds, UnitLocks, PartyLocks, WillMove
<1> QED BY <1>4, <1>5, <1>6, <1>7, <1>8 DEF StepKind

LEMMA PremisesNext ==
  ASSUME Sound, PremisesSound, [Next]_vars
  PROVE  PremisesSound'
<1>1. /\ Typed /\ LeasesSound /\ StorageTypeOK
      /\ {"units", "lease_contracts", "lease_parties"} \subseteq TableName
      /\ DOMAIN db["units"] = Units /\ DOMAIN db["lease_contracts"] = LeaseIds
      /\ DOMAIN db["lease_parties"] = LeaseIds
      /\ Nil \notin Tx
      /\ \A l \in LeaseIds : Row(l) \in LeaseRow /\ NewRow(l) \in LeaseRow
  BY TypedLeases, StorageTabular, NilAssumption DEF Sound, TableName
<1>2. ASSUME TableStays("units"), TableStays("lease_contracts"),
             TableStays("lease_parties"), UNCHANGED <<pc, req, byHand>>
      PROVE  PremisesSound'
  <2>1. \A x \in Tx : (UnitLocks(x) /\ PartyLocks(x))'
    BY <1>2 DEF PremisesSound, TableStays, UnitLocks, PartyLocks, WillMove, Locker
  <2>2. OccupiedWhileLet' /\ TenantWhileLet'
    BY <1>2 DEF PremisesSound, TableStays, OccupiedWhileLet, TenantWhileLet, StatusOf, UnitOf
  <2> QED BY <2>1, <2>2 DEF PremisesSound
<1>3. CASE UNCHANGED vars \/ SettlesOther
  <2>1. TableStays("lease_contracts") /\ TableStays("lease_parties")
    BY <1>1, <1>3, OnlyTouches DEF vars, storage
  <2>2. CASE UNCHANGED vars
    BY <1>2, <2>1, <2>2 DEF vars, TableStays
  <2>3. CASE SettlesOther /\ ~UnitEntered
    <3>1. TableStays("units") /\ UNCHANGED <<pc, req, byHand>>
      BY <1>1, <2>3 DEF SettlesOther, ApprovalDecided, ApprovalEntered, BillSettled,
         RowSettled, TableStays
    <3> QED BY <1>2, <2>1, <3>1
  <2>4. CASE SettlesOther /\ UnitEntered
    <3>1. PICK u \in Units, status \in Occupancy :
            RowSettled("units", u, status) /\ byHand' = byHand \cup {u}
      BY <2>4 DEF UnitEntered
    <3>2. /\ UNCHANGED <<pc, req, owner>> /\ owner.units[u] = Nil
          /\ \A v \in Units \ {u} :
               db'.units[v] = db.units[v] /\ dirty'.units[v] = dirty.units[v]
      BY <1>1, <2>4, <3>1 DEF SettlesOther, RowSettled, StorageTypeOK, Tables
    <3>3. \A l \in LeaseIds :
            /\ StatusOf(l)' = StatusOf(l) /\ UnitOf(l)' = UnitOf(l)
            /\ Locker(l)' = Locker(l)
      BY <2>1 DEF TableStays, StatusOf, UnitOf, Locker
    <3>4. ASSUME NEW x \in Tx PROVE (UnitLocks(x) /\ PartyLocks(x))'
      <4>1. UnitLocks(x) /\ PartyLocks(x) /\ RequestOK(x)
        BY <1>1, TypedLeases DEF PremisesSound
      <4>2. WillMove(x) => req[x].unit \in Units /\ req[x].unit # u
        BY <1>1, <3>2, <4>1 DEF UnitLocks, WillMove, RequestOK
      <4>3. WillMove(x)' <=> WillMove(x)
        BY <3>2 DEF WillMove, Locker
      <4>4. UnitLocks(x)'
        BY <3>2, <4>1, <4>2, <4>3 DEF UnitLocks
      <4>5. PartyLocks(x)'
        BY <2>1, <3>2, <4>1, <4>3 DEF PartyLocks, TableStays
      <4> QED BY <4>4, <4>5
    <3>5. OccupiedWhileLet'
      BY <3>1, <3>2, <3>3 DEF PremisesSound, OccupiedWhileLet
    <3>6. TenantWhileLet'
      BY <2>1, <3>3 DEF PremisesSound, TenantWhileLet, TableStays
    <3> QED BY <3>4, <3>5, <3>6 DEF PremisesSound
  <2> QED BY <1>3, <2>2, <2>3, <2>4
<1>4. ASSUME NEW t \in Tx, StepKind(t)
      PROVE  \A x \in Tx : (UnitLocks(x) /\ PartyLocks(x))'
  BY <1>1, <1>4, PremisesOfOthers, PremiseLocksNext DEF PremisesSound
<1>5. ASSUME db' = db, byHand' = byHand PROVE OccupiedWhileLet' /\ TenantWhileLet'
  BY <1>5 DEF PremisesSound, OccupiedWhileLet, TenantWhileLet, StatusOf, UnitOf
<1>6. ASSUME NEW t \in Tx, Ends(t), CommitTx(t), pc[t] = "commit",
             byHand' = {u \in byHand : owner.units[u] # t}
      PROVE  OccupiedWhileLet' /\ TenantWhileLet'
  <2>1. /\ LeasesEnd(t) /\ TableEnds(t, "units") /\ TableEnds(t, "lease_parties")
        /\ \A l \in LeaseIds : Row(l)' = IF Locker(l) = t THEN NewRow(l) ELSE Row(l)
    <3>1. TableEnds(t, "lease_contracts")
      BY <1>1, <1>6, OnlyTouches
    <3> QED BY <1>1, <1>6, <3>1, LeaseEffect, OnlyTouches DEF TableEnds, Row, NewRow, Locker
  <2>2. /\ RequestOK(t) /\ LeasesSoundFor(t) /\ UnitLocks(t) /\ PartyLocks(t)
        /\ OccupiedWhileLet /\ TenantWhileLet /\ OneActive
    BY <1>1, TypedLeases DEF Sound, LeasesSound, PremisesSound
  <2>3. CASE WillMove(t)
    <3>0. PICK l, u : l = req[t].lease /\ u = req[t].unit
      OBVIOUS
    <3>1. /\ l \in LeaseIds /\ u \in Units /\ Locker(l) = t /\ pc[t] = "commit"
          /\ req[t].op \in {"activate", "terminate"}
      BY <2>2, <2>3, <3>0 DEF WillMove, RequestOK
    <3>2. Moves(t, l) /\ \A m \in LeaseIds \ {l} : Locker(m) # t
      BY <1>1, <3>0, <3>1, NoLeaseLocked DEF Moves, Edits, Inserts
    <3>3. /\ StatusOf(l) = From[req[t].op] /\ StatusOf(l)' = To[req[t].op]
          /\ UnitOf(l) = u /\ UnitOf(l)' = u
          /\ \A m \in LeaseIds \ {l} : StatusOf(m)' = StatusOf(m) /\ UnitOf(m)' = UnitOf(m)
      BY <1>1, <2>1, <2>2, <3>0, <3>1, <3>2
         DEF Moves, LeasesSoundFor, UnitIsRemembered, StatusOf, UnitOf, Row, LeaseRow, To, From
    <3>4. /\ db'.units[u] = IF req[t].op = "activate" THEN "occupied" ELSE "vacant"
          /\ \A v \in Units \ {u} : db'.units[v] = db.units[v]
      BY <1>1, <1>6, <2>1, <2>2, <2>3, <3>0, <3>1 DEF UnitLocks, TableEnds
    <3>5. /\ db'.lease_parties[l] = IF req[t].op = "activate" THEN "active" ELSE "closed"
          /\ \A m \in LeaseIds \ {l} : db'.lease_parties[m] = db.lease_parties[m]
      BY <1>1, <1>6, <2>1, <2>2, <2>3, <3>0, <3>1 DEF PartyLocks, TableEnds
    <3>6. TenantWhileLet'
      BY <2>2, <3>1, <3>3, <3>5 DEF TenantWhileLet, From, To
    <3>7. OccupiedWhileLet'
      <4>0. \A v \in Units \ {u} : v \in byHand => v \in byHand'
        BY <1>6, <2>2, <3>0 DEF UnitLocks
      <4>1. CASE req[t].op = "activate"
        BY <2>2, <3>1, <3>3, <3>4, <4>0, <4>1 DEF OccupiedWhileLet, From, To
      <4>2. CASE req[t].op = "terminate"
        <5>1. \A m \in LeaseIds : ~(StatusOf(m)' = "active" /\ UnitOf(m)' = u)
          <6>1. StatusOf(l) = "active" /\ StatusOf(l)' = "terminated"
            BY <3>3, <4>2 DEF From, To
          <6>2. \A m \in LeaseIds \ {l} : ~(StatusOf(m) = "active" /\ UnitOf(m) = u)
            BY <2>2, <3>1, <3>3, <6>1 DEF OneActive, StatusOf, UnitOf, Row
          <6> QED BY <3>3, <6>1, <6>2
        <5> QED BY <2>2, <3>1, <3>3, <3>4, <4>0, <4>2, <5>1
                DEF OccupiedWhileLet, From, To
      <4> QED BY <3>1, <4>1, <4>2
    <3> QED BY <3>6, <3>7
  <2>4. CASE ~WillMove(t)
    <3>1. /\ \A v \in Units : db'.units[v] = db.units[v]
          /\ \A m \in LeaseIds : db'.lease_parties[m] = db.lease_parties[m]
      BY <1>1, <1>6, <2>1, <2>2, <2>4 DEF UnitLocks, PartyLocks, TableEnds, Ends
    <3>2. ASSUME NEW m \in LeaseIds
          PROVE  \/ StatusOf(m)' = StatusOf(m) /\ UnitOf(m)' = UnitOf(m)
                 \/ StatusOf(m) \in {"none", "draft"} /\ StatusOf(m)' \in {"none", "draft"}
                 \/ /\ StatusOf(m) = "active" /\ StatusOf(m)' = "renewed"
                    /\ UnitOf(m)' = UnitOf(m)
      <4>1. CASE Locker(m) # t
        BY <2>1, <4>1 DEF StatusOf, UnitOf, Row
      <4>2. CASE Locker(m) = t /\ (Edits(t, m) \/ Inserts(t, m))
        BY <1>1, <2>1, <4>2 DEF Edits, Inserts, StatusOf, Row, LeaseRow, NoLease
      <4>3. CASE Locker(m) = t /\ Moves(t, m)
        <5>1. req[t].op = "renew"
          BY <1>6, <2>4, <4>3 DEF Moves, WillMove, To
        <5> QED BY <1>1, <2>1, <4>3, <5>1
                DEF Moves, StatusOf, UnitOf, Row, LeaseRow, To, From
      <4> QED BY <1>1, <4>1, <4>2, <4>3, NoLeaseLocked
    <3>3. TenantWhileLet'
      BY <2>2, <3>1, <3>2 DEF TenantWhileLet
    <3>4. OccupiedWhileLet'
      <4>0. \A v \in Units : v \in byHand => v \in byHand'
        BY <1>6, <2>2, <2>4 DEF UnitLocks
      <4>1. ASSUME NEW u \in Units \ byHand', NEW m \in LeaseIds,
                   StatusOf(m)' = "active" /\ UnitOf(m)' = u
            PROVE  db'.units[u] = "occupied"
        BY <2>2, <3>1, <3>2, <4>0, <4>1 DEF OccupiedWhileLet
      <4>2. ASSUME NEW u \in Units \ byHand', db'.units[u] = "occupied"
            PROVE  \E m \in LeaseIds : StatusOf(m)' \in {"active", "renewed"} /\ UnitOf(m)' = u
        <5>1. PICK m \in LeaseIds : StatusOf(m) \in {"active", "renewed"} /\ UnitOf(m) = u
          BY <2>2, <3>1, <4>0, <4>2 DEF OccupiedWhileLet
        <5> QED BY <3>2, <5>1
      <4> QED BY <4>1, <4>2 DEF OccupiedWhileLet
    <3> QED BY <3>3, <3>4
  <2> QED BY <2>3, <2>4
<1>7. ASSUME NEW t \in Tx, StepKind(t) PROVE PremisesSound'
  <2>1. \/ db' = db /\ byHand' = byHand
        \/ /\ Ends(t) /\ CommitTx(t) /\ pc[t] = "commit"
           /\ byHand' = {u \in byHand : owner.units[u] # t}
    BY <1>1, <1>7, CommittedStay DEF Ends, RollbackTx
  <2> QED BY <1>4, <1>5, <1>6, <1>7, <2>1 DEF PremisesSound
<1> QED BY <1>1, <1>3, <1>7, StepCases DEF StepKind

LEMMA SpecPremises == Spec => []PremisesSound
<1>1. Init => PremisesSound
  <2> SUFFICES ASSUME Init PROVE PremisesSound
    OBVIOUS
  <2>1. /\ \A t \in Tx : pc[t] = "idle"
        /\ \A l \in LeaseIds : /\ StatusOf(l) = "none"
                               /\ db.lease_parties[l] = "none"
                               /\ owner.lease_parties[l] = Nil
        /\ \A u \in Units : owner.units[u] = Nil
        /\ byHand = Units
    BY InitFacts DEF StatusOf, Row, NoLease
  <2>2. \A t \in Tx : UnitLocks(t) /\ PartyLocks(t)
    BY <2>1, NilAssumption DEF UnitLocks, PartyLocks, WillMove
  <2>3. OccupiedWhileLet /\ TenantWhileLet
    BY <2>1 DEF OccupiedWhileLet, TenantWhileLet
  <2> QED BY <2>2, <2>3 DEF PremisesSound
<1>2. Sound /\ PremisesSound /\ [Next]_vars => PremisesSound'
  BY PremisesNext
<1> QED BY <1>1, <1>2, SpecSound, PTL DEF Spec

\* A unit with an active lease is occupied, also when the lease before is
\* terminated, or its bills are generated, at the same time; and an occupied
\* unit is one that was let: the unit is written by the transaction that
\* changes the status of its lease, which has that lease locked.  Nothing is
\* said of a unit whose status a client set, with UpdateUnit or when it was
\* entered, after the last commit of a handler that set it.
THEOREM UnitOccupied == Spec => []OccupiedWhileLet
<1>1. PremisesSound => OccupiedWhileLet
  BY DEF PremisesSound
<1> QED BY <1>1, SpecPremises, PTL

\* A lease has its tenant from its activation to its termination, and a
\* renewed one keeps it.
THEOREM TenantIsParty == Spec => []TenantWhileLet
<1>1. PremisesSound => TenantWhileLet
  BY DEF PremisesSound
<1> QED BY <1>1, SpecPremises, PTL

-----------------------------------------------------------------------------
(***************************************************************************)
(* A lease is renewed by one other.                                        *)
(***************************************************************************)
LEMMA InsertsOneNext ==
  ASSUME Sound, NEW t \in Tx, StepKind(t), \A x \in Tx : InsertsOne(x)
  PROVE  \A x \in Tx : InsertsOne(x)'
<1>1. /\ Typed /\ LeasesSound /\ StorageTypeOK /\ Nil \notin Tx
      /\ RequestOK(t) /\ LeasesSoundFor(t)
      /\ "lease_contracts" \in TableName /\ DOMAIN db["lease_contracts"] = LeaseIds
      /\ \A l \in LeaseIds : /\ Row(l) \in LeaseRow
                             /\ Locker(l) = Nil => NewRow(l) = Row(l)
  BY TypedLeases, StorageTabular, NilAssumption DEF Sound, LeasesSound, TableName
<1>2. ASSUME NEW x \in Tx \ {t} PROVE InsertsOne(x)'
  <2>1. /\ pc'[x] = pc[x] /\ req'[x] = req[x]
        /\ \A l \in LeaseIds : /\ Locker(l)' = x <=> Locker(l) = x
                               /\ Locker(l) = x => Row(l)' = Row(l)
    BY <1>1, RowsOfOthers DEF Locker, Row
  <2>2. InsertsOne(x)
    OBVIOUS
  <2> QED BY <2>1, <2>2 DEF InsertsOne
<1>3. ASSUME pc[t] # "commit", NEW l \in LeaseIds, Locker(l) = t
      PROVE  Row(l) # NoLease
  BY <1>1, <1>3, NoLeaseLocked DEF Moves, From, To, NoLease
<1>4. CASE InsertsLease(t)
  <2> DEFINE row == [status |-> "draft", unit |-> req[t].unit,
                     renewed_from |-> req[t].renews, periods |-> req[t].periods]
  <2>1. PICK l \in LeaseIds : NewRow(l) = NoLease /\ WritesRow(t, "lease_contracts", l, row)
    BY <1>4 DEF InsertsLease
  <2>2. LeaseWritten(t, l, row)
    <3> HIDE DEF row
    <3> QED BY <1>1, <2>1, LeaseEffect
  <2>3. pc[t] = "insert_lease"
    BY <1>4 DEF InsertsLease
  <2>4. Locker(l) # t
    BY <1>1, <2>1, <2>3, NoLeaseLocked DEF Moves, NoLease, LeaseRow, To
  <2>5. Row(l) = NoLease
    BY <1>1, <2>1, <2>2, <2>4 DEF LeaseWritten
  <2>6. InsertsOne(t)'
    <3>1. \A k \in LeaseIds : Locker(k)' = t /\ Row(k)' = NoLease => k = l
      BY <1>3, <2>2, <2>3 DEF LeaseWritten
    <3>2. Locker(l)' = t /\ Row(l)' = NoLease
      BY <2>2, <2>5 DEF LeaseWritten
    <3> QED BY <3>1, <3>2 DEF InsertsOne
  <2> QED BY <1>2, <2>6
<1>5. CASE EditsLease(t) \/ MovesLease(t)
  <2>1. /\ pc[t] # "commit" /\ pc[t] # "idle" /\ req[t].op # "create"
        /\ pc'[t] = "commit" => req'[t].op # "renew"
        /\ \E row : WritesRow(t, "lease_contracts", req[t].lease, row)
    BY <1>5 DEF EditsLease, MovesLease, Goes
  <2>2. req[t].lease \in LeaseIds /\ Row(req[t].lease) # NoLease
    BY <1>1, <2>1 DEF RequestOK, LeasesSoundFor, UnitIsRemembered, NoLease
  <2>3. \E row : LeaseWritten(t, req[t].lease, row)
    BY <1>1, <2>1, <2>2, LeaseEffect
  <2>4. \A k \in LeaseIds : Locker(k)' = t => Row(k)' # NoLease
    BY <1>3, <2>1, <2>2, <2>3 DEF LeaseWritten
  <2> QED BY <1>2, <2>1, <2>4 DEF InsertsOne
<1>6. CASE \/ Begun(t) \/ ChangesParty(t) \/ ChangesUnit(t) \/ BillsNext(t)
           \/ BillsNoMore(t) \/ AsksApproval(t)
  <2>1. LeasesStay
    BY <1>1, <1>6, LeaseEffect DEF Begun
  <2>2. pc[t] # "commit" /\ (pc'[t] = "commit" => req'[t].op # "renew")
    BY <1>6 DEF Begun, ChangesParty, ChangesUnit, BillsNext, BillsNoMore, AsksApproval, Goes
  <2>3. \A k \in LeaseIds : Locker(k)' = t => Row(k)' # NoLease
    BY <1>3, <2>1, <2>2 DEF LeasesStay
  <2> QED BY <1>2, <2>2, <2>3 DEF InsertsOne
<1>7. CASE Ends(t)
  <2>1. pc'[t] = "idle" /\ LeasesEnd(t)
    BY <1>1, <1>7, LeaseEffect DEF Ends
  <2> QED BY <1>1, <1>2, <2>1 DEF LeasesEnd, InsertsOne
<1> QED BY <1>4, <1>5, <1>6, <1>7 DEF StepKind

\* What a commit does to the leases renewed and to their renewals.
LEMMA RenewalCommits ==
  ASSUME Sound, NEW t \in Tx, Ends(t), CommitTx(t), pc[t] = "commit", InsertsOne(t)
  PROVE  /\ \A m \in LeaseIds :
              Row(m)'.status = "renewed" <=>
                Row(m).status = "renewed" \/ (req[t].op = "renew" /\ m = req[t].lease)
         /\ req[t].op # "renew" =>
              \A k \in LeaseIds : Row(k)'.renewed_from = Row(k).renewed_from
         /\ req[t].op = "renew" =>
              /\ req[t].lease \in LeaseIds /\ Row(req[t].lease).status = "active"
              /\ \E new \in LeaseIds :
                   /\ Row(new) = NoLease /\ Row(new)'.renewed_from = req[t].lease
                   /\ \A k \in LeaseIds \ {new} :
                        Row(k)'.renewed_from = Row(k).renewed_from
<1>1. /\ Typed /\ LeasesSound /\ StorageTypeOK /\ Nil \notin Tx
      /\ RequestOK(t) /\ LeasesSoundFor(t)
      /\ "lease_contracts" \in TableName /\ DOMAIN db["lease_contracts"] = LeaseIds
      /\ \A l \in LeaseIds : Row(l) \in LeaseRow
  BY TypedLeases, StorageTabular, NilAssumption DEF Sound, LeasesSound, TableName
<1>2. \A l \in LeaseIds : Row(l)' = IF Locker(l) = t THEN NewRow(l) ELSE Row(l)
  <2>1. TableEnds(t, "lease_contracts")
    BY <1>1, OnlyTouches
  <2> QED BY <1>1, <2>1 DEF TableEnds, Row, NewRow, Locker
<1>3. \A l \in LeaseIds : Locker(l) = t => Moves(t, l) \/ Edits(t, l) \/ Inserts(t, l)
  BY <1>1, NoLeaseLocked
<1>4. ASSUME NEW m \in LeaseIds
      PROVE  /\ Row(m)'.status = "renewed" <=>
                  Row(m).status = "renewed" \/ (Locker(m) = t /\ req[t].op = "renew" /\ Moves(t, m))
             /\ Row(m)'.renewed_from = IF Locker(m) = t /\ Inserts(t, m) THEN req[t].renews
                                       ELSE Row(m).renewed_from
  <2>1. CASE Locker(m) # t
    BY <1>2, <2>1
  <2>2. CASE Locker(m) = t /\ Moves(t, m)
    <3>1. /\ Row(m)' = [Row(m) EXCEPT !.status = To[req[t].op]]
          /\ Row(m).status \in {"draft", "active"} /\ ~Inserts(t, m)
          /\ To[req[t].op] = "renewed" <=> req[t].op = "renew"
      BY <1>2, <2>2 DEF Moves, From, To, Inserts, NoLease
    <3>2. /\ Row(m)'.status = To[req[t].op] /\ Row(m)'.renewed_from = Row(m).renewed_from
      BY <1>1, <3>1 DEF LeaseRow
    <3> QED BY <2>2, <3>1, <3>2
  <2>3. CASE Locker(m) = t /\ Edits(t, m)
    <3>1. /\ Row(m)' = [Row(m) EXCEPT !.periods = req[t].periods]
          /\ ~Inserts(t, m) /\ ~Moves(t, m) /\ Row(m).status = "draft"
      BY <1>2, <2>3 DEF Edits, Inserts, Moves, To
    <3> QED BY <1>1, <3>1 DEF LeaseRow
  <2>4. CASE Locker(m) = t /\ Inserts(t, m)
    <3>1. /\ Row(m)'.status = "draft" /\ Row(m)'.renewed_from = req[t].renews
          /\ Row(m).status = "none" /\ ~Moves(t, m)
      BY <1>2, <2>4 DEF Inserts, Moves, From, To, NoLease
    <3> QED BY <2>4, <3>1
  <2> QED BY <1>3, <2>1, <2>2, <2>3, <2>4
<1>5. CASE req[t].op # "renew"
  <2>1. \A k \in LeaseIds : Inserts(t, k) => Row(k).renewed_from = Nil /\ req[t].renews = Nil
    BY <1>1, <1>5 DEF Inserts, NoLease, RequestOK
  <2> QED BY <1>4, <1>5, <2>1
<1>6. CASE req[t].op = "renew"
  <2>1. req[t].lease \in LeaseIds /\ Locker(req[t].lease) = t /\ req[t].renews = req[t].lease
    BY <1>1, <1>6 DEF RequestOK, LeasesSoundFor, MoverLocks, HasMoved
  <2>2. PICK new \in LeaseIds : Locker(new) = t /\ Row(new) = NoLease
    BY <1>6 DEF InsertsOne
  <2>3. Row(req[t].lease).status # "none"
    BY <1>1, <1>6 DEF LeasesSoundFor, UnitIsRemembered
  <2>4. Moves(t, req[t].lease)
    BY <1>3, <1>6, <2>1, <2>3 DEF Edits, Inserts, NoLease
  <2>5. Inserts(t, new)
    BY <1>3, <1>6, <2>2 DEF Moves, Edits, From, To, NoLease
  <2>6. \A k \in LeaseIds \ {new} : ~(Locker(k) = t /\ Inserts(t, k))
    BY <2>2 DEF InsertsOne, Inserts
  <2>7. Row(req[t].lease).status = "active"
    BY <1>6, <2>4 DEF Moves, From
  <2>8. \A m \in LeaseIds : Moves(t, m) => m = req[t].lease
    BY DEF Moves
  <2> QED BY <1>4, <1>6, <2>1, <2>2, <2>4, <2>5, <2>6, <2>7, <2>8
<1> QED BY <1>5, <1>6

LEMMA RenewalsNext ==
  ASSUME Sound, RenewalsSound, [Next]_vars
  PROVE  RenewalsSound'
<1>1. /\ Typed /\ "lease_contracts" \in TableName
      /\ RenewalsAreRenewed /\ \A t \in Tx : InsertsOne(t)
  BY DEF Sound, RenewalsSound, TableName
<1>2. ASSUME \A l \in LeaseIds : Row(l)' = Row(l) PROVE RenewalsAreRenewed'
  BY <1>1, <1>2 DEF RenewalsAreRenewed, Renews
<1>3. CASE UNCHANGED vars \/ SettlesOther
  <2>1. LeasesStay /\ UNCHANGED <<pc, req>>
    BY <1>1, <1>3, LeaseEffect DEF vars, storage, SettlesOther, Typed
  <2> QED BY <1>1, <1>2, <2>1 DEF LeasesStay, InsertsOne, RenewalsSound
<1>4. ASSUME NEW t \in Tx, StepKind(t) PROVE RenewalsSound'
  <2>1. CASE ~(Ends(t) /\ CommitTx(t) /\ pc[t] = "commit")
    <3>1. db' = db
      BY <1>1, <1>4, <2>1, CommittedStay
    <3> QED BY <1>1, <1>2, <1>4, <3>1, InsertsOneNext DEF RenewalsSound, Row
  <2>2. CASE Ends(t) /\ CommitTx(t) /\ pc[t] = "commit"
    <3>1. RenewalsAreRenewed'
      <4>1. CASE req[t].op # "renew"
        <5>1. \A k \in LeaseIds :
                /\ Row(k)'.status = "renewed" <=> Row(k).status = "renewed"
                /\ Row(k)'.renewed_from = Row(k).renewed_from
          BY <1>1, <2>2, <4>1, RenewalCommits
        <5> QED BY <1>1, <5>1 DEF RenewalsAreRenewed, Renews
      <4>2. CASE req[t].op = "renew"
        <5>1. PICK l, new \in LeaseIds :
                /\ Row(l).status = "active"
                /\ Row(new) = NoLease /\ Row(new)'.renewed_from = l
                /\ \A k \in LeaseIds \ {new} : Row(k)'.renewed_from = Row(k).renewed_from
                /\ \A m \in LeaseIds :
                     Row(m)'.status = "renewed" <=> Row(m).status = "renewed" \/ m = l
          BY <1>1, <2>2, <4>2, RenewalCommits
        <5>2. Row(new).renewed_from \notin LeaseIds
          BY <5>1, LeaseAssumption DEF NoLease
        <5> QED BY <1>1, <5>1, <5>2 DEF RenewalsAreRenewed, Renews
      <4> QED BY <4>1, <4>2
    <3> QED BY <1>1, <1>4, <3>1, InsertsOneNext DEF RenewalsSound
  <2> QED BY <2>1, <2>2
<1> QED BY <1>1, <1>3, <1>4, StepCases DEF StepKind

\* A renewed lease has one renewal and no other lease has any, whoever renews,
\* terminates or activates it at the same time: RenewLeaseContract makes the
\* lease "renewed" and inserts its renewal in one transaction.
THEOREM OneRenewal == Spec => []RenewedOnce
<1>1. Init => RenewalsSound
  <2> SUFFICES ASSUME Init PROVE RenewalsSound
    OBVIOUS
  <2>1. /\ \A t \in Tx : pc[t] = "idle"
        /\ \A l \in LeaseIds : Row(l) = NoLease /\ Locker(l) = Nil
    BY InitFacts
  <2> QED BY <2>1, NilAssumption, LeaseAssumption
          DEF RenewalsSound, RenewalsAreRenewed, Renews, InsertsOne, NoLease
<1>2. Sound /\ RenewalsSound /\ [Next]_vars => RenewalsSound'
  BY RenewalsNext
<1>3. RenewalsSound => RenewedOnce
  <2> SUFFICES ASSUME RenewalsSound, NEW l \in LeaseIds
               PROVE  Cardinality({m \in LeaseIds : Renews(m, l)}) =
                        IF Row(l).status = "renewed" THEN 1 ELSE 0
    BY DEF RenewedOnce, Renews, Row, StatusOf
  <2>1. CASE Row(l).status = "renewed"
    <3>1. PICK k \in LeaseIds : Renews(k, l)
      BY <2>1 DEF RenewalsSound, RenewalsAreRenewed
    <3>2. {m \in LeaseIds : Renews(m, l)} = {k}
      BY <3>1 DEF RenewalsSound, RenewalsAreRenewed
    <3> QED BY <2>1, <3>2, FS_Singleton
  <2>2. CASE Row(l).status # "renewed"
    <3>1. {m \in LeaseIds : Renews(m, l)} = {}
      BY <2>2 DEF RenewalsSound, RenewalsAreRenewed
    <3> QED BY <2>2, <3>1, FS_EmptySet
  <2> QED BY <2>1, <2>2
<1> QED BY <1>1, <1>2, <1>3, SpecSound, PTL DEF Spec

-----------------------------------------------------------------------------
(***************************************************************************)
(* A lease has all of its bills or none.                                   *)
(***************************************************************************)
\* The term of a lease that was activated never changes.
TermKept(l) ==
  Row(l).status \notin {"none", "draft"} =>
    Row(l)'.status \notin {"none", "draft"} /\ Row(l)'.periods = Row(l).periods

LEMMA TermsAreKept ==
  ASSUME Sound, NEW t \in Tx, StepKind(t), NEW l \in LeaseIds
  PROVE  TermKept(l)
<1>1. /\ Typed /\ LeasesSound /\ Row(l) \in LeaseRow
      /\ "lease_contracts" \in TableName /\ DOMAIN db["lease_contracts"] = LeaseIds
  BY TypedLeases, StorageTabular DEF Sound, TableName, Typed
<1>2. CASE Row(l)' = Row(l)
  BY <1>2 DEF TermKept
<1>3. CASE Ends(t) /\ CommitTx(t) /\ Locker(l) = t
  <2>1. Row(l)' = NewRow(l)
    <3>1. TableEnds(t, "lease_contracts")
      BY <1>1, <1>3, OnlyTouches
    <3> QED BY <1>1, <1>3, <3>1 DEF TableEnds, Row, NewRow, Locker
  <2>2. Moves(t, l) \/ Edits(t, l) \/ Inserts(t, l)
    BY <1>1, <1>3, NoLeaseLocked
  <2>3. CASE Moves(t, l)
    <3>1. /\ Row(l)' = [Row(l) EXCEPT !.status = To[req[t].op]]
          /\ To[req[t].op] \notin {"none", "draft"}
      BY <2>1, <2>3 DEF Moves, To
    <3> QED BY <1>1, <3>1 DEF TermKept, LeaseRow
  <2>4. CASE Edits(t, l) \/ Inserts(t, l)
    BY <2>4 DEF Edits, Inserts, TermKept, NoLease
  <2> QED BY <2>2, <2>3, <2>4
<1>4. CASE ~(Ends(t) /\ CommitTx(t) /\ pc[t] = "commit")
  BY <1>1, <1>2, <1>4, CommittedStay DEF Row
<1>5. CASE Ends(t) /\ CommitTx(t) /\ Locker(l) # t
  <2>1. TableEnds(t, "lease_contracts")
    BY <1>1, <1>5, OnlyTouches
  <2> QED BY <1>1, <1>2, <1>5, <2>1 DEF TableEnds, Row, Locker
<1> QED BY <1>3, <1>4, <1>5

\* What is said of a transaction's bills stays as long as it does nothing.
LEMMA BillsOfOthers ==
  ASSUME Typed, NEW x \in Tx, BillLocks(x), Generates(x), pc'[x] = pc[x], req'[x] = req[x],
         \A b \in BillIds :
           /\ owner'.lease_bills[b] = x <=> owner.lease_bills[b] = x
           /\ owner.lease_bills[b] = x => dirty'.lease_bills[b] = dirty.lease_bills[b]
           /\ db.lease_bills[b] # "none" => db'.lease_bills[b] # "none",
         \A l \in LeaseIds : TermKept(l)
  PROVE  (BillLocks(x) /\ Generates(x))'
<1>1. \A l \in LeaseIds, n \in 1..MaxPeriods : <<l, n>> \in BillIds
  BY DEF BillIds
<1>2. pc[x] # "idle" /\ req[x].op = "generate" => req[x].lease \in LeaseIds
  BY TypedLeases DEF RequestOK
<1>3. BillLocks(x)'
  BY <1>1 DEF BillLocks
<1>4. Generates(x)'
  BY <1>1, <1>2 DEF Generates, TermKept, Sees
<1> QED BY <1>3, <1>4

LEMMA BillsOwnNext ==
  ASSUME Sound, NEW t \in Tx, StepKind(t), BillLocks(t), Generates(t)
  PROVE  /\ (BillLocks(t) /\ Generates(t))'
         /\ \A b \in BillIds : db.lease_bills[b] # "none" => db'.lease_bills[b] # "none"
<1> DEFINE tab == "lease_bills"
<1>1. /\ Typed /\ StorageTypeOK /\ LeasesSound /\ RequestOK(t) /\ Nil \notin Tx
      /\ tab \in TableName /\ DOMAIN db[tab] = BillIds
      /\ \A l \in LeaseIds : TermKept(l)
      /\ \A l \in LeaseIds, n \in 1..MaxPeriods : <<l, n>> \in BillIds
  BY TypedLeases, StorageTabular, TermsAreKept, NilAssumption DEF Sound, TableName, BillIds
<1>2. ASSUME db'.lease_bills = db.lease_bills
      PROVE  \A b \in BillIds : db.lease_bills[b] # "none" => db'.lease_bills[b] # "none"
  BY <1>2
<1>3. ASSUME req[t].op # "generate" \/ pc[t] = "idle",
             pc'[t] = "idle" \/ req'[t].op # "generate", TableStays(tab)
      PROVE  (BillLocks(t) /\ Generates(t))'
  BY <1>1, <1>3 DEF BillLocks, Generates, TableStays
<1>4. CASE Begun(t)
  <2>1. TableStays(tab) /\ pc[t] = "idle" /\ db' = db
    BY <1>1, <1>4, OnlyTouches DEF Begun, storage
  <2>2. BillLocks(t)'
    BY <1>1, <2>1 DEF BillLocks, TableStays
  <2>3. Generates(t)'
    <3>1. CASE req'[t].op = "generate"
      <4>1. /\ req'[t] \in Request /\ req'[t].lease \in LeaseIds /\ pc'[t] = "bill"
            /\ req'[t].next = 1 /\ LeaseOf(t, req'[t].lease).status = "active"
            /\ req'[t].periods = LeaseOf(t, req'[t].lease).periods
        BY <1>4, <3>1 DEF Begun, To
      <4>2. LeaseOf(t, req'[t].lease) = Row(req'[t].lease)
        BY <1>1, <2>1, <4>1, NoLeaseLocked DEF LeaseOf, Sees, Row, Locker
      <4>3. req'[t].periods \in Nat
        BY <4>1, LeaseAssumption DEF Request
      <4>4. PICK l : l = req'[t].lease
        OBVIOUS
      <4>5. Row(l)'.status = "active" /\ req'[t].periods = Row(l)'.periods
        BY <2>1, <4>1, <4>2, <4>4 DEF Row
      <4> QED BY <4>1, <4>3, <4>4, <4>5 DEF Generates
    <3> QED BY <3>1 DEF Generates
  <2> QED BY <1>2, <2>1, <2>2, <2>3
<1>5. CASE \/ InsertsLease(t) \/ EditsLease(t) \/ MovesLease(t) \/ ChangesParty(t)
           \/ ChangesUnit(t) \/ AsksApproval(t)
  <2>1. TableStays(tab)
    BY <1>1, <1>5, OnlyTouches
  <2>2. req'[t].op = req[t].op /\ req[t].op # "generate"
    BY <1>5 DEF InsertsLease, EditsLease, MovesLease, ChangesParty, ChangesUnit,
       AsksApproval, Goes
  <2> QED BY <1>2, <1>3, <2>1, <2>2 DEF TableStays
<1>6. CASE BillsNext(t) \/ BillsNoMore(t)
  <2>1. /\ req[t].op = "generate" /\ pc[t] = "bill" /\ req[t] \in Request
        /\ req[t].lease \in LeaseIds
        /\ req[t].next \in Nat /\ req[t].periods \in Nat
    <3>1. req[t].op = "generate" /\ pc[t] = "bill" /\ req[t] \in Request
          /\ req[t].lease \in LeaseIds
      BY <1>1, <1>6 DEF BillsNext, BillsNoMore, RequestOK
    <3> QED BY <3>1, LeaseAssumption DEF Request
  <2>2. /\ Row(req[t].lease).status \notin {"none", "draft"}
        /\ req[t].periods = Row(req[t].lease).periods
        /\ req[t].next <= req[t].periods + 1
        /\ \A n \in 1..MaxPeriods :
             n < req[t].next => Sees(t, tab, <<req[t].lease, n>>) # "none"
    BY <2>1 DEF Generates
  <2>0. PICK l : l = req[t].lease
    OBVIOUS
  <2>3. Row(l)'.status \notin {"none", "draft"} /\ req[t].periods = Row(l)'.periods
    BY <1>1, <2>0, <2>1, <2>2 DEF TermKept
  <2>4. CASE BillsNoMore(t)
    <3>1. /\ TableStays(tab) /\ pc'[t] = "commit" /\ req'[t] = req[t]
          /\ req[t].next > req[t].periods
      BY <1>1, <2>4, OnlyTouches DEF BillsNoMore, Goes
    <3>2. BillLocks(t)'
      BY <2>1, <3>1 DEF BillLocks, TableStays
    <3>3. req[t].next = req[t].periods + 1
      BY <2>1, <2>2, <3>1
    <3>4. Generates(t)'
      BY <2>0, <2>1, <2>2, <2>3, <3>1, <3>3 DEF Generates, TableStays, Sees
    <3> QED BY <1>2, <3>1, <3>2, <3>4 DEF TableStays
  <2>5. CASE BillsNext(t)
    <3> DEFINE bill == <<req[t].lease, req[t].next>>
    <3>1. /\ req[t].next <= req[t].periods /\ bill \in BillIds /\ pc'[t] = "bill"
          /\ req'[t] = [req[t] EXCEPT !.next = req[t].next + 1]
          /\ \/ Sees(t, tab, bill) # "none" /\ UNCHANGED storage
             \/ WritesRow(t, tab, bill, "draft")
      BY <2>5 DEF BillsNext
    <3>2. /\ req'[t].op = "generate" /\ req'[t].lease = req[t].lease
          /\ req'[t].periods = req[t].periods /\ req'[t].next = req[t].next + 1
      BY <2>1, <3>1 DEF Request
    <3>3. db' = db
      BY <3>1 DEF WritesRow, storage
    <3>4. ASSUME NEW m \in LeaseIds, NEW n \in 1..MaxPeriods, <<m, n>> # bill
          PROVE  /\ owner'.lease_bills[<<m, n>>] = owner.lease_bills[<<m, n>>]
                 /\ dirty'.lease_bills[<<m, n>>] = dirty.lease_bills[<<m, n>>]
      BY <1>1, <3>1, <3>4 DEF WritesRow, storage, StorageTypeOK, LocksOK, Tables
    <3>5. \/ owner'.lease_bills[bill] = t /\ dirty'.lease_bills[bill] = "draft"
          \/ /\ owner'.lease_bills[bill] = owner.lease_bills[bill]
             /\ dirty'.lease_bills[bill] = dirty.lease_bills[bill]
             /\ Sees(t, tab, bill) # "none"
      <4> HIDE DEF bill
      <4> QED BY <1>1, <3>1 DEF WritesRow, storage, StorageTypeOK, LocksOK, Tables
    <3>6. BillLocks(t)'
      <4> SUFFICES ASSUME NEW m \in LeaseIds, NEW n \in 1..MaxPeriods,
                          owner'.lease_bills[<<m, n>>] = t
                   PROVE  /\ m = req[t].lease /\ n < req[t].next + 1
                          /\ dirty'.lease_bills[<<m, n>>] = "draft"
        BY <3>1, <3>2 DEF BillLocks
      <4>1. CASE <<m, n>> # bill
        BY <2>1, <3>4, <4>1 DEF BillLocks
      <4>2. CASE <<m, n>> = bill
        <5>1. m = req[t].lease /\ n = req[t].next
          BY <4>2
        <5>2. owner.lease_bills[bill] # t
          BY <2>1, <4>2, <5>1 DEF BillLocks
        <5> QED BY <2>1, <3>5, <4>2, <5>1, <5>2
      <4> QED BY <4>1, <4>2
    <3>7. \A n \in 1..MaxPeriods :
            n < req[t].next + 1 => Sees(t, tab, <<req[t].lease, n>>)' # "none"
      <4> SUFFICES ASSUME NEW n \in 1..MaxPeriods, n < req[t].next + 1
                   PROVE  IF owner'.lease_bills[<<req[t].lease, n>>] = t
                            THEN dirty'.lease_bills[<<req[t].lease, n>>] # "none"
                            ELSE db'.lease_bills[<<req[t].lease, n>>] # "none"
        BY <3>2 DEF Sees
      <4>1. CASE n = req[t].next
        BY <3>3, <3>5, <4>1 DEF Sees
      <4>2. CASE n # req[t].next
        <5>1. n < req[t].next /\ <<req[t].lease, n>> # bill
          BY <2>1, <4>2
        <5> QED BY <2>1, <2>2, <3>3, <3>4, <5>1 DEF Sees
      <4> QED BY <4>1, <4>2
    <3>8. Generates(t)'
      <4>1. req[t].next + 1 <= req[t].periods + 1
        BY <2>1, <3>1
      <4> QED BY <2>0, <2>3, <3>1, <3>2, <3>7, <4>1 DEF Generates, Sees
    <3> QED BY <1>2, <3>3, <3>6, <3>8
  <2> QED BY <1>6, <2>4, <2>5
<1>7. CASE Ends(t)
  <2>1. pc'[t] = "idle" /\ TableEnds(t, tab) /\ (CommitTx(t) \/ RollbackTx(t))
    BY <1>1, <1>7, OnlyTouches DEF Ends
  <2>2. (BillLocks(t) /\ Generates(t))'
    BY <1>1, <2>1 DEF BillLocks, Generates, TableEnds
  <2>3. ASSUME NEW b \in BillIds, db.lease_bills[b] # "none"
        PROVE  db'.lease_bills[b] # "none"
    <3>1. PICK l \in LeaseIds, n \in 1..MaxPeriods : b = <<l, n>>
      BY DEF BillIds
    <3> QED BY <1>1, <2>1, <2>3, <3>1 DEF BillLocks, TableEnds
  <2> QED BY <2>2, <2>3
<1> QED BY <1>4, <1>5, <1>6, <1>7 DEF StepKind

\* A commit adds all the bills of the lease it is about.
LEMMA AllOrNoneCommits ==
  ASSUME Sound, BillsSound, NEW t \in Tx, Ends(t), CommitTx(t), pc[t] = "commit"
  PROVE  AllOrNone'
<1> DEFINE tab == "lease_bills"
<1>1. /\ Typed /\ LeasesSound /\ RequestOK(t) /\ StepKind(t)
      /\ BillLocks(t) /\ Generates(t) /\ AllOrNone
      /\ {tab, "lease_contracts"} \subseteq TableName
      /\ DOMAIN db[tab] = BillIds /\ DOMAIN db["lease_contracts"] = LeaseIds
      /\ \A l \in LeaseIds, n \in 1..MaxPeriods : <<l, n>> \in BillIds
  BY TypedLeases, StorageTabular DEF Sound, BillsSound, StepKind, Typed, TableName, BillIds
<1>2. \A b \in BillIds : db'.lease_bills[b] = Sees(t, tab, b)
  <2>1. TableEnds(t, tab)
    BY <1>1, OnlyTouches
  <2> QED BY <1>1, <2>1 DEF TableEnds, Sees
<1>3. \A l \in LeaseIds : TermKept(l) /\ Row(l).periods \in Nat
  BY <1>1, TermsAreKept, TypedLeases, LeaseAssumption DEF LeaseRow
<1>4. CASE req[t].op # "generate"
  <2>1. \A l \in LeaseIds, n \in 1..MaxPeriods : Bill(l, n)' = Bill(l, n)
    BY <1>1, <1>2, <1>4 DEF BillLocks, Bill, Sees
  <2> QED BY <1>1, <1>3, <2>1 DEF AllOrNone, TermKept
<1>5. CASE req[t].op = "generate"
  <2>0. PICK own : own = req[t].lease
    OBVIOUS
  <2>1. /\ own \in LeaseIds /\ Row(own).status \notin {"none", "draft"}
        /\ req[t].next = Row(own).periods + 1
        /\ \A n \in 1..MaxPeriods :
             n < req[t].next => Sees(t, tab, <<own, n>>) # "none"
    BY <1>1, <1>5, <2>0 DEF Generates, RequestOK
  <2>2. /\ Row(own)'.status \notin {"none", "draft"}
        /\ Row(own)'.periods = Row(own).periods /\ Row(own).periods \in Nat
    BY <1>3, <2>1 DEF TermKept
  <2>3. \A n \in 1..MaxPeriods : n <= Row(own).periods => Bill(own, n)' # "none"
    <3>1. \A n \in 1..MaxPeriods : n <= Row(own).periods => n < req[t].next
      BY <2>1, <2>2
    <3>2. \A n \in 1..MaxPeriods : Bill(own, n)' = Sees(t, tab, <<own, n>>)
      BY <1>1, <1>2, <2>1 DEF Bill
    <3> QED BY <2>1, <3>1, <3>2
  <2>4. ASSUME NEW n \in 1..MaxPeriods, Bill(own, n)' # "none"
        PROVE  n <= Row(own).periods
    <3>1. CASE owner.lease_bills[<<own, n>>] = t
      <4>1. n < req[t].next
        BY <1>1, <2>1, <3>1 DEF BillLocks
      <4> QED BY <2>1, <2>2, <4>1
    <3>2. CASE owner.lease_bills[<<own, n>>] # t
      <4>1. Bill(own, n)' = Bill(own, n)
        BY <1>1, <1>2, <2>1, <3>2 DEF Bill, Sees
      <4> QED BY <1>1, <2>1, <2>4, <4>1 DEF AllOrNone
    <3> QED BY <3>1, <3>2
  <2>5. \A l \in LeaseIds \ {own}, n \in 1..MaxPeriods : Bill(l, n)' = Bill(l, n)
    BY <1>1, <1>2, <2>0 DEF BillLocks, Bill, Sees
  <2> SUFFICES ASSUME NEW l \in LeaseIds, NEW n \in 1..MaxPeriods, Bill(l, n)' # "none"
               PROVE  /\ Row(l)'.status \notin {"none", "draft"}
                      /\ n <= Row(l)'.periods
                      /\ \A m \in 1..MaxPeriods :
                           m <= Row(l)'.periods => Bill(l, m)' # "none"
    BY DEF AllOrNone
  <2>6. CASE l = own
    BY <2>2, <2>3, <2>4, <2>6
  <2>7. CASE l # own
    <3>1. /\ Row(l).status \notin {"none", "draft"} /\ n <= Row(l).periods
          /\ \A m \in 1..MaxPeriods : m <= Row(l).periods => Bill(l, m) # "none"
      BY <1>1, <2>5, <2>7 DEF AllOrNone
    <3>2. Row(l)'.status \notin {"none", "draft"} /\ Row(l)'.periods = Row(l).periods
      BY <1>3, <3>1 DEF TermKept
    <3> QED BY <2>5, <2>7, <3>1, <3>2
  <2> QED BY <2>6, <2>7
<1> QED BY <1>4, <1>5

LEMMA BillsNextSound ==
  ASSUME Sound, BillsSound, [Next]_vars
  PROVE  BillsSound'
<1> DEFINE tab == "lease_bills"
<1>1. /\ Typed /\ LeasesSound /\ StorageTypeOK /\ AllOrNone
      /\ {tab, "lease_contracts"} \subseteq TableName
      /\ DOMAIN db[tab] = BillIds /\ Nil \notin Tx
      /\ \A t \in Tx : BillLocks(t) /\ Generates(t)
      /\ \A l \in LeaseIds, n \in 1..MaxPeriods : <<l, n>> \in BillIds
  BY StorageTabular, NilAssumption DEF Sound, BillsSound, Typed, TableName, BillIds
<1>2. CASE UNCHANGED vars \/ SettlesOther
  <2>1. /\ UNCHANGED <<pc, req, owner>>
        /\ \A l \in LeaseIds : Row(l)' = Row(l) /\ TermKept(l)
    <3>1. LeasesStay /\ UNCHANGED <<pc, req, owner>>
      BY <1>1, <1>2, LeaseEffect DEF vars, storage, SettlesOther
    <3> QED BY <3>1 DEF LeasesStay, TermKept
  <2>2. \A b \in BillIds :
          /\ owner.lease_bills[b] # Nil => dirty'.lease_bills[b] = dirty.lease_bills[b]
          /\ db'.lease_bills[b] = "none" <=> db.lease_bills[b] = "none"
    <3>1. CASE TableStays(tab)
      BY <3>1 DEF TableStays
    <3>2. CASE SettlesOther /\ ~TableStays(tab)
      <4>1. PICK b \in BillIds, status \in {"issued", "voided"} :
              /\ db.lease_bills[b] # "none" /\ owner.lease_bills[b] = Nil
              /\ db'.lease_bills = [db.lease_bills EXCEPT ![b] = status]
              /\ dirty'.lease_bills = [dirty.lease_bills EXCEPT ![b] = status]
        <5>1. tab \in TableName \ {"approval_requests", "units"}
          BY <1>1
        <5>2. ApprovalDecided \/ ApprovalEntered \/ UnitEntered => FALSE
          BY <3>2, <5>1 DEF SettlesOther, ApprovalDecided, ApprovalEntered, UnitEntered,
             RowSettled, TableStays
        <5> QED BY <3>2, <5>2 DEF SettlesOther, BillSettled, RowSettled
      <4> QED BY <1>1, <4>1 DEF StorageTypeOK, Tables
    <3>3. UNCHANGED vars => TableStays(tab)
      BY DEF vars, TableStays
    <3> QED BY <1>2, <3>1, <3>2, <3>3
  <2>3. \A x \in Tx : (BillLocks(x) /\ Generates(x))'
    BY <1>1, <2>1, <2>2, BillsOfOthers
  <2>4. AllOrNone'
    BY <1>1, <2>1, <2>2 DEF AllOrNone, Bill
  <2> QED BY <2>3, <2>4 DEF BillsSound
<1>3. ASSUME NEW t \in Tx, StepKind(t) PROVE BillsSound'
  <2>1. /\ (BillLocks(t) /\ Generates(t))'
        /\ \A b \in BillIds : db.lease_bills[b] # "none" => db'.lease_bills[b] # "none"
    BY <1>1, <1>3, BillsOwnNext
  <2>2. ASSUME NEW x \in Tx \ {t} PROVE (BillLocks(x) /\ Generates(x))'
    <3>1. /\ pc'[x] = pc[x] /\ req'[x] = req[x]
          /\ \A b \in BillIds :
               /\ owner'.lease_bills[b] = x <=> owner.lease_bills[b] = x
               /\ owner.lease_bills[b] = x =>
                    dirty'.lease_bills[b] = dirty.lease_bills[b]
      BY <1>1, <1>3, RowsOfOthers
    <3> QED BY <1>1, <1>3, <2>1, <3>1, TermsAreKept, BillsOfOthers
  <2>3. CASE ~(Ends(t) /\ CommitTx(t) /\ pc[t] = "commit")
    <3>1. db' = db
      BY <1>1, <1>3, <2>3, CommittedStay
    <3>2. AllOrNone'
      BY <1>1, <3>1 DEF AllOrNone, Bill, Row
    <3> QED BY <2>1, <2>2, <3>2 DEF BillsSound
  <2>4. CASE Ends(t) /\ CommitTx(t) /\ pc[t] = "commit"
    BY <2>1, <2>2, <2>4, AllOrNoneCommits DEF BillsSound
  <2> QED BY <2>3, <2>4
<1> QED BY <1>1, <1>2, <1>3, StepCases DEF StepKind

\* The bills of a lease are those of its term, all of them or none, however
\* generating them, editing the draft and activating it interleave: only the
\* bills of an active lease are generated, and its term is not edited any more.
THEOREM BillsOfItsTerm == Spec => []BilledForItsTerm
<1>1. Init => BillsSound
  <2> SUFFICES ASSUME Init PROVE BillsSound
    OBVIOUS
  <2>1. \A t \in Tx : pc[t] = "idle"
    BY InitFacts
  <2>2. \A l \in LeaseIds, n \in 1..MaxPeriods :
          Bill(l, n) = "none" /\ owner.lease_bills[<<l, n>>] = Nil
    BY InitFacts DEF Bill, BillIds
  <2> QED BY <2>1, <2>2, NilAssumption DEF BillsSound, AllOrNone, BillLocks, Generates
<1>2. Sound /\ BillsSound /\ [Next]_vars => BillsSound'
  BY BillsNextSound
<1>3. Sound /\ BillsSound => BilledForItsTerm
  <2> SUFFICES ASSUME Sound, BillsSound, NEW l \in LeaseIds,
                      NEW n \in 1..MaxPeriods, Bill(l, n) # "none"
               PROVE  {m \in 1..MaxPeriods : Bill(l, m) # "none"} = 1..Row(l).periods
    BY DEF BilledForItsTerm, Bill, Row
  <2>1. Row(l).periods \in 0..MaxPeriods
    BY TypedLeases DEF Sound, LeaseRow
  <2>2. \A m \in 1..MaxPeriods : Bill(l, m) # "none" <=> m <= Row(l).periods
    BY DEF BillsSound, AllOrNone
  <2> QED BY <2>1, <2>2, LeaseAssumption
<1> QED BY <1>1, <1>2, <1>3, SpecSound, PTL DEF Spec

-----------------------------------------------------------------------------
(***************************************************************************)
(* One request at a time: a termination is asked for once.                 *)
(***************************************************************************)
\* Requests are handled one at a time.
OneRunning == \A t, u \in Tx : pc[t] # "idle" /\ pc[u] # "idle" => t = u

Approval(a) == db.approval_requests[a]

\* No request to terminate l waits to be decided.
NonePending(l) ==
  \A a \in ApprovalIds :
    ~ /\ Approval(a).status = "pending" /\ Approval(a).lease = l
      /\ Approval(a).type = "lease_termination"

\* Approvals are asked for in the order of their ids, and of those to terminate
\* a lease only the latest may wait to be decided.
LatestWaits ==
  /\ \A a, b \in ApprovalIds :
       a < b /\ Approval(b) # NoApproval => Approval(a) # NoApproval
  /\ \A a, b \in ApprovalIds :
       /\ a < b /\ Approval(b) # NoApproval /\ Approval(a).lease = Approval(b).lease
       /\ Approval(a).type = "lease_termination"
       /\ Approval(b).type = "lease_termination"
       => Approval(a).status # "pending"

\* t asks to terminate a lease only while nobody else does.
AsksOnce(t) ==
  /\ pc[t] = "insert_approval" /\ req[t].op = "terminate" =>
       NonePending(req[t].lease)
  /\ pc[t] = "insert_approval" /\ req[t].op = "deposit_refund" =>
       req[t].type = "deposit_refund"
  /\ \A a \in ApprovalIds :
       owner.approval_requests[a] = t =>
         /\ \A b \in ApprovalIds : Approval(b) = NoApproval => a <= b
         /\ dirty.approval_requests[a] # NoApproval
         /\ dirty.approval_requests[a].type = "lease_termination" =>
              NonePending(dirty.approval_requests[a].lease)

AskedOnce == LatestWaits /\ \A t \in Tx : AsksOnce(t)

\* Two requests that wait would both be the latest.
LEMMA LatestIsOne == LatestWaits => OnePendingTermination
<1> SUFFICES ASSUME LatestWaits, NEW l \in LeaseIds
             PROVE  Cardinality({a \in ApprovalIds : Approval(a) =
                      [status |-> "pending", lease |-> l,
                       type |-> "lease_termination"]}) <= 1
  BY DEF OnePendingTermination, Approval
<1> DEFINE waiting == {a \in ApprovalIds : Approval(a) =
                         [status |-> "pending", lease |-> l,
                          type |-> "lease_termination"]}
<1>1. \A a, b \in waiting : ~(a < b)
  BY DEF LatestWaits, NoApproval
<1>2. \A a \in waiting : a \in Nat
  BY LeaseAssumption
<1> HIDE DEF waiting
<1>3. \A a, b \in waiting : a = b
  BY <1>1, <1>2
<1>4. CASE waiting = {}
  BY <1>4, FS_EmptySet DEF waiting
<1>5. CASE waiting # {}
  <2>1. PICK a : waiting = {a}
    BY <1>3, <1>5
  <2>2. Cardinality(waiting) = 1
    BY <2>1, FS_Singleton
  <2> QED BY <2>2 DEF waiting
<1> QED BY <1>4, <1>5

\* Where the latest request to terminate a lease does not wait, none does.
LEMMA LatestDecided ==
  ASSUME StorageTypeOK, LatestWaits, NEW t \in Tx, NEW l \in LeaseIds,
         LatestTermination(t, l) # "pending",
         \A a \in ApprovalIds : owner.approval_requests[a] # t
  PROVE  NonePending(l)
<1> SUFFICES ASSUME NEW a \in ApprovalIds, Approval(a).status = "pending",
                    Approval(a).lease = l, Approval(a).type = "lease_termination"
             PROVE  FALSE
  BY DEF NonePending
<1> DEFINE found == {b \in ApprovalIds :
                       /\ Sees(t, "approval_requests", b).lease = l
                       /\ Sees(t, "approval_requests", b).type = "lease_termination"}
           latest == CHOOSE b \in found : \A c \in found : c <= b
<1>1. a \in found /\ Sees(t, "approval_requests", a) = Approval(a)
  BY DEF Sees, Approval
<1>2. IsFiniteSet(found) /\ found \in SUBSET Nat
  BY LeaseAssumption, FS_Subset
<1>3. \E b \in found : \A c \in found : c <= b
  <2> HIDE DEF found
  <2> QED BY <1>1, <1>2, LatestExists
<1>4. latest \in found /\ \A c \in found : c <= latest
  BY <1>3
<1>5. Sees(t, "approval_requests", latest).status # "pending"
  BY <1>1 DEF LatestTermination
<1> HIDE DEF latest
<1>6. /\ latest \in ApprovalIds /\ latest \in Nat /\ a \in Nat /\ a <= latest
      /\ Approval(latest).lease = l /\ Approval(latest).status # "pending"
      /\ Approval(latest).type = "lease_termination"
  BY <1>1, <1>2, <1>4, <1>5 DEF Sees, Approval
<1>7. Approval(latest) # NoApproval
  BY <1>6, LeaseAssumption DEF NoApproval
<1>8. a < latest
  BY <1>6
<1> QED BY <1>6, <1>7, <1>8 DEF LatestWaits

\* A decision leaves fewer requests waiting, and nothing else that others do
\* in one statement touches them, unless it enters one.
LEMMA DecisionAsked ==
  ASSUME Typed, AskedOnce, SettlesOther, ~ApprovalEntered
  PROVE  AskedOnce'
<1>1. ASSUME NEW a \in ApprovalIds
      PROVE  /\ Approval(a)' = NoApproval <=> Approval(a) = NoApproval
             /\ Approval(a)'.lease = Approval(a).lease
             /\ Approval(a)'.type = Approval(a).type
             /\ Approval(a)'.status = "pending" => Approval(a).status = "pending"
             /\ owner.approval_requests[a] # Nil =>
                  dirty'.approval_requests[a] = dirty.approval_requests[a]
  <2>1. CASE TableStays("approval_requests")
    BY <2>1 DEF TableStays, Approval
  <2>2. ASSUME NEW b \in ApprovalIds,
               NEW status \in {"approved", "rejected", "cancelled"},
               db.approval_requests[b].status = "pending",
               owner.approval_requests[b] = Nil,
               db'.approval_requests = [db.approval_requests EXCEPT ![b] =
                 [db.approval_requests[b] EXCEPT !.status = status]],
               dirty'.approval_requests = [dirty.approval_requests EXCEPT ![b] =
                 [db.approval_requests[b] EXCEPT !.status = status]]
        PROVE  /\ Approval(a)' = NoApproval <=> Approval(a) = NoApproval
               /\ Approval(a)'.lease = Approval(a).lease
               /\ Approval(a)'.type = Approval(a).type
               /\ Approval(a)'.status = "pending" => Approval(a).status = "pending"
               /\ owner.approval_requests[a] # Nil =>
                    dirty'.approval_requests[a] = dirty.approval_requests[a]
    <3> DEFINE row == [db.approval_requests[b] EXCEPT !.status = status]
    <3>1. /\ row.status = status /\ row.lease = Approval(b).lease
          /\ row.type = Approval(b).type
      BY DEF Typed, StorageTypeOK, Tables, ApprovalRow, Approval
    <3>2. /\ Approval(a)' = IF a = b THEN row ELSE Approval(a)
          /\ a # b => dirty'.approval_requests[a] = dirty.approval_requests[a]
      BY <2>2 DEF Typed, StorageTypeOK, Tables, Approval
    <3> HIDE DEF row
    <3> QED BY <2>2, <3>1, <3>2 DEF NoApproval, Approval
  <2>3. \/ TableStays("approval_requests")
        \/ \E b \in ApprovalIds, status \in {"approved", "rejected", "cancelled"} :
             /\ db.approval_requests[b].status = "pending"
             /\ owner.approval_requests[b] = Nil
             /\ db'.approval_requests = [db.approval_requests EXCEPT ![b] =
                  [db.approval_requests[b] EXCEPT !.status = status]]
             /\ dirty'.approval_requests = [dirty.approval_requests EXCEPT ![b] =
                  [db.approval_requests[b] EXCEPT !.status = status]]
    <3>1. CASE ApprovalDecided
      BY <3>1 DEF ApprovalDecided, RowSettled
    <3>2. CASE BillSettled \/ UnitEntered
      BY <3>2 DEF SettlesOther, BillSettled, UnitEntered, RowSettled, TableStays, TableName
    <3> QED BY <3>1, <3>2 DEF SettlesOther
  <2> QED BY <2>1, <2>2, <2>3
<1>2. pc' = pc /\ req' = req /\ owner' = owner
  BY DEF SettlesOther
<1>3. LatestWaits'
  BY <1>1 DEF AskedOnce, LatestWaits
<1>4. ASSUME NEW t \in Tx PROVE AsksOnce(t)'
  <2>1. \A l : NonePending(l) => NonePending(l)'
    BY <1>1 DEF NonePending
  <2>2. AsksOnce(t)
    BY DEF AskedOnce
  <2>3. \A a \in ApprovalIds : owner.approval_requests[a] = t =>
          dirty'.approval_requests[a] = dirty.approval_requests[a]
    BY <1>1, NilAssumption
  <2>4. \A b \in ApprovalIds : Approval(b)' = NoApproval => Approval(b) = NoApproval
    BY <1>1
  <2> QED BY <1>2, <2>1, <2>2, <2>3, <2>4 DEF AsksOnce
<1> QED BY <1>3, <1>4 DEF AskedOnce

\* A transaction that commits publishes the latest request.
LEMMA CommitAsked ==
  ASSUME Typed, ApprovalsSound, LatestWaits, NEW t \in Tx, AsksOnce(t),
         TableEnds(t, "approval_requests"), CommitTx(t)
  PROVE  LatestWaits'
<1>1. ASSUME NEW a \in ApprovalIds
      PROVE  /\ a \in Nat
             /\ owner.approval_requests[a] = t =>
                  /\ Approval(a) = NoApproval
                  /\ Approval(a)' = dirty.approval_requests[a]
                  /\ Approval(a)' # NoApproval
                  /\ \A b \in ApprovalIds : Approval(b) = NoApproval => a <= b
                  /\ Approval(a)'.type = "lease_termination" =>
                       NonePending(Approval(a)'.lease)
             /\ owner.approval_requests[a] # t => Approval(a)' = Approval(a)
  <2>1. a \in Nat /\ DOMAIN db["approval_requests"] = ApprovalIds
    BY LeaseAssumption, StorageTabular DEF Typed
  <2>2. Approval(a)' = IF owner.approval_requests[a] = t
                         THEN dirty.approval_requests[a] ELSE Approval(a)
    BY <2>1 DEF TableEnds, Approval
  <2>3. owner.approval_requests[a] = t => Approval(a) = NoApproval
    BY DEF ApprovalsSound, ApprovalLocks, Approval
  <2> QED BY <2>1, <2>2, <2>3 DEF AsksOnce
<1>2. ASSUME NEW a \in ApprovalIds, NEW b \in ApprovalIds, a < b,
             Approval(b)' # NoApproval
      PROVE  Approval(a) # NoApproval /\ Approval(a)' = Approval(a)
  <2>1. Approval(a) # NoApproval
    <3>1. CASE owner.approval_requests[b] = t
      <4>1. Approval(a) = NoApproval => b <= a
        BY <1>1, <3>1
      <4>2. a \in Nat /\ b \in Nat
        BY <1>1
      <4> QED BY <1>2, <4>1, <4>2
    <3>2. CASE owner.approval_requests[b] # t
      <4>1. Approval(b) # NoApproval
        BY <1>1, <1>2, <3>2
      <4> QED BY <1>2, <4>1 DEF LatestWaits
    <3> QED BY <3>1, <3>2
  <2> QED BY <1>1, <2>1
<1>3. ASSUME NEW a \in ApprovalIds, NEW b \in ApprovalIds, a < b,
             Approval(b)' # NoApproval, Approval(a)'.lease = Approval(b)'.lease,
             Approval(a)'.type = "lease_termination",
             Approval(b)'.type = "lease_termination"
      PROVE  Approval(a)'.status # "pending"
  <2>1. Approval(a)' = Approval(a)
    BY <1>2, <1>3
  <2>2. CASE owner.approval_requests[b] = t
    <3>1. NonePending(Approval(b)'.lease)
      BY <1>1, <1>3, <2>2
    <3> QED BY <1>3, <2>1, <3>1 DEF NonePending
  <2>3. CASE owner.approval_requests[b] # t
    <3>1. Approval(b)' = Approval(b)
      BY <1>1, <2>3
    <3>2. /\ Approval(b) # NoApproval /\ Approval(a).lease = Approval(b).lease
          /\ Approval(a).type = "lease_termination"
          /\ Approval(b).type = "lease_termination"
      BY <1>3, <2>1, <3>1
    <3>3. Approval(a).status # "pending"
      BY <1>3, <3>2 DEF LatestWaits
    <3> QED BY <2>1, <3>3
  <2> QED BY <2>2, <2>3
<1>4. ASSUME NEW a \in ApprovalIds, NEW b \in ApprovalIds, a < b,
             Approval(b)' # NoApproval
      PROVE  Approval(a)' # NoApproval
  BY <1>2, <1>4
<1> QED BY <1>3, <1>4 DEF LatestWaits

\* What t does while nobody else runs.
LEMMA StepAsked ==
  ASSUME Typed, Typed', ApprovalsSound, AskedOnce, NEW t \in Tx, StepKind(t),
         \A a \in ApprovalIds : owner.approval_requests[a] \in {Nil, t}
  PROVE  LatestWaits' /\ AsksOnce(t)'
<1> DEFINE tab == "approval_requests"
<1>1. /\ StorageTypeOK /\ tab \in TableName /\ RequestOK(t)
      /\ DOMAIN db[tab] = ApprovalIds /\ LatestWaits /\ AsksOnce(t)
  BY TypedLeases, StorageTabular DEF TableName, AskedOnce
<1>2. pc[t] # "commit" => \A a \in ApprovalIds : owner.approval_requests[a] # t
  BY DEF ApprovalsSound, ApprovalLocks
<1>3. ASSUME TableStays(tab)
      PROVE  /\ LatestWaits' /\ \A l : NonePending(l)' <=> NonePending(l)
             /\ owner'.approval_requests = owner.approval_requests
  BY <1>1, <1>3 DEF TableStays, LatestWaits, NonePending, Approval
<1>4. CASE Begun(t)
  <2>1. TableStays(tab) /\ pc[t] = "idle"
    BY <1>1, <1>4, OnlyTouches DEF Begun
  <2>2. \A a \in ApprovalIds : owner.approval_requests[a] # t
    BY <1>2, <2>1
  <2>3. ASSUME pc'[t] = "insert_approval"
        PROVE  /\ req'[t].op = "deposit_refund" => req'[t].type = "deposit_refund"
               /\ req'[t].op = "terminate" => NonePending(req'[t].lease)
    <3>1. /\ req'[t].op = "deposit_refund" => req'[t].type = "deposit_refund"
          /\ req'[t].op = "terminate" =>
               /\ LatestTermination(t, req'[t].lease) # "pending"
               /\ req'[t].lease \in LeaseIds
      BY <1>4, <2>3 DEF Begun, To
    <3> QED BY <1>1, <2>2, <3>1, LatestDecided
  <2> QED BY <1>3, <2>1, <2>2, <2>3 DEF AsksOnce
<1>5. CASE \/ InsertsLease(t) \/ EditsLease(t) \/ MovesLease(t)
           \/ ChangesParty(t) \/ ChangesUnit(t) \/ BillsNext(t) \/ BillsNoMore(t)
  <2>1. TableStays(tab)
    BY <1>1, <1>5, OnlyTouches
  <2>2. pc[t] # "commit" /\ pc'[t] # "insert_approval"
    BY <1>5 DEF InsertsLease, EditsLease, MovesLease, ChangesParty, ChangesUnit,
       BillsNext, BillsNoMore, Goes
  <2> QED BY <1>2, <1>3, <2>1, <2>2 DEF AsksOnce
<1>6. CASE AsksApproval(t)
  <2>1. PICK a \in ApprovalIds :
          /\ \A b \in ApprovalIds : dirty.approval_requests[b] = NoApproval => a <= b
          /\ WritesRow(t, tab, a, [status |-> "pending", lease |-> req[t].lease,
                                   type |-> req[t].type])
    BY <1>6 DEF AsksApproval
  <2>2. /\ pc[t] = "insert_approval" /\ pc'[t] = "commit"
        /\ req[t].op \in {"terminate", "deposit_refund"}
    BY <1>6 DEF AsksApproval, Goes
  <2>3. \A b \in ApprovalIds : dirty.approval_requests[b] = Approval(b)
    <3>1. \A b \in ApprovalIds : owner.approval_requests[b] = Nil
      BY <1>2, <2>2
    <3>2. DirtyIsCommitted /\ tab \in DOMAIN owner /\ DOMAIN owner[tab] = ApprovalIds
      BY <1>1 DEF Typed, StorageTypeOK, LocksOK, TableName
    <3> QED BY <3>1, <3>2 DEF DirtyIsCommitted, Approval
  <2> DEFINE row == [status |-> "pending", lease |-> req[t].lease, type |-> req[t].type]
  <2>4. /\ row # NoApproval
        /\ row.type = "lease_termination" => NonePending(row.lease)
    <3>1. row.type = "lease_termination" => req[t].op = "terminate"
      BY <1>1, <2>2 DEF AsksOnce
    <3> QED BY <1>1, <2>2, <3>1 DEF AsksOnce, NoApproval
  <2>5. WritesRow(t, tab, a, row)
    BY <2>1
  <2> HIDE DEF row
  <2>6. /\ db' = db
        /\ \A b \in ApprovalIds :
             owner'.approval_requests[b] = t =>
               b = a /\ dirty'.approval_requests[b] = row
    <3>1. \A b \in ApprovalIds : owner.approval_requests[b] # t
      BY <1>2, <2>2
    <3>2. /\ db' = db
          /\ \A b \in ApprovalIds \ {a} : owner'.approval_requests[b] # t
          /\ dirty'.approval_requests[a] = row
      BY <1>1, <2>5, <3>1 DEF WritesRow, StorageTypeOK, LocksOK, Tables
    <3> QED BY <3>2
  <2>7. LatestWaits' /\ \A l : NonePending(l) => NonePending(l)'
    BY <1>1, <2>6 DEF LatestWaits, NonePending, Approval
  <2>8. \A b \in ApprovalIds : Approval(b)' = NoApproval => a <= b
    BY <2>1, <2>3, <2>6 DEF Approval
  <2> QED BY <2>2, <2>4, <2>6, <2>7, <2>8 DEF AsksOnce
<1>7. CASE Ends(t)
  <2>1. /\ TableEnds(t, tab) /\ pc'[t] = "idle"
        /\ (CommitTx(t) /\ pc[t] = "commit") \/ RollbackTx(t)
    BY <1>1, <1>7, OnlyTouches DEF Ends
  <2>2. AsksOnce(t)'
    BY <1>1, <2>1, NilAssumption DEF TableEnds, AsksOnce
  <2>3. LatestWaits'
    <3>1. CASE CommitTx(t)
      BY <1>1, <2>1, <3>1, CommitAsked
    <3>2. CASE RollbackTx(t)
      BY <1>1, <2>1, <3>2 DEF TableEnds, LatestWaits, Approval
    <3> QED BY <2>1, <3>1, <3>2
  <2> QED BY <2>2, <2>3
<1> QED BY <1>4, <1>5, <1>6, <1>7 DEF StepKind

\* A step while requests are handled one at a time.
LEMMA AskedNext ==
  ASSUME Sound, Sound', ApprovalsSound, AskedOnce, [Next]_vars,
         OneRunning, OneRunning', ~Submitted
  PROVE  AskedOnce'
<1>1. /\ Typed /\ Typed' /\ DOMAIN db["approval_requests"] = ApprovalIds
      /\ "approval_requests" \in TableName
      /\ pc \in [Tx -> Statement]
      /\ \A a \in ApprovalIds : owner.approval_requests[a] \in Tx \cup {Nil}
  BY StorageTabular
     DEF Sound, Typed, ControlTypeOK, StorageTypeOK, LocksOK, TableName
<1>2. CASE UNCHANGED vars
  BY <1>2 DEF vars, AskedOnce, LatestWaits, AsksOnce, NonePending, Approval
<1>3. CASE SettlesOther
  <2>1. ~ApprovalEntered
    <3>1. ASSUME ApprovalEntered PROVE Submitted
      <4>1. PICK a \in ApprovalIds, row \in ApprovalRow :
              /\ dirty.approval_requests[a] = NoApproval /\ row # NoApproval
              /\ RowSettled("approval_requests", a, row)
        BY <3>1 DEF ApprovalEntered
      <4>2. db'.approval_requests[a] = row
        BY <1>1, <4>1 DEF RowSettled, Typed, StorageTypeOK, Tables
      <4> QED BY <4>1, <4>2 DEF Submitted
    <3> QED BY <3>1
  <2> QED BY <1>1, <1>3, <2>1, DecisionAsked
<1>4. ASSUME NEW t \in Tx, StepKind(t) PROVE AskedOnce'
  <2>1. ASSUME NEW x \in Tx \ {t}
        PROVE  /\ pc[x] = "idle" /\ pc'[x] = "idle"
               /\ \A a \in ApprovalIds : /\ owner.approval_requests[a] # x
                                         /\ owner'.approval_requests[a] # x
    <3>1. /\ pc'[x] = pc[x]
          /\ \A a \in ApprovalIds :
               owner'.approval_requests[a] = x <=> owner.approval_requests[a] = x
      BY <1>1, <1>4, RowsOfOthers
    <3>2. pc[t] # "idle" \/ pc'[t] # "idle"
      BY <1>4 DEF StepKind, Begun, InsertsLease, EditsLease, MovesLease,
         ChangesParty, ChangesUnit, BillsNext, BillsNoMore, AsksApproval, Ends
    <3>3. pc[x] = "idle"
      BY <3>1, <3>2 DEF OneRunning
    <3>4. \A a \in ApprovalIds : owner.approval_requests[a] # x
      BY <3>3 DEF ApprovalsSound, ApprovalLocks
    <3> QED BY <3>1, <3>3, <3>4
  <2>2. LatestWaits' /\ AsksOnce(t)'
    <3>1. \A a \in ApprovalIds : owner.approval_requests[a] \in {Nil, t}
      BY <1>1, <2>1
    <3> QED BY <1>1, <1>4, <3>1, StepAsked
  <2>3. ASSUME NEW x \in Tx \ {t} PROVE AsksOnce(x)'
    BY <2>1, <2>3 DEF AsksOnce
  <2> QED BY <2>2, <2>3 DEF AskedOnce
<1> QED BY <1>1, <1>2, <1>3, <1>4, StepCases DEF StepKind

\* While requests are handled one at a time, and clients enter no request for
\* approval themselves (CreateApprovalRequest looks for no other one), a lease
\* has one pending request to terminate it at most: TerminateLeaseContract
\* asks only when the latest one does not wait, and then no earlier one does
\* either.
THEOREM OneTerminationWaits ==
  Spec /\ []OneRunning /\ [][~Submitted]_vars => []OnePendingTermination
<1>1. Init => ApprovalsSound /\ AskedOnce
  <2> SUFFICES ASSUME Init PROVE ApprovalsSound /\ AskedOnce
    OBVIOUS
  <2>1. /\ \A t \in Tx : pc[t] = "idle"
        /\ \A a \in ApprovalIds : /\ owner.approval_requests[a] = Nil
                                  /\ Approval(a) = NoApproval
    <3>1. db.approval_requests = [a \in ApprovalIds |-> NoApproval]
      BY DEF Init
    <3> QED BY <3>1, InitFacts DEF Approval
  <2>2. ApprovalsSound /\ \A t \in Tx : AsksOnce(t)
    BY <2>1, NilAssumption DEF ApprovalsSound, ApprovalLocks, TerminationApproved, AsksOnce
  <2>3. LatestWaits
    BY <2>1 DEF LatestWaits
  <2> QED BY <2>2, <2>3 DEF AskedOnce
<1>2. Sound /\ Sound' /\ ApprovalsSound /\ [Next]_vars => ApprovalsSound'
  BY ApprovalsNext
<1>3. /\ Sound /\ Sound' /\ ApprovalsSound /\ AskedOnce /\ [Next]_vars
      /\ OneRunning /\ OneRunning' /\ [~Submitted]_vars
      => AskedOnce'
  <2>1. UNCHANGED vars /\ AskedOnce => AskedOnce'
    BY DEF vars, AskedOnce, LatestWaits, AsksOnce, NonePending, Approval
  <2> QED BY <2>1, AskedNext
<1>4. AskedOnce => OnePendingTermination
  BY LatestIsOne DEF AskedOnce
<1> QED BY <1>1, <1>2, <1>3, <1>4, SpecSound, PTL DEF Spec

\* The transactions that handle a request.
Running == {t \in Tx : pc[t] # "idle"}

\* With one client no more than one request is handled.
OneClient == OneAtATime => IsFiniteSet(Running) /\ Cardinality(Running) <= 1

\* A step starts or ends the requests of one transaction at most.
LEMMA NextClient ==
  ASSUME Typed, OneClient, [MCNext]_<<vars, load>>
  PROVE  OneClient'
<1> SUFFICES ASSUME OneAtATime'
             PROVE  IsFiniteSet(Running') /\ Cardinality(Running') <= 1
  BY DEF OneClient
<1>0. /\ load' = load /\ OneAtATime
      /\ IsFiniteSet(Running) /\ Cardinality(Running) <= 1
  BY DEF MCNext, OneClient, OneAtATime
<1>1. CASE UNCHANGED <<vars, load>>
  BY <1>0, <1>1 DEF vars, Running
<1>2. CASE MCNext
  <2>1. [Next]_vars
    BY <1>2 DEF MCNext
  <2>2. CASE UNCHANGED vars \/ SettlesOther
    BY <1>0, <2>2 DEF vars, SettlesOther, Running
  <2>3. ASSUME NEW t \in Tx, StepKind(t)
        PROVE  IsFiniteSet(Running')
    <3>1. \A x \in Tx \ {t} : pc'[x] = pc[x]
      BY <2>3, RowsOfOthers
    <3>2. Running' \subseteq Running \cup {t}
      BY <3>1 DEF Running
    <3> QED BY <1>0, <3>2, FS_AddElement, FS_Subset
  <2>4. IsFiniteSet(Running')
    BY <1>0, <2>1, <2>2, <2>3, StepCases DEF StepKind
  <2>5. Cardinality(Running') <= 1
    BY <1>0, <1>2 DEF MCNext, Within, Running, OneAtATime
  <2> QED BY <2>4, <2>5
<1> QED BY <1>1, <1>2

\* With one client, who enters no request for approval, a lease has one
\* pending request to terminate it at most.
THEOREM SeriallyOneTerminationWaits == MCSpec => []SeriallyOnePendingTermination
<1> DEFINE entered == "submit_approval" \in load.ops
<1>1. MCInit => Init /\ OneClient
  <2> SUFFICES ASSUME MCInit PROVE OneClient
    BY DEF MCInit
  <2>1. Running = {}
    BY DEF MCInit, Init, Running
  <2> QED BY <2>1, FS_EmptySet DEF OneClient
<1>2. Sound /\ OneClient /\ [MCNext]_<<vars, load>> => OneClient'
  BY NextClient DEF Sound
<1>3. OneClient => (OneAtATime => OneRunning)
  BY AtMostOne DEF OneClient, OneRunning, Running
<1>4. [MCNext]_<<vars, load>> =>
        /\ [Next]_vars /\ (OneAtATime <=> OneAtATime') /\ (entered <=> entered')
        /\ entered \/ [~Submitted]_vars
  BY DEF MCNext, OneAtATime
<1>5. SeriallyOnePendingTermination <=> (OneAtATime /\ ~entered => OnePendingTermination)
  BY DEF SeriallyOnePendingTermination
<1> HIDE DEF entered
<1> QED BY <1>1, <1>2, <1>3, <1>4, <1>5, SpecSound, OneTerminationWaits, PTL
        DEF Spec, MCSpec

-----------------------------------------------------------------------------
(***************************************************************************)
(* The bills a lease's term is cut into, for leases of any dates,          *)
(* intervals and rents.                                                    *)
(***************************************************************************)
\* The days of a month that is counted from year 0.
DaysOf(index) == LastDay(index \div 12, (index % 12) + 1)

\* A month has 28 to 31 days.
LEMMA MonthsHaveDays ==
  ASSUME NEW index \in Nat
  PROVE  DaysOf(index) \in 28..31
BY DEF DaysOf, LastDay

\* A day of a month is a date in that month.
LEMMA DayInMonth ==
  ASSUME NEW index \in Nat, NEW day \in 1..DaysOf(index)
  PROVE  /\ IsDate(InMonth(index, day))
         /\ MonthIndex(InMonth(index, day)) = index
         /\ InMonth(index, day)[3] = day
<1>1. DaysOf(index) \in 28..31
  BY MonthsHaveDays
<1>2. /\ index \div 12 \in Nat /\ (index % 12) + 1 \in 1..12
      /\ ((index \div 12) * 12) + (index % 12) = index
  OBVIOUS
<1>3. /\ InMonth(index, day)[1] = index \div 12
      /\ InMonth(index, day)[2] = (index % 12) + 1
      /\ InMonth(index, day)[3] = day
  BY DEF InMonth
<1>4. InMonth(index, day) \in Nat \X (1..12) \X (1..31)
  BY <1>1, <1>2 DEF InMonth
<1>5. day <= LastDay(index \div 12, (index % 12) + 1)
  BY <1>1 DEF DaysOf
<1>6. IsDate(InMonth(index, day))
  BY <1>3, <1>4, <1>5 DEF IsDate
<1>7. MonthIndex(InMonth(index, day)) = index
  BY <1>2, <1>3 DEF MonthIndex
<1> QED BY <1>3, <1>6, <1>7

\* Every date is a day of its month.
LEMMA DateInMonth ==
  ASSUME NEW date, IsDate(date)
  PROVE  /\ MonthIndex(date) \in Nat
         /\ date[3] \in 1..DaysOf(MonthIndex(date))
         /\ date[3] \in 1..31
         /\ date = InMonth(MonthIndex(date), date[3])
<1> DEFINE y == date[1]
           mo == date[2]
           d == date[3]
<1>1. y \in Nat /\ mo \in 1..12 /\ d \in 1..31 /\ date = <<y, mo, d>> /\ d <= LastDay(y, mo)
  BY DEF IsDate
<1>2. MonthIndex(date) = (y * 12) + mo - 1
  BY DEF MonthIndex
<1> HIDE DEF y, mo, d
<1>3. /\ MonthIndex(date) \in Nat
      /\ MonthIndex(date) \div 12 = y /\ (MonthIndex(date) % 12) + 1 = mo
  BY <1>1, <1>2
<1>4. LastDay(y, mo) = DaysOf(MonthIndex(date))
  BY <1>3 DEF DaysOf
<1>5. LastDay(y, mo) \in 28..31
  BY <1>3, <1>4, MonthsHaveDays
<1>6. d \in 1..DaysOf(MonthIndex(date))
  BY <1>1, <1>4, <1>5
<1>7. date = InMonth(MonthIndex(date), d)
  BY <1>1, <1>3 DEF InMonth
<1> QED BY <1>1, <1>3, <1>6, <1>7 DEF d

\* The earlier date is in an earlier month, or in the same on an earlier day.
LEMMA BeforeByMonth ==
  ASSUME NEW one, IsDate(one), NEW two, IsDate(two)
  PROVE  Before(one, two) <=>
           \/ MonthIndex(one) < MonthIndex(two)
           \/ MonthIndex(one) = MonthIndex(two) /\ one[3] < two[3]
<1>1. /\ one[1] \in Nat /\ one[2] \in 1..12 /\ one[3] \in 1..31
      /\ two[1] \in Nat /\ two[2] \in 1..12 /\ two[3] \in 1..31
  BY DEF IsDate
<1> DEFINE y1 == one[1]
           m1 == one[2]
           d1 == one[3]
           y2 == two[1]
           m2 == two[2]
           d2 == two[3]
<1>2. /\ MonthIndex(one) = (y1 * 12) + m1 - 1 /\ MonthIndex(two) = (y2 * 12) + m2 - 1
      /\ Before(one, two) <=> (y1 * 10000) + (m1 * 100) + d1 < (y2 * 10000) + (m2 * 100) + d2
      /\ one[3] = d1 /\ two[3] = d2
  BY DEF Before, Ordinal, MonthIndex
<1>3. /\ y1 \in Nat /\ m1 \in 1..12 /\ d1 \in 1..31
      /\ y2 \in Nat /\ m2 \in 1..12 /\ d2 \in 1..31
  BY <1>1
<1> HIDE DEF y1, m1, d1, y2, m2, d2
<1>4. (y1 * 10000) + (m1 * 100) + d1 < (y2 * 10000) + (m2 * 100) + d2
               <=> \/ (y1 * 12) + m1 - 1 < (y2 * 12) + m2 - 1
                   \/ (y1 * 12) + m1 - 1 = (y2 * 12) + m2 - 1 /\ d1 < d2
  <2>1. CASE y1 < y2
    BY <1>3, <2>1
  <2>2. CASE y1 > y2
    BY <1>3, <2>2
  <2>3. CASE y1 = y2
    BY <1>3, <2>3
  <2> QED BY <1>3, <2>1, <2>2, <2>3
<1> QED BY <1>2, <1>4

\* Dates neither of which is earlier are the same.
LEMMA SameDate ==
  ASSUME NEW one, IsDate(one), NEW two, IsDate(two),
         ~Before(one, two), ~Before(two, one)
  PROVE  one = two
<1>1. MonthIndex(one) = MonthIndex(two) /\ one[3] = two[3]
  BY BeforeByMonth, DateInMonth
<1> QED BY <1>1, DateInMonth

\* addMonthsClamped goes that many months on, to the same day if there is one.
LEMMA MonthsAdded ==
  ASSUME NEW date, IsDate(date), NEW months \in Nat
  PROVE  LET later == addMonthsClamped(date, months)
         IN /\ IsDate(later)
            /\ MonthIndex(later) = MonthIndex(date) + months
            /\ months = 0 => later = date
<1> DEFINE index == MonthIndex(date) + months
           day == IF date[3] <= DaysOf(index) THEN date[3] ELSE DaysOf(index)
<1>1. index \in Nat /\ date[3] \in 1..31
  BY DateInMonth
<1>2. DaysOf(index) \in 28..31
  BY <1>1, MonthsHaveDays
<1>3. day \in 1..DaysOf(index)
  BY <1>1, <1>2
<1>4. addMonthsClamped(date, months) = InMonth(index, day)
  BY DEF addMonthsClamped, DaysOf
<1>5. months = 0 => index = MonthIndex(date) /\ day = date[3]
  BY DateInMonth
<1> HIDE DEF index, day
<1>6. IsDate(InMonth(index, day)) /\ MonthIndex(InMonth(index, day)) = index
  BY <1>1, <1>3, DayInMonth
<1> QED BY <1>4, <1>5, <1>6, DateInMonth DEF index

\* Nothing lies between a date and the day before it.
LEMMA NothingBetween ==
  ASSUME NEW date, IsDate(date), MonthIndex(date) > 0
  PROVE  /\ IsDate(DayBefore(date))
         /\ Before(DayBefore(date), date)
         /\ \A other : IsDate(other) /\ Before(other, date)
                         => ~Before(DayBefore(date), other)
<1> DEFINE eve == DayBefore(date)
           index == MonthIndex(date)
<1>1. index \in Nat /\ date[3] \in 1..DaysOf(index) /\ date[3] \in 1..31
  BY DateInMonth
<1>2. CASE date[3] > 1
  <2>1. eve = InMonth(index, date[3] - 1)
    <3>1. date = InMonth(index, date[3])
      BY DateInMonth
    <3> QED BY <1>2, <3>1 DEF DayBefore, InMonth
  <2>2. date[3] - 1 \in 1..DaysOf(index)
    BY <1>1, <1>2, MonthsHaveDays
  <2>3. IsDate(eve) /\ MonthIndex(eve) = index /\ eve[3] = date[3] - 1
    BY <1>1, <2>1, <2>2, DayInMonth
  <2> HIDE DEF eve, index
  <2> QED
    BY <1>1, <2>3, BeforeByMonth, DateInMonth DEF eve, index
<1>3. CASE date[3] = 1
  <2>1. eve = InMonth(index - 1, DaysOf(index - 1))
    BY <1>3 DEF DayBefore, DaysOf
  <2>2. index - 1 \in Nat /\ DaysOf(index - 1) \in 28..31
    BY <1>1, MonthsHaveDays
  <2>3. /\ IsDate(eve) /\ MonthIndex(eve) = index - 1
        /\ eve[3] = DaysOf(index - 1)
    BY <2>1, <2>2, DayInMonth
  <2>4. Before(eve, date)
    BY <1>1, <2>2, <2>3, BeforeByMonth
  <2>5. ASSUME NEW other, IsDate(other), Before(other, date)
        PROVE  ~Before(eve, other)
    <3>1. MonthIndex(other) \in Nat /\ other[3] \in 1..DaysOf(MonthIndex(other))
      BY <2>5, DateInMonth
    <3>2. MonthIndex(other) <= index - 1
      BY <1>1, <1>3, <2>5, <3>1, BeforeByMonth, MonthsHaveDays
    <3> QED BY <2>2, <2>3, <2>5, <3>1, <3>2, BeforeByMonth, MonthsHaveDays
  <2> QED BY <2>3, <2>4, <2>5
<1> QED BY <1>1, <1>2, <1>3

\* The periods are as many as it takes to come to the last month.
LEMMA PeriodsSuffice ==
  ASSUME NEW total \in Nat \ {0}, NEW interval \in Nat \ {0},
         NEW periods, periods = (total + interval - 1) \div interval
  PROVE  /\ periods \in Nat \ {0}
         /\ (periods - 1) * interval <= total - 1
         /\ periods * interval >= total
<1>1. /\ periods \in Int
      /\ periods * interval <= total + interval - 1
      /\ total + interval - 1 < (periods + 1) * interval
  OBVIOUS
<1> QED BY <1>1
-----------------------------------------------------------------------------
(***************************************************************************)
(* Periods and due dates.                                                  *)
(***************************************************************************)

\* Dates are compared as numbers are.
LEMMA DatesAreNumbered ==
  ASSUME NEW date, IsDate(date)
  PROVE  Ordinal(date) \in Nat
<1>1. date[1] \in Nat /\ date[2] \in 1..12 /\ date[3] \in 1..31
  BY DEF IsDate
<1> QED BY <1>1 DEF Ordinal

IsTerm == lease \in Lease /\ ~Before(lease.end, lease.start)

\* What a lease's dates and interval are, and how many periods come of them.
LEMMA TermHasPeriods ==
  ASSUME IsTerm
  PROVE  /\ IsDate(lease.start) /\ IsDate(lease.end) /\ IsDate(lease.anchor)
         /\ lease.rent \in Nat /\ lease.advance \in Nat
         /\ leaseIntervalMonths \in Nat \ {0}
         /\ Periods \in Nat \ {0}
         /\ (Periods - 1) * leaseIntervalMonths
              <= MonthIndex(lease.end) - MonthIndex(lease.start)
         /\ Periods * leaseIntervalMonths
              > MonthIndex(lease.end) - MonthIndex(lease.start)
<1>1. /\ lease.start \in StartDates /\ lease.end \in EndDates /\ lease.anchor \in StartDates
      /\ lease.interval \in Intervals
      /\ lease.rent \in Rents /\ lease.advance \in Advances
  BY DEF IsTerm, Lease
<1>2. /\ IsDate(lease.start) /\ IsDate(lease.end) /\ IsDate(lease.anchor)
      /\ lease.rent \in Nat /\ lease.advance \in Nat
  BY <1>1, BillingAssumption
<1>3. leaseIntervalMonths \in Nat \ {0}
  <2>1. lease.interval \in (Nat \ {0}) \X {"month", "quarter", "semi_year", "year"}
    BY <1>1, BillingAssumption
  <2>2. lease.interval[1] \in Nat \ {0}
    BY <2>1
  <2> DEFINE value == lease.interval[1]
             unit == lease.interval[2]
  <2>3. leaseIntervalMonths \in {value * 1, value * 3, value * 6, value * 12}
    BY DEF leaseIntervalMonths
  <2> HIDE DEF value
  <2> QED BY <2>2, <2>3 DEF value
<1> DEFINE total == monthsBetween(lease.start, lease.end) + 1
<1>4. /\ MonthIndex(lease.start) \in Nat /\ MonthIndex(lease.end) \in Nat
      /\ total = MonthIndex(lease.end) - MonthIndex(lease.start) + 1
  BY <1>2, DateInMonth DEF monthsBetween
<1>5. total \in Nat \ {0}
  BY <1>2, <1>4, BeforeByMonth DEF IsTerm
<1>6. Periods = (total + leaseIntervalMonths - 1) \div leaseIntervalMonths
  BY DEF Periods
<1> HIDE DEF total
<1>7. /\ Periods \in Nat \ {0}
      /\ (Periods - 1) * leaseIntervalMonths <= total - 1
      /\ Periods * leaseIntervalMonths >= total
  BY <1>3, <1>5, <1>6, PeriodsSuffice
<1>8. /\ (Periods - 1) * leaseIntervalMonths \in Int
      /\ Periods * leaseIntervalMonths \in Int
  BY <1>3, <1>7
<1> QED BY <1>2, <1>3, <1>4, <1>5, <1>7, <1>8

\* Products with the interval grow with the other factor.
LEMMA IntervalsAdd ==
  ASSUME NEW interval \in Nat \ {0}, NEW m \in Nat, NEW n \in Nat
  PROVE  /\ n * interval \in Nat /\ m * interval \in Nat
         /\ m < n => m * interval < n * interval
         /\ m <= n => m * interval <= n * interval
         /\ (n + 1) * interval = (n * interval) + interval
         /\ 0 * interval = 0
<1>1. n * interval \in Nat /\ m * interval \in Nat /\ 0 * interval = 0
  OBVIOUS
<1>2. (n + 1) * interval = (n * interval) + interval
  OBVIOUS
<1>3. m < n => m * interval < n * interval
  <2> SUFFICES ASSUME m < n PROVE m * interval < n * interval
    OBVIOUS
  <2> DEFINE d == n - m
  <2>1. d \in Nat \ {0} /\ n = m + d
    OBVIOUS
  <2> HIDE DEF d
  <2>2. n * interval = (m * interval) + (d * interval)
    BY <2>1
  <2>3. d * interval > 0 /\ d * interval \in Nat
    BY <2>1
  <2> QED BY <1>1, <2>2, <2>3
<1> QED BY <1>1, <1>2, <1>3

\* The n-th date counted from another, an interval apart, is later for larger n.
LEMMA IntervalsApart ==
  ASSUME NEW date, IsDate(date), NEW interval \in Nat \ {0},
         NEW m \in Nat, NEW n \in Nat, m < n
  PROVE  Before(addMonthsClamped(date, m * interval),
                addMonthsClamped(date, n * interval))
<1> DEFINE one == addMonthsClamped(date, m * interval)
           two == addMonthsClamped(date, n * interval)
<1>1. /\ m * interval \in Nat /\ n * interval \in Nat
      /\ m * interval < n * interval
  BY IntervalsAdd
<1>2. /\ IsDate(one) /\ MonthIndex(one) = MonthIndex(date) + (m * interval)
      /\ IsDate(two) /\ MonthIndex(two) = MonthIndex(date) + (n * interval)
  BY <1>1, MonthsAdded
<1>3. MonthIndex(date) \in Nat
  BY DateInMonth
<1> HIDE DEF one, two
<1>4. MonthIndex(one) < MonthIndex(two)
  BY <1>1, <1>2, <1>3
<1>5. Before(one, two)
  BY <1>2, <1>4, BeforeByMonth
<1> QED BY <1>5 DEF one, two

\* Periods start an interval apart, the first with the term.
LEMMA StartsOfPeriods ==
  ASSUME IsTerm, NEW n \in Nat
  PROVE  /\ IsDate(PeriodStart(n))
         /\ MonthIndex(PeriodStart(n))
              = MonthIndex(lease.start) + (n * leaseIntervalMonths)
         /\ n = 0 => PeriodStart(n) = lease.start
         /\ \A m \in Nat : m < n => Before(PeriodStart(m), PeriodStart(n))
<1>1. IsDate(lease.start) /\ leaseIntervalMonths \in Nat \ {0}
  BY TermHasPeriods
<1>2. n * leaseIntervalMonths \in Nat /\ 0 * leaseIntervalMonths = 0
  BY <1>1, IntervalsAdd
<1>3. /\ IsDate(PeriodStart(n))
      /\ MonthIndex(PeriodStart(n))
           = MonthIndex(lease.start) + (n * leaseIntervalMonths)
      /\ n = 0 => PeriodStart(n) = lease.start
  BY <1>1, <1>2, MonthsAdded DEF PeriodStart
<1>4. ASSUME NEW m \in Nat, m < n PROVE Before(PeriodStart(m), PeriodStart(n))
  BY <1>1, <1>4, IntervalsApart DEF PeriodStart
<1> QED BY <1>3, <1>4

\* All periods but the last start before the month the term ends in, and none
\* after the last could start in the term.
LEMMA StartsWithinTerm ==
  ASSUME IsTerm, NEW n \in Nat
  PROVE  /\ n < Periods - 1 => Before(PeriodStart(n), lease.end)
         /\ n >= Periods => /\ Before(lease.end, PeriodStart(n))
                            /\ MonthIndex(lease.end) < MonthIndex(PeriodStart(n))
<1> DEFINE interval == leaseIntervalMonths
           first == MonthIndex(lease.start)
           last == MonthIndex(lease.end)
<1>1. /\ IsDate(lease.start) /\ IsDate(lease.end) /\ interval \in Nat \ {0}
      /\ Periods \in Nat \ {0} /\ (Periods - 1) * interval <= last - first
      /\ Periods * interval > last - first
  BY TermHasPeriods
<1>2. first \in Nat /\ last \in Nat
  BY <1>1, DateInMonth
<1>3. IsDate(PeriodStart(n)) /\ MonthIndex(PeriodStart(n)) = first + (n * interval)
  BY StartsOfPeriods
<1> HIDE DEF interval, first, last
<1>4. ASSUME n < Periods - 1 PROVE Before(PeriodStart(n), lease.end)
  <2>1. Periods - 1 \in Nat
    BY <1>1
  <2>2. /\ n * interval < (Periods - 1) * interval
        /\ n * interval \in Nat /\ (Periods - 1) * interval \in Nat
    BY <1>1, <1>4, <2>1, IntervalsAdd
  <2>3. first + (n * interval) < last
    BY <1>1, <1>2, <2>2
  <2> QED BY <1>1, <1>3, <2>3, BeforeByMonth DEF last
<1>5. ASSUME n >= Periods
      PROVE  Before(lease.end, PeriodStart(n)) /\ last < MonthIndex(PeriodStart(n))
  <2>1. /\ n * interval >= Periods * interval
        /\ n * interval \in Nat /\ Periods * interval \in Nat
    BY <1>1, <1>5, IntervalsAdd
  <2>2. last < first + (n * interval)
    BY <1>1, <1>2, <2>1
  <2> QED BY <1>1, <1>3, <2>2, BeforeByMonth DEF last
<1> QED BY <1>4, <1>5 DEF last

\* A period ends the day before the next one starts, or with the term if that
\* is earlier; every one but the last has a day at least, and after the last
\* none is left.
LEMMA EndsOfPeriods ==
  ASSUME IsTerm, NEW n \in 0 .. Periods - 1
  PROVE  /\ IsDate(PeriodEnd(n))
         /\ Before(PeriodEnd(n), PeriodStart(n)) <=> Before(lease.end, PeriodStart(n))
         /\ n < Periods - 1 => ~Before(PeriodEnd(n), PeriodStart(n))
         /\ n < Periods - 1 =>
              PeriodEnd(n) = IF Before(lease.end, PeriodStart(n + 1))
                              THEN lease.end ELSE DayBefore(PeriodStart(n + 1))
         /\ n = Periods - 1 => PeriodEnd(n) = lease.end
<1> DEFINE this == PeriodStart(n)
           next == PeriodStart(n + 1)
           eve == DayBefore(next)
           end == lease.end
<1>1. /\ IsDate(lease.start) /\ IsDate(end) /\ leaseIntervalMonths \in Nat \ {0}
      /\ Periods \in Nat \ {0}
  BY TermHasPeriods
<1>2. n \in Nat /\ n + 1 \in Nat
  BY <1>1
<1>3. IsDate(this) /\ IsDate(next) /\ Before(this, next)
  BY <1>2, StartsOfPeriods
<1>4. MonthIndex(next) > 0
  <2>1. MonthIndex(lease.start) \in Nat
    BY <1>1, DateInMonth
  <2>2. (n + 1) * leaseIntervalMonths > 0 /\ (n + 1) * leaseIntervalMonths \in Nat
    <3>1. /\ (n + 1) * leaseIntervalMonths = (n * leaseIntervalMonths) + leaseIntervalMonths
          /\ n * leaseIntervalMonths \in Nat
      BY <1>1, <1>2, IntervalsAdd
    <3> QED BY <1>1, <3>1
  <2>3. MonthIndex(next) = MonthIndex(lease.start) + ((n + 1) * leaseIntervalMonths)
    BY <1>2, StartsOfPeriods
  <2> QED BY <2>1, <2>2, <2>3
<1>5. /\ IsDate(eve) /\ Before(eve, next) /\ ~Before(eve, this)
      /\ Before(end, next) => ~Before(eve, end)
  BY <1>1, <1>3, <1>4, NothingBetween
<1>6. PeriodEnd(n) = IF Before(eve, end) THEN eve ELSE end
  BY DEF PeriodEnd, Earlier
<1>7. /\ Ordinal(this) \in Nat /\ Ordinal(next) \in Nat
      /\ Ordinal(eve) \in Nat /\ Ordinal(end) \in Nat
  BY <1>1, <1>3, <1>5, DatesAreNumbered
<1>8. n < Periods - 1 => Before(this, end)
  BY <1>2, StartsWithinTerm
<1>9. n = Periods - 1 => Before(end, next)
  <2>1. n = Periods - 1 => n + 1 >= Periods
    BY <1>1
  <2> QED BY <1>2, <2>1, StartsWithinTerm
<1>13. IsDate(PeriodEnd(n))
  BY <1>1, <1>5, <1>6
<1> HIDE DEF this, next, eve, end
<1>10. Before(PeriodEnd(n), this) <=> Before(end, this)
  BY <1>5, <1>6, <1>7 DEF Before
<1>11. n < Periods - 1 => ~Before(PeriodEnd(n), this)
  BY <1>7, <1>8, <1>10 DEF Before
<1>12. PeriodEnd(n) = IF Before(end, next) THEN end ELSE eve
  <2>1. CASE Before(end, next)
    BY <1>5, <1>6, <2>1
  <2>2. CASE ~Before(end, next)
    <3>1. Before(eve, end)
      BY <1>5, <1>7, <2>2 DEF Before
    <3> QED BY <1>6, <2>2, <3>1
  <2> QED BY <2>1, <2>2
<1> QED BY <1>9, <1>11, <1>12, <1>13, <1>10 DEF this, next, eve, end

\* Bills fall due in the order of their periods, none before its period.
LEMMA DueDatesOrdered ==
  ASSUME IsTerm, NEW n \in Nat
  PROVE  /\ IsDate(DueDate(n))
         /\ ~Before(DueDate(n), PeriodStart(n))
         /\ \A m \in Nat : m < n => ~Before(DueDate(n), DueDate(m))
<1> DEFINE Anchor(k) == addMonthsClamped(lease.anchor, k * leaseIntervalMonths)
<1>1. IsDate(lease.anchor) /\ leaseIntervalMonths \in Nat \ {0}
  BY TermHasPeriods
<1>2. ASSUME NEW k \in Nat
      PROVE  /\ IsDate(Anchor(k)) /\ IsDate(PeriodStart(k))
             /\ Ordinal(Anchor(k)) \in Nat /\ Ordinal(PeriodStart(k)) \in Nat
             /\ DueDate(k) = IF Before(Anchor(k), PeriodStart(k))
                               THEN PeriodStart(k) ELSE Anchor(k)
  <2>1. k * leaseIntervalMonths \in Nat
    BY <1>1, IntervalsAdd
  <2>2. IsDate(Anchor(k)) /\ IsDate(PeriodStart(k))
    BY <1>1, <2>1, MonthsAdded, StartsOfPeriods
  <2>3. Ordinal(Anchor(k)) \in Nat /\ Ordinal(PeriodStart(k)) \in Nat
    BY <2>2, DatesAreNumbered
  <2> QED BY <2>2, <2>3 DEF DueDate, Later
<1>3. ASSUME NEW m \in Nat, m < n
      PROVE  Before(Anchor(m), Anchor(n)) /\ Before(PeriodStart(m), PeriodStart(n))
  BY <1>1, <1>3, IntervalsApart, StartsOfPeriods
<1> HIDE DEF Anchor
<1>4. ASSUME NEW m \in Nat, m < n PROVE ~Before(DueDate(n), DueDate(m))
  BY <1>2, <1>3, <1>4 DEF Before
<1>5. IsDate(DueDate(n)) /\ ~Before(DueDate(n), PeriodStart(n))
  BY <1>2 DEF Before
<1> QED BY <1>4, <1>5

-----------------------------------------------------------------------------
(***************************************************************************)
(* Amounts.                                                                *)
(***************************************************************************)

\* Twelfths are rounded to the nearest cent.
LEMMA RoundedTwelfths ==
  ASSUME NEW amount \in Nat
  PROVE  /\ roundRatToCents(amount, 12) \in Nat
         /\ 12 * roundRatToCents(amount, 12) <= amount + 6
         /\ amount < (12 * roundRatToCents(amount, 12)) + 6
<1>1. roundRatToCents(amount, 12) = ((2 * amount) + 12) \div 24
  BY DEF roundRatToCents
<1> QED BY <1>1

\* A year's rent that is cut into periods comes to itself, but for half a cent
\* for each of them.
LEMMA PartsMakeTheRent ==
  ASSUME NEW rent \in Nat, NEW part \in Nat, NEW others \in Nat,
         others * part <= 12 * rent,
         NEW bill \in Nat, 12 * bill <= part + 6, part < (12 * bill) + 6,
         NEW last \in Nat,
         12 * last <= (12 * rent) - (others * part) + 6,
         (12 * rent) - (others * part) < (12 * last) + 6
  PROVE  /\ 2 * ((others * bill) + last - rent) <= others + 1
         /\ 2 * (rent - ((others * bill) + last)) <= others + 1
<1> DEFINE parts == others * part
           bills == others * bill
<1>1. parts \in Nat /\ bills \in Nat
  OBVIOUS
<1>2. 12 * bills <= parts + (6 * others)
  <2>1. others * (12 * bill) <= others * (part + 6)
    OBVIOUS
  <2> QED BY <2>1
<1>3. parts <= (12 * bills) + (6 * others)
  <2>1. others * part <= others * ((12 * bill) + 6)
    OBVIOUS
  <2> QED BY <2>1
<1>4. /\ 12 * last <= (12 * rent) - parts + 6
      /\ (12 * rent) - parts < (12 * last) + 6
  OBVIOUS
<1> HIDE DEF parts, bills
<1>5. /\ 2 * (bills + last - rent) <= others + 1
      /\ 2 * (rent - (bills + last)) <= others + 1
  BY <1>1, <1>2, <1>3, <1>4
<1> QED BY <1>5 DEF bills
-----------------------------------------------------------------------------
(***************************************************************************)
(* The drafts so far.                                                      *)
(***************************************************************************)

\* The bills before those of the periods.
Ahead == IF lease.advance > 0 THEN 1 ELSE 0

OthersRent == (Periods - 1) * PeriodRent

\* The draft of period n.
RentBill(n) ==
  [start |-> PeriodStart(n), end |-> PeriodEnd(n), due |-> DueDate(n),
   amount |-> IF n = Periods - 1 THEN LastAmount((12 * lease.rent) - OthersRent)
                                 ELSE roundRatToCents(PeriodRent, 12),
   is_advance |-> FALSE]

\* There is a draft for the advance and one for each period so far, and what
\* has been charged is the rent of those before the last.
DraftsSoFar ==
  /\ IsTerm /\ DraftsTypeOK
  /\ cumulative = IF period = Periods THEN OthersRent ELSE period * PeriodRent
  /\ Len(drafts) = Ahead + period \/ (Len(drafts) = 0 /\ period = 0)
  /\ \A k \in DOMAIN drafts :
       IF k <= Ahead THEN drafts[k].is_advance
                     ELSE drafts[k] = RentBill(k - Ahead - 1)

\* The amounts of bills.
LEMMA AmountsOfBills ==
  ASSUME IsTerm
  PROVE  /\ PeriodRent \in Nat /\ OthersRent \in Nat
         /\ roundRatToCents(PeriodRent, 12) \in Nat
         /\ \A rest \in Int : LastAmount(rest) \in Nat
<1>1. /\ lease.rent \in Nat /\ leaseIntervalMonths \in Nat
      /\ Periods \in Nat \ {0}
  BY TermHasPeriods
<1>2. PeriodRent \in Nat
  BY <1>1 DEF PeriodRent
<1>3. OthersRent \in Nat
  BY <1>1, <1>2 DEF OthersRent
<1>4. ASSUME NEW rest \in Int PROVE LastAmount(rest) \in Nat
  BY RoundedTwelfths DEF LastAmount
<1> QED BY <1>2, <1>3, <1>4, RoundedTwelfths

\* A period's bill is a draft.
LEMMA BillIsDraft ==
  ASSUME IsTerm, NEW n \in 0 .. Periods - 1
  PROVE  RentBill(n) \in Draft
<1>1. Periods \in Nat \ {0} /\ lease.rent \in Nat
  BY TermHasPeriods
<1>2. IsDate(PeriodStart(n)) /\ IsDate(PeriodEnd(n)) /\ IsDate(DueDate(n))
  BY <1>1, StartsOfPeriods, EndsOfPeriods, DueDatesOrdered
<1>3. \A date : IsDate(date) => date \in Date
  BY DEF IsDate, Date
<1>4. RentBill(n).amount \in Nat
  <2>1. (12 * lease.rent) - OthersRent \in Int
    BY <1>1, AmountsOfBills
  <2> QED BY <2>1, AmountsOfBills DEF RentBill
<1> QED BY <1>2, <1>3, <1>4 DEF RentBill, Draft

\* As long as the lease is the same, so are its periods and bills.
LEMMA SameLease ==
  ASSUME lease' = lease
  PROVE  /\ IsTerm' = IsTerm /\ Periods' = Periods /\ Ahead' = Ahead
         /\ PeriodRent' = PeriodRent /\ OthersRent' = OthersRent
         /\ \A n : RentBill(n)' = RentBill(n)
<1>1. leaseIntervalMonths' = leaseIntervalMonths
  BY DEF leaseIntervalMonths
<1>2. Periods' = Periods /\ PeriodRent' = PeriodRent
  BY <1>1 DEF Periods, PeriodRent
<1>3. OthersRent' = OthersRent
  BY <1>2 DEF OthersRent
<1>4. ASSUME NEW n
      PROVE  /\ PeriodStart(n)' = PeriodStart(n) /\ DueDate(n)' = DueDate(n)
             /\ PeriodEnd(n)' = PeriodEnd(n)
  <2>1. \A m : PeriodStart(m)' = PeriodStart(m)
    BY <1>1 DEF PeriodStart
  <2> QED BY <1>1, <2>1 DEF DueDate, PeriodEnd
<1>5. \A n : RentBill(n)' = RentBill(n)
  BY <1>2, <1>3, <1>4 DEF RentBill
<1>6. IsTerm' = IsTerm /\ Ahead' = Ahead
  BY DEF IsTerm, Ahead
<1> QED BY <1>2, <1>3, <1>5, <1>6

\* It holds of a lease without drafts.
LEMMA NoDraftsYet == InitDrafts => DraftsSoFar
<1> SUFFICES ASSUME InitDrafts PROVE DraftsSoFar
  OBVIOUS
<1>1. IsTerm
  BY DEF InitDrafts, IsTerm
<1>2. Periods \in Nat \ {0} /\ PeriodRent \in Nat
  BY <1>1, TermHasPeriods, AmountsOfBills
<1>3. period = 0 /\ period * PeriodRent = 0 /\ cumulative = 0 /\ period # Periods
  BY <1>2 DEF InitDrafts
<1>4. drafts = <<>> /\ drafts \in Seq(Draft) /\ Len(drafts) = 0 /\ DOMAIN drafts = {}
  BY DEF InitDrafts
<1> QED BY <1>1, <1>2, <1>3, <1>4 DEF DraftsSoFar, DraftsTypeOK

\* An advance bill is added before all others, a period's after those before.
LEMMA DraftAdded ==
  ASSUME DraftsSoFar, [NextDraft]_draftVars
  PROVE  DraftsSoFar'
<1>1. lease' = lease
  BY DEF NextDraft, AdvanceDraft, PeriodDraft, draftVars
<1>2. /\ IsTerm /\ IsTerm' /\ Periods' = Periods /\ Ahead' = Ahead
      /\ PeriodRent' = PeriodRent /\ OthersRent' = OthersRent
      /\ \A n : RentBill(n)' = RentBill(n)
  BY <1>1, SameLease DEF DraftsSoFar
<1>3. /\ Periods \in Nat \ {0} /\ PeriodRent \in Nat /\ OthersRent \in Nat
      /\ Ahead \in {0, 1} /\ lease.advance \in Nat
      /\ Ahead = 1 <=> lease.advance > 0
  BY <1>2, TermHasPeriods, AmountsOfBills DEF Ahead
<1>4. period \in 0..Periods /\ drafts \in Seq(Draft) /\ Len(drafts) \in Nat
  BY DEF DraftsSoFar, DraftsTypeOK
<1>5. CASE AdvanceDraft
  <2> DEFINE new == [start |-> lease.start, end |-> PeriodEnd(0), due |-> lease.start,
                     amount |-> lease.advance, is_advance |-> TRUE]
  <2>1. /\ drafts = <<>> /\ drafts' = <<new>> /\ Ahead = 1
        /\ UNCHANGED <<period, cumulative>>
    BY <1>3, <1>5 DEF AdvanceDraft
  <2>2. period = 0
    BY <1>3, <1>4, <2>1 DEF DraftsSoFar
  <2>3. IsDate(lease.start) /\ IsDate(PeriodEnd(0))
    BY <1>2, <1>3, TermHasPeriods, EndsOfPeriods
  <2>4. new \in Draft
    <3>1. \A date : IsDate(date) => date \in Date
      BY DEF IsDate, Date
    <3> QED BY <1>3, <2>3, <3>1 DEF Draft
  <2>5. new.is_advance
    OBVIOUS
  <2> HIDE DEF new
  <2>6. /\ drafts' \in Seq(Draft) /\ Len(drafts') = 1 /\ DOMAIN drafts' = {1}
        /\ drafts'[1].is_advance
    BY <2>1, <2>4, <2>5
  <2> QED BY <1>2, <1>3, <2>1, <2>2, <2>6 DEF DraftsSoFar, DraftsTypeOK
<1>6. CASE PeriodDraft
  <2>1. period < Periods /\ period' = period + 1 /\ (lease.advance > 0 => drafts # <<>>)
    BY <1>6 DEF PeriodDraft, More
  <2>2. Len(drafts) = Ahead + period
    BY <1>3, <1>4, <2>1 DEF DraftsSoFar
  <2>3. cumulative = period * PeriodRent
    BY <1>4, <2>1 DEF DraftsSoFar
  <2>4. period = Periods - 1 => cumulative = OthersRent
    BY <2>3 DEF OthersRent
  <2>5. drafts' = Append(drafts, RentBill(period))
    BY <1>6, <2>4 DEF PeriodDraft, RentBill
  <2>6. cumulative' = IF period' = Periods THEN OthersRent ELSE period' * PeriodRent
    <3>1. (period + 1) * PeriodRent = (period * PeriodRent) + PeriodRent
      BY <1>3, <1>4
    <3>2. period' = Periods <=> period = Periods - 1
      BY <1>3, <1>4, <2>1
    <3> QED BY <1>6, <2>1, <2>3, <2>4, <3>1, <3>2 DEF PeriodDraft
  <2>7. RentBill(period) \in Draft
    BY <1>2, <1>3, <1>4, <2>1, BillIsDraft
  <2>8. /\ drafts' \in Seq(Draft) /\ Len(drafts') = Len(drafts) + 1
        /\ DOMAIN drafts = 1 .. Len(drafts)
        /\ DOMAIN drafts' = 1 .. Len(drafts) + 1
        /\ \A k \in 1 .. Len(drafts) : drafts'[k] = drafts[k]
        /\ drafts'[Len(drafts) + 1] = RentBill(period)
    BY <1>4, <2>5, <2>7
  <2>9. Len(drafts') = Ahead + period'
    BY <1>3, <1>4, <2>1, <2>2, <2>8
  <2>10. ASSUME NEW k \in DOMAIN drafts'
         PROVE  IF k <= Ahead THEN drafts'[k].is_advance
                              ELSE drafts'[k] = RentBill(k - Ahead - 1)
    <3>1. CASE k \in 1 .. Len(drafts)
      BY <2>8, <3>1 DEF DraftsSoFar
    <3>2. CASE k = Len(drafts) + 1
      BY <1>3, <1>4, <2>2, <2>8, <3>2
    <3> QED BY <1>4, <2>8, <3>1, <3>2
  <2>11. period' \in 0..Periods
    BY <1>3, <1>4, <2>1
  <2> QED BY <1>2, <2>6, <2>8, <2>9, <2>10, <2>11 DEF DraftsSoFar, DraftsTypeOK
<1>7. CASE UNCHANGED draftVars
  BY <1>2, <1>7 DEF draftVars, DraftsSoFar, DraftsTypeOK
<1> QED BY <1>5, <1>6, <1>7 DEF NextDraft

-----------------------------------------------------------------------------
(***************************************************************************)
(* What is so of the bills of every lease.                                 *)
(***************************************************************************)

\* The bills for rent are those after the advance, one for each period.
LEMMA RentBillsKnown ==
  ASSUME DraftsSoFar
  PROVE  /\ RentBills = Ahead + 1 .. Len(drafts)
         /\ Len(drafts) \in Nat /\ Ahead \in {0, 1}
         /\ \A k \in RentBills : /\ k - Ahead - 1 \in 0 .. Periods - 1
                                 /\ drafts[k] = RentBill(k - Ahead - 1)
         /\ Built => Len(drafts) = Ahead + Periods
         /\ IsTerm /\ Periods \in Nat \ {0}
<1>1. /\ IsTerm /\ Periods \in Nat \ {0} /\ Ahead \in {0, 1}
      /\ period \in 0..Periods /\ Len(drafts) \in Nat /\ DOMAIN drafts = 1 .. Len(drafts)
  BY TermHasPeriods DEF DraftsSoFar, DraftsTypeOK, Ahead
<1>2. \A k \in DOMAIN drafts : drafts[k].is_advance <=> k <= Ahead
  BY DEF DraftsSoFar, RentBill
<1>3. RentBills = Ahead + 1 .. Len(drafts)
  BY <1>1, <1>2 DEF RentBills
<1>4. Len(drafts) = Ahead + period \/ (Len(drafts) = 0 /\ period = 0)
  BY DEF DraftsSoFar
<1>5. ASSUME NEW k \in RentBills
      PROVE  k - Ahead - 1 \in 0 .. Periods - 1 /\ drafts[k] = RentBill(k - Ahead - 1)
  <2>1. k \in Ahead + 1 .. Len(drafts)
    BY <1>3
  <2>2. k - Ahead - 1 \in 0 .. Periods - 1
    <3>1. CASE Len(drafts) = Ahead + period
      BY <1>1, <2>1, <3>1
    <3>2. CASE Len(drafts) = 0
      BY <1>1, <2>1, <3>2
    <3> QED BY <1>4, <3>1, <3>2
  <2>3. k \in DOMAIN drafts /\ ~(k <= Ahead)
    BY <1>1, <2>1
  <2> QED BY <2>2, <2>3 DEF DraftsSoFar
<1>6. Built => Len(drafts) = Ahead + Periods
  BY <1>1, <1>4 DEF Built
<1> QED BY <1>1, <1>3, <1>5, <1>6

\* Periods tile the term.
LEMMA BillsTile == DraftsSoFar => PeriodsTile
<1> SUFFICES ASSUME DraftsSoFar, Built PROVE PeriodsTile
  BY DEF PeriodsTile
<1>1. /\ RentBills = Ahead + 1 .. Len(drafts) /\ Len(drafts) = Ahead + Periods
      /\ Ahead \in {0, 1} /\ IsTerm /\ Periods \in Nat \ {0}
  BY RentBillsKnown
<1>2. RentBills = Len(drafts) - Periods + 1 .. Len(drafts)
  BY <1>1
<1>3. ASSUME NEW k \in RentBills, NEW n, n = k - Ahead - 1
      PROVE  /\ n \in 0 .. Periods - 1 /\ n \in Nat
             /\ k - 1 \notin RentBills => n = 0
             /\ k + 1 \notin RentBills <=> n = Periods - 1
             /\ k + 1 \in RentBills => /\ n + 1 \in 0 .. Periods - 1
                                     /\ drafts[k + 1] = RentBill(n + 1)
             /\ drafts[k] = RentBill(n)
  <2>1. n \in 0 .. Periods - 1 /\ drafts[k] = RentBill(n)
    BY <1>3, RentBillsKnown
  <2>2. k + 1 \in RentBills => drafts[k + 1] = RentBill(n + 1)
    <3>1. k + 1 - Ahead - 1 = n + 1
      BY <1>1, <1>3
    <3> QED BY <3>1, RentBillsKnown
  <2> QED BY <1>1, <1>3, <2>1, <2>2
<1>4. ASSUME NEW n \in 0 .. Periods - 1
      PROVE  Occupied(RentBill(n)) <=> ~Before(lease.end, PeriodStart(n))
  BY <1>1, EndsOfPeriods DEF Occupied, RentBill
<1>5. ASSUME NEW k \in RentBills, k - 1 \notin RentBills
      PROVE  drafts[k].start = lease.start /\ Occupied(drafts[k])
  <2>1. drafts[k] = RentBill(0) /\ 0 \in 0 .. Periods - 1
    BY <1>3, <1>5
  <2>2. PeriodStart(0) = lease.start
    BY <1>1, StartsOfPeriods
  <2>3. ~Before(lease.end, lease.start)
    BY <1>1 DEF IsTerm
  <2>4. RentBill(0).start = lease.start
    BY <2>2 DEF RentBill
  <2>5. Occupied(RentBill(0))
    BY <1>4, <2>1, <2>2, <2>3
  <2> QED BY <2>1, <2>4, <2>5
<1>6. ASSUME NEW k \in RentBills, k + 1 \notin RentBills
      PROVE  drafts[k].end = lease.end
  <2>1. drafts[k] = RentBill(Periods - 1) /\ Periods - 1 \in 0 .. Periods - 1
    BY <1>3, <1>6
  <2> QED BY <1>1, <2>1, EndsOfPeriods DEF RentBill
<1>7. ASSUME NEW k \in RentBills, k + 1 \in RentBills
      PROVE  /\ Occupied(drafts[k])
             /\ drafts[k].end = IF Occupied(drafts[k + 1])
                                  THEN DayBefore(drafts[k + 1].start) ELSE lease.end
             /\ monthsBetween(drafts[k].start, drafts[k + 1].start)
                  = leaseIntervalMonths
  <2> DEFINE n == k - Ahead - 1
  <2>1. /\ n \in 0 .. Periods - 1 /\ n < Periods - 1
        /\ n + 1 \in 0 .. Periods - 1 /\ n \in Nat /\ n + 1 \in Nat
        /\ drafts[k] = RentBill(n) /\ drafts[k + 1] = RentBill(n + 1)
    <3> HIDE DEF n
    <3>1. n = k - Ahead - 1
      BY DEF n
    <3>2. /\ n \in 0 .. Periods - 1 /\ n \in Nat
          /\ n + 1 \in 0 .. Periods - 1
          /\ drafts[k] = RentBill(n) /\ drafts[k + 1] = RentBill(n + 1)
      BY <1>3, <1>7, <3>1
    <3> QED BY <1>1, <3>2
  <2> HIDE DEF n
  <2>2. /\ Occupied(RentBill(n))
        /\ PeriodEnd(n) = IF Before(lease.end, PeriodStart(n + 1))
                            THEN lease.end ELSE DayBefore(PeriodStart(n + 1))
    BY <1>1, <2>1, EndsOfPeriods DEF Occupied, RentBill
  <2>3. Occupied(RentBill(n + 1)) <=> ~Before(lease.end, PeriodStart(n + 1))
    BY <1>4, <2>1
  <2>4. monthsBetween(PeriodStart(n), PeriodStart(n + 1)) = leaseIntervalMonths
    <3>1. leaseIntervalMonths \in Nat \ {0} /\ MonthIndex(lease.start) \in Nat
      BY <1>1, TermHasPeriods, DateInMonth
    <3>2. /\ MonthIndex(PeriodStart(n))
                = MonthIndex(lease.start) + (n * leaseIntervalMonths)
          /\ MonthIndex(PeriodStart(n + 1))
                = MonthIndex(lease.start) + ((n + 1) * leaseIntervalMonths)
      BY <1>1, <2>1, StartsOfPeriods
    <3>3. /\ (n + 1) * leaseIntervalMonths
                = (n * leaseIntervalMonths) + leaseIntervalMonths
          /\ n * leaseIntervalMonths \in Nat
      BY <2>1, <3>1, IntervalsAdd
    <3> QED BY <3>1, <3>2, <3>3 DEF monthsBetween
  <2>5. /\ RentBill(n).start = PeriodStart(n) /\ RentBill(n).end = PeriodEnd(n)
        /\ RentBill(n + 1).start = PeriodStart(n + 1)
    BY DEF RentBill
  <2> QED BY <2>1, <2>2, <2>3, <2>4, <2>5
<1> QED BY <1>2, <1>5, <1>6, <1>7 DEF PeriodsTile

\* Bills are due in order.
LEMMA BillsDueInOrder == DraftsSoFar => DueInOrder
<1> SUFFICES ASSUME DraftsSoFar PROVE DueInOrder
  OBVIOUS
<1>1. ASSUME NEW k \in RentBills
      PROVE  k - Ahead - 1 \in Nat /\ k \in Nat /\ drafts[k] = RentBill(k - Ahead - 1)
  BY RentBillsKnown
<1>2. IsTerm /\ Ahead \in {0, 1}
  BY RentBillsKnown
<1>3. ASSUME NEW k \in RentBills PROVE ~Before(drafts[k].due, drafts[k].start)
  <2> DEFINE n == k - Ahead - 1
  <2>1. n \in Nat /\ drafts[k] = RentBill(n)
    BY <1>1
  <2> HIDE DEF n
  <2>2. drafts[k].due = DueDate(n) /\ drafts[k].start = PeriodStart(n)
    BY <2>1 DEF RentBill
  <2> QED BY <1>2, <2>1, <2>2, DueDatesOrdered
<1>4. ASSUME NEW k \in RentBills, NEW l \in RentBills, l < k
      PROVE  ~Before(drafts[k].due, drafts[l].due)
  <2> DEFINE m == l - Ahead - 1
             n == k - Ahead - 1
  <2>1. m \in Nat /\ n \in Nat /\ m < n
    BY <1>1, <1>2, <1>4
  <2>2. drafts[k] = RentBill(n) /\ drafts[l] = RentBill(m)
    BY <1>1
  <2> HIDE DEF m, n
  <2>3. drafts[k].due = DueDate(n) /\ drafts[l].due = DueDate(m)
    BY <2>2 DEF RentBill
  <2> QED BY <1>2, <2>1, <2>3, DueDatesOrdered
<1> QED BY <1>3, <1>4 DEF DueInOrder

\* The bills of at most a year come to the rent, but for half a cent each.
LEMMA BillsMakeTheRent == DraftsSoFar => RentIsBilled
<1> SUFFICES ASSUME DraftsSoFar, Built, Periods * leaseIntervalMonths <= 12
             PROVE  RentIsBilled
  BY DEF RentIsBilled
<1> DEFINE others == Periods - 1
           bill == roundRatToCents(PeriodRent, 12)
           rest == (12 * lease.rent) - OthersRent
           last == LastAmount(rest)
<1>1. /\ RentBills = Ahead + 1 .. Len(drafts) /\ Len(drafts) = Ahead + Periods
      /\ Ahead \in {0, 1} /\ IsTerm /\ Periods \in Nat \ {0}
      /\ lease.rent \in Nat /\ leaseIntervalMonths \in Nat \ {0}
      /\ PeriodRent \in Nat /\ OthersRent \in Nat
  BY RentBillsKnown, TermHasPeriods, AmountsOfBills
<1>2. others \in Nat /\ OthersRent = others * PeriodRent
  BY <1>1 DEF OthersRent
<1>3. others * PeriodRent <= 12 * lease.rent
  <2> DEFINE months == others * leaseIntervalMonths
  <2>1. months \in Nat /\ months <= 12
    BY <1>1, <1>2, IntervalsAdd
  <2>2. others * PeriodRent = months * lease.rent
    BY <1>1, <1>2 DEF PeriodRent
  <2> HIDE DEF months
  <2>3. months * lease.rent <= 12 * lease.rent
    BY <1>1, <2>1
  <2> QED BY <2>2, <2>3
<1>4. rest \in Nat
  BY <1>1, <1>2, <1>3
<1>5. last = roundRatToCents(rest, 12)
  BY <1>4 DEF LastAmount
<1>6. /\ bill \in Nat /\ 12 * bill <= PeriodRent + 6 /\ PeriodRent < (12 * bill) + 6
      /\ last \in Nat /\ 12 * last <= rest + 6 /\ rest < (12 * last) + 6
  BY <1>1, <1>4, <1>5, RoundedTwelfths
<1>7. /\ 2 * ((others * bill) + last - lease.rent) <= Periods
      /\ 2 * (lease.rent - ((others * bill) + last)) <= Periods
  <2>1. others + 1 = Periods /\ rest = (12 * lease.rent) - (others * PeriodRent)
    BY <1>1, <1>2
  <2> HIDE DEF bill, last, rest, others
  <2>2. /\ 12 * last <= (12 * lease.rent) - (others * PeriodRent) + 6
        /\ (12 * lease.rent) - (others * PeriodRent) < (12 * last) + 6
    BY <1>6, <2>1
  <2>3. /\ 2 * ((others * bill) + last - lease.rent) <= others + 1
        /\ 2 * (lease.rent - ((others * bill) + last)) <= others + 1
    BY <1>1, <1>2, <1>3, <1>6, <2>2, PartsMakeTheRent
  <2> QED BY <2>1, <2>3
<1>8. /\ \A k \in RentBills : k < Len(drafts) => drafts[k].amount = bill
      /\ drafts[Len(drafts)].amount = last
  <2>1. ASSUME NEW k \in RentBills
        PROVE  drafts[k].amount = IF k - Ahead - 1 = Periods - 1 THEN last ELSE bill
    <3> DEFINE n == k - Ahead - 1
    <3>1. drafts[k] = RentBill(n)
      BY RentBillsKnown
    <3>2. RentBill(n).amount = IF n = Periods - 1 THEN last ELSE bill
      <4> HIDE DEF n
      <4> QED BY DEF RentBill
    <3> QED BY <3>1, <3>2
  <2>2. Len(drafts) \in RentBills
    BY <1>1
  <2> HIDE DEF bill, last
  <2> QED BY <1>1, <2>1, <2>2
<1>9. ASSUME NEW k \in RentBills, k < Len(drafts) \/ Periods = 1
      PROVE  others * drafts[k].amount = others * bill
  <2>1. CASE k < Len(drafts)
    BY <1>8, <2>1
  <2>2. CASE Periods = 1
    <3>1. k = Len(drafts)
      BY <1>1, <2>2
    <3>2. drafts[k].amount = last /\ others = 0
      BY <1>8, <2>2, <3>1
    <3> HIDE DEF bill, last, others
    <3> QED BY <1>6, <3>2
  <2> QED BY <1>9, <2>1, <2>2
<1>10. ASSUME NEW k \in RentBills, k < Len(drafts) \/ Periods = 1,
              NEW l \in RentBills, l < Len(drafts)
       PROVE  drafts[l].amount = drafts[k].amount
  <2>1. k < Len(drafts)
    BY <1>1, <1>10
  <2> QED BY <1>8, <1>10, <2>1
<1>11. ASSUME NEW k \in RentBills, k < Len(drafts) \/ Periods = 1
       PROVE  LET billed == ((Periods - 1) * drafts[k].amount) + drafts[Len(drafts)].amount
              IN /\ 2 * (billed - lease.rent) <= Periods
                 /\ 2 * (lease.rent - billed) <= Periods
  <2>1. (Periods - 1) * drafts[k].amount = others * bill
    BY <1>9, <1>11
  <2>2. drafts[Len(drafts)].amount = last
    BY <1>8
  <2> DEFINE billed == ((Periods - 1) * drafts[k].amount) + drafts[Len(drafts)].amount
  <2>3. billed = (others * bill) + last
    BY <2>1, <2>2
  <2> HIDE DEF bill, last, rest, others, billed
  <2>4. 2 * (billed - lease.rent) <= Periods /\ 2 * (lease.rent - billed) <= Periods
    BY <1>1, <1>2, <1>6, <1>7, <2>3
  <2> QED BY <2>4 DEF billed
<1> QED BY <1>10, <1>11 DEF RentIsBilled

\* Every step of the schedule keeps the drafts as they should be.
LEMMA ScheduleIsSound == DraftsSpec => []DraftsSoFar
<1>1. InitDrafts => DraftsSoFar
  BY NoDraftsYet
<1>2. DraftsSoFar /\ [NextDraft]_draftVars => DraftsSoFar'
  BY DraftAdded
<1> QED BY <1>1, <1>2, PTL DEF DraftsSpec

\* Whatever the dates, the interval and the rent of a lease, the periods of its
\* bills tile its term: every day of it is in exactly one, over month ends and
\* leap days, and only the last may be left without any.
THEOREM PeriodsTileTheTerm == DraftsSpec => []PeriodsTile
<1>1. DraftsSoFar => PeriodsTile
  BY BillsTile
<1> QED BY <1>1, ScheduleIsSound, PTL

\* Its bills are due in order, and none before its period.
THEOREM BillsFallDueInOrder == DraftsSpec => []DueInOrder
<1>1. DraftsSoFar => DueInOrder
  BY BillsDueInOrder
<1> QED BY <1>1, ScheduleIsSound, PTL

\* If it is of a year at most they come to its rent, but for half a cent for
\* each of them.
THEOREM TheRentIsBilled == DraftsSpec => []RentIsBilled
<1>1. DraftsSoFar => RentIsBilled
  BY BillsMakeTheRent
<1> QED BY <1>1, ScheduleIsSound, PTL
=============================================================================
