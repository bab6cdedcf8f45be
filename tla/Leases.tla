-------------------------------- MODULE Leases --------------------------------
(***************************************************************************)
(* Lease contracts: drafts, their activation, the bills generated for the  *)
(* periods of an active one, the approval that must precede a termination, *)
(* and renewal by a new draft.  Handlers interleave statement by statement *)
(* as in UnitSales; the check that the user holds the permission in the    *)
(* lease's scope only makes a request fail (see Requests).                 *)
(*                                                                         *)
(* A lease's bills are <<lease, n>>, n being the n-th bill that            *)
(* buildLeaseBillDrafts computes (see LeaseBilling): (lease, start, end,   *)
(* is_advance) is unique.  A draft's dates, and with them the number of    *)
(* its bills, may be edited.  Activation is all that inserts lease         *)
(* parties, one for each lease.                                            *)
(***************************************************************************)
EXTENDS ReadCommitted, Integers, FiniteSets

CONSTANTS
  Units,
  LeaseIds,
  MaxPeriods,    \* bills of the longest lease
  ApprovalIds

ASSUME LeaseAssumption ==
  /\ Nil \notin Units \cup LeaseIds
  /\ ApprovalIds \subseteq Nat /\ IsFiniteSet(ApprovalIds)
  /\ MaxPeriods \in Nat \ {0}

VARIABLES
  pc,      \* the next statement of each transaction, "idle" if there is none
  req      \* what its request is about, Nil if there is none

\* History, which no action reads: the units whose occupancy_status a client
\* set after whatever the handlers of leases made of it.
VARIABLE byHand

vars == <<db, dirty, owner, pc, req, byHand>>

Occupancy   == {"vacant", "occupied", "owner_occupied"}

LeaseStatus == {"none", "draft", "active", "renewed", "terminated"}
LeaseRow    == [status : LeaseStatus, unit : Units \cup {Nil},
                renewed_from : LeaseIds \cup {Nil}, periods : 0..MaxPeriods]
PartyStatus == {"none", "active", "closed"}
BillStatus  == {"none", "draft", "issued", "voided"}
RequestType == {"lease_termination", "deposit_refund"}
ApprovalStatus == {"none", "pending", "approved", "rejected", "cancelled"}
ApprovalRow == [status : ApprovalStatus,
                lease : LeaseIds \cup {Nil}, type : RequestType \cup {Nil}]

BillIds == LeaseIds \X (1..MaxPeriods)

Rows == [units |-> Units, lease_contracts |-> LeaseIds, lease_parties |-> LeaseIds,
         lease_bills |-> BillIds, approval_requests |-> ApprovalIds]

NoLease    == [status |-> "none", unit |-> Nil, renewed_from |-> Nil, periods |-> 0]
NoApproval == [status |-> "none", lease |-> Nil, type |-> Nil]

Init ==
  /\ \E occupancy_status \in [Units -> Occupancy] :   \* as the units were entered
       db = [units |-> occupancy_status,
             lease_contracts |-> [l \in LeaseIds |-> NoLease],
             lease_parties |-> [l \in LeaseIds |-> "none"],
             lease_bills |-> [b \in BillIds |-> "none"],
             approval_requests |-> [a \in ApprovalIds |-> NoApproval]]
  /\ dirty = db
  /\ owner = [tab \in DOMAIN Rows |-> [id \in Rows[tab] |-> Nil]]
  /\ pc = [t \in Tx |-> "idle"]
  /\ req = [t \in Tx |-> Nil]
  /\ byHand = Units

At(t, stmt)    == pc[t] = stmt
Goto(t, stmt)  == pc' = [pc EXCEPT ![t] = stmt]
Next_(t, stmt) == Goto(t, stmt) /\ UNCHANGED <<req, byHand>>

Blank == [op |-> Nil, lease |-> Nil, unit |-> Nil, periods |-> 0, renews |-> Nil, type |-> Nil,
          next |-> 1]

Begin(t, op, request, stmt) ==
  /\ At(t, "idle")
  /\ req' = [req EXCEPT ![t] = [request EXCEPT !.op = op]]
  /\ Goto(t, stmt)
  /\ UNCHANGED <<storage, byHand>>

LeaseOf(t, l) == Sees(t, "lease_contracts", l)

ActiveLeasesForUnit(t, u) ==
  {l \in LeaseIds : LeaseOf(t, l).status = "active" /\ LeaseOf(t, l).unit = u}

CreateLeaseContractRow(t, l, u, periods, renews) ==
  /\ dirty.lease_contracts[l] = NoLease
  /\ Write(t, "lease_contracts", l,
           [status |-> "draft", unit |-> u, renewed_from |-> renews,
            periods |-> periods])

UpdateLeaseContractRow_Unguarded(t, l, periods) ==   \* without AND status = 'draft'
  Write(t, "lease_contracts", l, [dirty.lease_contracts[l] EXCEPT !.periods = periods])

UpdateLeaseContractRow(t, l, periods) ==
  /\ dirty.lease_contracts[l].status = "draft"
  /\ Write(t, "lease_contracts", l,
           [dirty.lease_contracts[l] EXCEPT !.periods = periods])

UpdateLeaseContractStatus_Unguarded(t, l, to, from) ==   \* without AND status = from
  Write(t, "lease_contracts", l, [dirty.lease_contracts[l] EXCEPT !.status = to])

\* A unit has one active lease: the index lets t make l active only if no
\* other lease of the unit is, or will be when an open transaction ends.
UpdateLeaseContractStatus(t, l, to, from) ==
  LET row == dirty.lease_contracts[l]
  IN /\ row.status = from
     /\ to = "active" =>
          \A other \in LeaseIds \ {l} :
            \A version \in {LeaseOf(t, other), dirty.lease_contracts[other]} :
              ~(version.status = "active" /\ version.unit = row.unit)
     /\ Write(t, "lease_contracts", l, [row EXCEPT !.status = to])

LatestTermination(t, l) ==
  LET found == {a \in ApprovalIds :
                  /\ Sees(t, "approval_requests", a).lease = l
                  /\ Sees(t, "approval_requests", a).type = "lease_termination"}
  IN IF found = {} THEN "none"
     ELSE Sees(t, "approval_requests",
               CHOOSE a \in found : \A b \in found : b <= a).status

NextApprovalId ==
  LET unused == {a \in ApprovalIds : dirty.approval_requests[a] = NoApproval}
  IN {a \in unused : \A b \in unused : a <= b}

-----------------------------------------------------------------------------
(***************************************************************************)
(* Drafts and their activation.                                            *)
(***************************************************************************)
CreateLeaseContract(t, u, periods) ==
  Begin(t, "create", [Blank EXCEPT !.unit = u, !.periods = periods], "insert_lease")

\* The new draft; RenewLeaseContract ends with the same INSERT.
InsertLease(t) ==
  /\ At(t, "insert_lease")
  /\ \E l \in LeaseIds :
       CreateLeaseContractRow(t, l, req[t].unit, req[t].periods, req[t].renews)
  /\ Next_(t, "commit")

UpdateLeaseContract(t, l, periods) ==
  /\ LeaseOf(t, l).status = "draft"
  /\ Begin(t, "update", [Blank EXCEPT !.lease = l, !.periods = periods], "update_lease")

UpdateLease(t) ==
  /\ At(t, "update_lease")
  /\ UpdateLeaseContractRow(t, req[t].lease, req[t].periods)
  /\ Next_(t, "commit")

ActivateLeaseContract(t, l) ==
  /\ LeaseOf(t, l).status = "draft"
  /\ ActiveLeasesForUnit(t, LeaseOf(t, l).unit) = {}
  /\ Begin(t, "activate", [Blank EXCEPT !.lease = l, !.unit = LeaseOf(t, l).unit],
           "activate_status")

ActivateStatus(t) ==
  /\ At(t, "activate_status")
  /\ UpdateLeaseContractStatus(t, req[t].lease, "active", "draft")
  /\ Next_(t, "insert_party")

CreateLeaseParty_Skipped(t) ==   \* a renewal that keeps the old lease's parties
  /\ At(t, "insert_party")
  /\ Next_(t, "occupy")
  /\ UNCHANGED storage

CreateLeaseParty(t) ==
  /\ At(t, "insert_party")
  /\ Write(t, "lease_parties", req[t].lease, "active")
  /\ Next_(t, "occupy")

OccupyUnit(t) ==
  /\ At(t, "occupy")
  /\ Write(t, "units", req[t].unit, "occupied")
  /\ Next_(t, "commit")

-----------------------------------------------------------------------------
(***************************************************************************)
(* Generating the bills of a lease, in the order of their periods.  A bill *)
(* that exists, in whatever status, is kept.                               *)
(***************************************************************************)
GenerateLeaseBills(t, l) ==
  /\ LeaseOf(t, l).status = "active"
  /\ Begin(t, "generate",
           [Blank EXCEPT !.lease = l, !.periods = LeaseOf(t, l).periods], "bill")

GenerateBill(t) ==
  LET bill == <<req[t].lease, req[t].next>>
  IN /\ At(t, "bill") /\ req[t].next <= req[t].periods
     /\ \/ Sees(t, "lease_bills", bill) # "none" /\ UNCHANGED storage
        \/ /\ Sees(t, "lease_bills", bill) = "none"
           /\ dirty.lease_bills[bill] = "none"
           /\ Write(t, "lease_bills", bill, "draft")
     /\ req' = [req EXCEPT ![t].next = @ + 1]
     /\ Goto(t, "bill")
     /\ UNCHANGED byHand

GenerateEnds(t) ==
  /\ At(t, "bill") /\ req[t].next > req[t].periods
  /\ Next_(t, "commit")
  /\ UNCHANGED storage

-----------------------------------------------------------------------------
(***************************************************************************)
(* Termination, renewal and deposit refunds.                               *)
(***************************************************************************)
TerminateLeaseContract_NoApproval(t, l) ==   \* what is not rejected is approved
  /\ LeaseOf(t, l).status = "active"
  /\ LatestTermination(t, l) \notin {"pending", "rejected"}
  /\ Begin(t, "terminate",
           [Blank EXCEPT !.lease = l, !.unit = LeaseOf(t, l).unit,
                         !.type = "lease_termination"],
           IF LatestTermination(t, l) \in {"approved", "cancelled"}
             THEN "terminate_status" ELSE "insert_approval")

TerminateLeaseContract_Repeated(t, l) ==   \* a pending request is not waited for
  /\ LeaseOf(t, l).status = "active"
  /\ LatestTermination(t, l) # "rejected"
  /\ Begin(t, "terminate",
           [Blank EXCEPT !.lease = l, !.unit = LeaseOf(t, l).unit,
                         !.type = "lease_termination"],
           IF LatestTermination(t, l) = "approved"
             THEN "terminate_status" ELSE "insert_approval")

TerminateLeaseContract(t, l) ==
  /\ LeaseOf(t, l).status = "active"
  /\ LatestTermination(t, l) \notin {"pending", "rejected"}
  /\ Begin(t, "terminate",
           [Blank EXCEPT !.lease = l, !.unit = LeaseOf(t, l).unit,
                         !.type = "lease_termination"],
           IF LatestTermination(t, l) = "approved"
             THEN "terminate_status" ELSE "insert_approval")

TerminateStatus(t) ==
  /\ At(t, "terminate_status")
  /\ UpdateLeaseContractStatus(t, req[t].lease, "terminated", "active")
  /\ Next_(t, "close_parties")

CloseAllActiveLeaseParties(t) ==
  /\ At(t, "close_parties")
  /\ IF Sees(t, "lease_parties", req[t].lease) = "active"
       THEN Write(t, "lease_parties", req[t].lease, "closed")
       ELSE UNCHANGED storage
  /\ Next_(t, "vacate")

VacateUnit(t) ==
  /\ At(t, "vacate")
  /\ Write(t, "units", req[t].unit, "vacant")
  /\ Next_(t, "commit")

InsertApproval(t) ==
  /\ At(t, "insert_approval")
  /\ \E a \in NextApprovalId :
       Write(t, "approval_requests", a,
             [status |-> "pending", lease |-> req[t].lease, type |-> req[t].type])
  /\ Next_(t, "commit")

RenewLeaseContract(t, l, periods) ==
  /\ LeaseOf(t, l).status = "active"
  /\ Begin(t, "renew",
           [Blank EXCEPT !.lease = l, !.unit = LeaseOf(t, l).unit,
                         !.periods = periods, !.renews = l], "renew_status")

RenewStatus(t) ==
  /\ At(t, "renew_status")
  /\ UpdateLeaseContractStatus(t, req[t].lease, "renewed", "active")
  /\ Next_(t, "insert_lease")

\* Asks for an approval each time; nothing pays what is approved.
RequestLeaseDepositRefund(t, l) ==
  /\ LeaseOf(t, l).status \in {"active", "terminated"}
  /\ Begin(t, "deposit_refund", [Blank EXCEPT !.lease = l, !.type = "deposit_refund"],
           "insert_approval")

-----------------------------------------------------------------------------
Commit(t) ==
  /\ At(t, "commit") /\ CommitTx(t)
  /\ Goto(t, "idle") /\ req' = [req EXCEPT ![t] = Nil]
  /\ byHand' = {u \in byHand : owner.units[u] # t}

Rollback(t) ==
  /\ ~At(t, "idle") /\ RollbackTx(t)
  /\ Goto(t, "idle") /\ req' = [req EXCEPT ![t] = Nil]
  /\ UNCHANGED byHand

DecideApproval(a, status) ==
  /\ db.approval_requests[a].status = "pending"
  /\ WriteAndCommit("approval_requests", a,
                    [db.approval_requests[a] EXCEPT !.status = status])
  /\ UNCHANGED <<pc, req, byHand>>

\* IssueLeaseBill and VoidLeaseBill (see Finance).
SettleBill(b, status) ==
  /\ \/ db.lease_bills[b] = "draft"
     \/ db.lease_bills[b] = "issued" /\ status = "voided"
  /\ WriteAndCommit("lease_bills", b, status)
  /\ UNCHANGED <<pc, req, byHand>>

\* CreateApprovalRequest, with the status the client asks for; it does not
\* look for another request.
SubmitApproval(l, type, status) ==
  /\ \E a \in NextApprovalId :
       WriteAndCommit("approval_requests", a,
                      [status |-> status, lease |-> l, type |-> type])
  /\ UNCHANGED <<pc, req, byHand>>

\* UpdateUnit, which looks at no lease of the unit.
UpdateUnit(u, occupancy_status) ==
  /\ WriteAndCommit("units", u, occupancy_status)
  /\ byHand' = byHand \cup {u}
  /\ UNCHANGED <<pc, req>>

Others ==
  \/ \E a \in ApprovalIds, s \in {"approved", "rejected", "cancelled"} : DecideApproval(a, s)
  \/ \E b \in BillIds, s \in {"issued", "voided"} : SettleBill(b, s)
  \/ \E l \in LeaseIds, type \in RequestType, s \in ApprovalStatus \ {"none"} :
       SubmitApproval(l, type, s)
  \/ \E u \in Units, s \in Occupancy : UpdateUnit(u, s)

Start(t) ==
  \/ \E u \in Units, n \in 1..MaxPeriods : CreateLeaseContract(t, u, n)
  \/ \E l \in LeaseIds :
       \/ \E n \in 1..MaxPeriods : UpdateLeaseContract(t, l, n) \/ RenewLeaseContract(t, l, n)
       \/ ActivateLeaseContract(t, l)
       \/ GenerateLeaseBills(t, l)
       \/ TerminateLeaseContract(t, l)
       \/ RequestLeaseDepositRefund(t, l)

Step(t) ==
  \/ InsertLease(t)
  \/ UpdateLease(t)
  \/ ActivateStatus(t)
  \/ CreateLeaseParty(t)
  \/ OccupyUnit(t)
  \/ GenerateBill(t)
  \/ GenerateEnds(t)
  \/ TerminateStatus(t)
  \/ CloseAllActiveLeaseParties(t)
  \/ VacateUnit(t)
  \/ InsertApproval(t)
  \/ RenewStatus(t)
  \/ Commit(t)
  \/ Rollback(t)

Next == Others \/ \E t \in Tx : Start(t) \/ Step(t)

Spec == Init /\ [][Next]_vars

-----------------------------------------------------------------------------
\* The tables, committed and dirty, are of their types.
TypeOK ==
  LET Tables == [units : [Units -> Occupancy],
                 lease_contracts : [LeaseIds -> LeaseRow],
                 lease_parties : [LeaseIds -> PartyStatus],
                 lease_bills : [BillIds -> BillStatus],
                 approval_requests : [ApprovalIds -> ApprovalRow]]
  IN db \in Tables /\ dirty \in Tables /\ byHand \subseteq Units

StatusOf(l) == db.lease_contracts[l].status
UnitOf(l)   == db.lease_contracts[l].unit
Ended       == {l \in LeaseIds : StatusOf(l) \in {"renewed", "terminated"}}

\* The unit of an active lease is occupied, also when an earlier lease of it
\* is terminated at the same time, and one whose lease was terminated is not,
\* unless a client has set its status since.
OccupiedWhileLet ==
  \A u \in Units \ byHand :
    /\ (\E l \in LeaseIds : StatusOf(l) = "active" /\ UnitOf(l) = u)
         => db.units[u] = "occupied"
    /\ db.units[u] = "occupied" =>
         \E l \in LeaseIds : StatusOf(l) \in {"active", "renewed"} /\ UnitOf(l) = u

\* A terminated lease has no open party, and one that is active, or was
\* renewed, has its tenant's.
TenantWhileLet ==
  \A l \in LeaseIds :
    db.lease_parties[l] = CASE StatusOf(l) \in {"active", "renewed"} -> "active"
                            [] StatusOf(l) = "terminated" -> "closed"
                            [] OTHER -> "none"

\* A lease is renewed by exactly one other, and only if it was renewed.
RenewedOnce ==
  \A l \in LeaseIds :
    Cardinality({m \in LeaseIds : db.lease_contracts[m].renewed_from = l}) =
      IF StatusOf(l) = "renewed" THEN 1 ELSE 0

\* The bills of a lease are those of the dates it has, all of them or none,
\* however generation, editing and activation interleave.
BilledForItsTerm ==
  \A l \in LeaseIds :
    LET bills == {n \in 1..MaxPeriods : db.lease_bills[<<l, n>>] # "none"}
    IN bills # {} => bills = 1..db.lease_contracts[l].periods

\* An active lease is terminated only if a request for just that was approved.
TerminatedByApproval ==
  [][\A l \in LeaseIds :
       StatusOf(l) = "active" /\ StatusOf(l)' = "terminated" =>
         \E a \in ApprovalIds :
           db.approval_requests[a] =
             [status |-> "approved", lease |-> l, type |-> "lease_termination"]]_vars

\* Leases implement UnitHolding: the active lease of a unit holds it.
ActiveFor(u) == {l \in LeaseIds : StatusOf(l) = "active" /\ UnitOf(l) = u}

Holding == INSTANCE UnitHolding WITH
  Contracts <- LeaseIds,
  holder <- [u \in Units |-> IF ActiveFor(u) = {} THEN Nil
                             ELSE CHOOSE l \in ActiveFor(u) : TRUE],
  past <- Ended

\* A unit has one active lease at a time, and a lease that was renewed or
\* terminated is never active again.
HoldsUnitOnce == Holding!Spec

OnePendingTermination ==
  \A l \in LeaseIds :
    Cardinality({a \in ApprovalIds :
      db.approval_requests[a] =
        [status |-> "pending", lease |-> l, type |-> "lease_termination"]}) <= 1
==============================================================================
