--------------------------- MODULE ApprovalsProofs ---------------------------
(***************************************************************************)
(* Proofs about Approvals, for any number of requests, approvers, policies *)
(* and concurrent transactions: a decision is final, a vote to reject      *)
(* commits only with the rejection, the audit log tells of every vote and  *)
(* cancellation, and a request is approved with the approvals its          *)
(* policy asks for.  The first two follow from what the guards of the      *)
(* UPDATE statements leave of a row until its transaction ends, which      *)
(* LocksAreSound says; the third from what a transaction has recorded when *)
(* it reaches each statement (TrailIsKept), and the last from the votes it *)
(* has seen there (EnoughIsSeen).  One request at a time, a request with   *)
(* the approvals it needs is approved (VotesComplete).                     *)
(***************************************************************************)
EXTENDS MCApprovals, ReadCommittedProofs, FiniteSetTheorems

DecideStatement == {"get_policy", "record_decision", "count_approved", "get_min",
                    "update_status"}

\* What a transaction remembers fits the statement it is at.
RequestOK(t) ==
  /\ pc[t] # "idle" => req[t] \in HttpRequest
  /\ pc[t] \in DecideStatement => req[t] \in DecideRequest
  /\ pc[t] = "cancel" => req[t] \in CancelRequest
  /\ pc[t] = "create_approver" => req[t] \in AddRequest
  /\ pc[t] = "insert_audit" => req[t] \in DecideRequest \cup CancelRequest

\* It handles an approval request that exists.
RequestExists(t) == pc[t] # "idle" => StatusOf(req[t].request) # "none"

\* A request nobody has created has no approvers.
NoVotesBeforehand ==
  \A q \in Requests, u \in Users :
    StatusOf(q) = "none" => db.approvers[<<q, u>>] = "none"

\* Only an open request is being changed.
RequestLocks ==
  \A q \in Requests :
    owner.approval_requests[q] # Nil =>
      /\ StatusOf(q) \in {"draft", "pending"}
      /\ dirty.approval_requests[q].status # "none"

\* Only a vote nobody has given is being recorded.
ApproverLocks ==
  \A q \in Requests, u \in Users :
    owner.approvers[<<q, u>>] # Nil =>
      /\ StatusOf(q) # "none"
      /\ db.approvers[<<q, u>>] \in {"none", "waiting"}

\* The rejection of q is recorded by t and will commit.
Rejects(t, q) ==
  /\ owner.approval_requests[q] = t
  /\ dirty.approval_requests[q].status = "rejected"

\* A vote to reject is recorded by the user's own request, which rejects
\* before it commits.
RejectionLocks ==
  \A q \in Requests, u \in Users, t \in Tx :
    owner.approvers[<<q, u>>] = t /\ dirty.approvers[<<q, u>>] = "rejected" =>
      /\ req[t] = [op |-> "decide", user |-> u, request |-> q,
                   decision |-> "rejected"]
      /\ \/ pc[t] = "update_status"
         \/ pc[t] \in {"insert_audit", "commit"} /\ Rejects(t, q)

\* At most one vote rejects, and it goes with the rejection.
RejectedOnce ==
  \A q \in Requests, u \in Users :
    u \in Voters(q, "rejected") =>
      StatusOf(q) = "rejected" /\ \A v \in Voters(q, "rejected") : v = u

\* The inductive invariant.
LocksAreSound ==
  /\ TypeOK
  /\ DirtyIsCommitted
  /\ \A t \in Tx : RequestOK(t) /\ RequestExists(t)
  /\ NoVotesBeforehand
  /\ RequestLocks
  /\ ApproverLocks
  /\ RejectionLocks
  /\ RejectedOnce

-----------------------------------------------------------------------------
(***************************************************************************)
(* Type correctness.                                                       *)
(***************************************************************************)
TableName == {"approval_policies", "approval_requests", "approvers", "audit_logs"}

Tables == [approval_policies : [Policies -> PolicyRow],
           approval_requests : [Requests -> RequestRow],
           approvers : [Requests \X Users -> Vote],
           audit_logs : [Requests \X Event -> BOOLEAN]]

LocksOK ==
  /\ DOMAIN owner = TableName
  /\ owner.approval_policies \in [Policies -> Tx \cup {Nil}]
  /\ owner.approval_requests \in [Requests -> Tx \cup {Nil}]
  /\ owner.approvers \in [Requests \X Users -> Tx \cup {Nil}]
  /\ owner.audit_logs \in [Requests \X Event -> Tx \cup {Nil}]

StorageTypeOK == db \in Tables /\ dirty \in Tables /\ LocksOK

ControlTypeOK ==
  /\ pc \in [Tx -> Statement]
  /\ req \in [Tx -> HttpRequest \cup {Nil}]
  /\ count \in [Tx -> Nat]
  /\ \A t \in Tx : RequestOK(t)

\* TypeOK in the parts the steps disturb.
LEMMA TypeOKParts ==
  /\ TypeOK <=> /\ StorageTypeOK
                /\ pc \in [Tx -> Statement]
                /\ req \in [Tx -> HttpRequest \cup {Nil}]
                /\ count \in [Tx -> Nat]
  /\ TypeOK /\ (\A t \in Tx : RequestOK(t)) <=> StorageTypeOK /\ ControlTypeOK
<1>1. LocksOK <=> /\ DOMAIN owner = DOMAIN Rows
                  /\ \A tab \in DOMAIN Rows :
                       owner[tab] \in [Rows[tab] -> Tx \cup {Nil}]
  <2>1. /\ DOMAIN Rows = TableName
        /\ Rows.approval_policies = Policies
        /\ Rows.approval_requests = Requests
        /\ Rows.approvers = Requests \X Users
        /\ Rows.audit_logs = Requests \X Event
    BY DEF Rows, TableName
  <2> HIDE DEF Rows
  <2> QED BY <2>1 DEF LocksOK, TableName
<1>2. TypeOK <=> /\ StorageTypeOK
                 /\ pc \in [Tx -> Statement]
                 /\ req \in [Tx -> HttpRequest \cup {Nil}]
                 /\ count \in [Tx -> Nat]
  BY <1>1 DEF TypeOK, StorageTypeOK, Tables
<1> QED BY <1>2 DEF ControlTypeOK

\* The same of the next state.
LEMMA TypeOKNext ==
  StorageTypeOK' /\ ControlTypeOK' => TypeOK' /\ \A t \in Tx : RequestOK(t)'
<1>1. (StorageTypeOK /\ ControlTypeOK => TypeOK /\ \A t \in Tx : RequestOK(t))'
  BY TypeOKParts, PTL
<1> QED BY <1>1

\* The tables and their rows.
LEMMA StorageTabular ==
  ASSUME StorageTypeOK
  PROVE  /\ Tabular /\ DOMAIN db = TableName
         /\ DOMAIN db.approval_policies = Policies
         /\ DOMAIN db.approval_requests = Requests
         /\ DOMAIN db.approvers = Requests \X Users
         /\ DOMAIN db.audit_logs = Requests \X Event
BY DEF StorageTypeOK, Tables, LocksOK, TableName, Tabular

\* What Write does, table by table.
LEMMA WriteEffect ==
  ASSUME StorageTypeOK, NEW t \in Tx, NEW tab \in TableName,
         NEW id \in DOMAIN owner[tab], NEW row, Write(t, tab, id, row)
  PROVE  /\ db' = db
         /\ dirty'[tab] = [dirty[tab] EXCEPT ![id] = row]
         /\ owner'[tab] = [owner[tab] EXCEPT ![id] = t]
         /\ \A other \in TableName \ {tab} :
              dirty'[other] = dirty[other] /\ owner'[other] = owner[other]
         /\ DirtyIsCommitted => DirtyIsCommitted'
BY StorageTabular, WriteChanges DEF Tabular

\* Writing, committing and rolling back keep the tables' types.
LEMMA WriteType ==
  ASSUME StorageTypeOK, NEW t \in Tx
  PROVE  /\ \A q \in Requests, row \in RequestRow :
              Write(t, "approval_requests", q, row) => StorageTypeOK'
         /\ \A qu \in Requests \X Users, vote \in Vote :
              Write(t, "approvers", qu, vote) => StorageTypeOK'
         /\ \A qe \in Requests \X Event :
              Write(t, "audit_logs", qe, TRUE) => StorageTypeOK'
<1> USE DEF StorageTypeOK, Tables, LocksOK, TableName, Write
<1>1. ASSUME NEW q \in Requests, NEW row \in RequestRow,
             Write(t, "approval_requests", q, row)
      PROVE  StorageTypeOK'
  BY <1>1
<1>2. ASSUME NEW qu \in Requests \X Users, NEW vote \in Vote,
             Write(t, "approvers", qu, vote)
      PROVE  StorageTypeOK'
  BY <1>2
<1>3. ASSUME NEW qe \in Requests \X Event, Write(t, "audit_logs", qe, TRUE)
      PROVE  StorageTypeOK'
  BY <1>3
<1> QED
  <2> HIDE DEF StorageTypeOK, Write
  <2> QED BY <1>1, <1>2, <1>3

\* Ending a transaction keeps the tables' types.
LEMMA EndType ==
  ASSUME StorageTypeOK, NEW t \in Tx, CommitTx(t) \/ RollbackTx(t)
  PROVE  StorageTypeOK'
<1>1. LocksOK'
  BY DEF StorageTypeOK, LocksOK, TableName, CommitTx, RollbackTx, Unlocked
<1>2. CASE CommitTx(t)
  BY <1>1, <1>2 DEF StorageTypeOK, Tables, LocksOK, TableName, CommitTx, Sees
<1>3. CASE RollbackTx(t)
  BY <1>1, <1>3 DEF StorageTypeOK, Tables, LocksOK, TableName, RollbackTx
<1> QED BY <1>2, <1>3

USE DEF At, Goto

\* A statement leaves its transaction at a statement of the same request.
LEMMA ControlStep ==
  ASSUME ControlTypeOK, NEW t \in Tx, Start(t) \/ Step(t)
  PROVE  ControlTypeOK'
<1> USE DEF ControlTypeOK, RequestOK, Statement, DecideStatement, Begin,
            HttpRequest
<1>1. CASE Start(t)
  BY <1>1 DEF Start, DecideApprovalRequest, CancelApprovalRequest,
              AddApprovalRequestApprover, DecideRequest, CancelRequest, AddRequest
<1>2. ASSUME DecideGetPolicy(t) PROVE ControlTypeOK'
  BY <1>2 DEF DecideGetPolicy
<1>3. ASSUME RecordApproverDecision(t) PROVE ControlTypeOK'
  BY <1>3 DEF RecordApproverDecision
<1>4. ASSUME CountApprovedDecisions(t) PROVE ControlTypeOK'
  <2> DEFINE S == {u \in Users : Sees(t, "approvers", <<req[t].request, u>>)
                                   = "approved"}
  <2>1. Cardinality(S) \in Nat
    BY ApprovalsAssumption, FS_Subset, FS_CardinalityType
  <2>2. count' = [count EXCEPT ![t] = Cardinality(S)]
    BY <1>4 DEF CountApprovedDecisions
  <2> HIDE DEF S
  <2> QED BY <1>4, <2>1, <2>2 DEF CountApprovedDecisions
<1>5. ASSUME DecideGetMin(t) PROVE ControlTypeOK'
  BY <1>5 DEF DecideGetMin
<1>6. ASSUME UpdateApprovalRequestStatus(t) PROVE ControlTypeOK'
  BY <1>6 DEF UpdateApprovalRequestStatus
<1>7. ASSUME CancelUpdate(t) PROVE ControlTypeOK'
  BY <1>7 DEF CancelUpdate
<1>8. ASSUME CreateApprovalRequestApprover(t) PROVE ControlTypeOK'
  BY <1>8 DEF CreateApprovalRequestApprover
<1>9. ASSUME InsertAuditLog(t) PROVE ControlTypeOK'
  BY <1>9 DEF InsertAuditLog
<1>10. ASSUME Commit(t) PROVE ControlTypeOK'
  BY <1>10 DEF Commit, EndRequest
<1>11. ASSUME Rollback(t) PROVE ControlTypeOK'
  BY <1>11 DEF Rollback, EndRequest
<1> HIDE DEF ControlTypeOK
<1> QED BY <1>1, <1>2, <1>3, <1>4, <1>5, <1>6, <1>7, <1>8, <1>9, <1>10, <1>11
        DEF Step

\* Every statement that writes, writes a row of its table's type.
LEMMA StorageStep ==
  ASSUME StorageTypeOK, ControlTypeOK, NEW t \in Tx, Start(t) \/ Step(t)
  PROVE  StorageTypeOK'
<1>0. RequestOK(t) /\ pc[t] \in Statement
  BY DEF ControlTypeOK
<1>q. \A q \in Requests, s \in Status :
        [dirty.approval_requests[q] EXCEPT !.status = s] \in RequestRow
  <2>1. ASSUME NEW q \in Requests PROVE dirty.approval_requests[q] \in RequestRow
    BY DEF StorageTypeOK, Tables
  <2>2. ASSUME NEW row \in RequestRow, NEW s \in Status
        PROVE  [row EXCEPT !.status = s] \in RequestRow
    BY DEF RequestRow
  <2> QED BY <2>1, <2>2
<1>r. /\ \A r \in HttpRequest : r.request \in Requests
      /\ \A r \in DecideRequest \cup AddRequest : r.user \in Users
      /\ \A r \in DecideRequest : r.decision \in Vote \cap Status
      /\ \A r \in DecideRequest \cup CancelRequest : r \in HttpRequest
      /\ \A r \in DecideRequest : r.op = "decide"
      /\ \A r \in CancelRequest : r.op = "cancel"
  BY DEF HttpRequest, DecideRequest, CancelRequest, AddRequest, Vote, Status
<1>s. ASSUME UNCHANGED storage PROVE StorageTypeOK'
  BY <1>s DEF StorageTypeOK, LocksOK, storage
<1>1. CASE Start(t)
  BY <1>1, <1>s DEF Start, DecideApprovalRequest, CancelApprovalRequest,
                    AddApprovalRequestApprover, Begin
<1>2. CASE DecideGetPolicy(t) \/ CountApprovedDecisions(t) \/ DecideGetMin(t)
  BY <1>2, <1>s DEF DecideGetPolicy, CountApprovedDecisions, DecideGetMin
<1>3. CASE RecordApproverDecision(t)
  <2>1. req[t] \in DecideRequest
    BY <1>0, <1>3 DEF RecordApproverDecision, RequestOK, DecideStatement
  <2>2. <<req[t].request, req[t].user>> \in Requests \X Users
        /\ req[t].decision \in Vote
    BY <1>r, <2>1
  <2> QED BY <1>3, <2>2, WriteType DEF RecordApproverDecision
<1>4. CASE UpdateApprovalRequestStatus(t)
  <2>1. req[t] \in DecideRequest
    BY <1>0, <1>4 DEF UpdateApprovalRequestStatus, RequestOK, DecideStatement
  <2>2. req[t].request \in Requests /\ req[t].decision \in Status
    BY <1>r, <2>1
  <2> QED BY <1>4, <1>q, <2>2, WriteType DEF UpdateApprovalRequestStatus
<1>5. CASE CancelUpdate(t)
  <2>1. req[t] \in CancelRequest /\ "cancelled" \in Status
    BY <1>0, <1>5 DEF CancelUpdate, RequestOK, Status
  <2>2. req[t].request \in Requests
    BY <1>r, <2>1
  <2> QED BY <1>5, <1>q, <2>1, <2>2, WriteType DEF CancelUpdate
<1>6. CASE CreateApprovalRequestApprover(t)
  <2>1. req[t] \in AddRequest
    BY <1>0, <1>6 DEF CreateApprovalRequestApprover, RequestOK
  <2>2. <<req[t].request, req[t].user>> \in Requests \X Users
        /\ "waiting" \in Vote
    BY <1>r, <2>1 DEF HttpRequest, Vote
  <2> QED BY <1>6, <2>2, WriteType DEF CreateApprovalRequestApprover
<1>7. CASE InsertAuditLog(t)
  <2>1. req[t] \in DecideRequest \cup CancelRequest
    BY <1>0, <1>7 DEF InsertAuditLog, RequestOK
  <2> DEFINE event == IF req[t].op = "cancel" THEN "cancelled" ELSE req[t].user
  <2>2. <<req[t].request, event>> \in Requests \X Event
    BY <1>r, <2>1 DEF Event
  <2>3. Write(t, "audit_logs", <<req[t].request, event>>, TRUE)
    BY <1>7 DEF InsertAuditLog
  <2> HIDE DEF event
  <2> QED BY <2>2, <2>3, WriteType
<1>8. CASE Commit(t) \/ Rollback(t)
  BY <1>8, EndType DEF Commit, Rollback
<1> QED BY <1>1, <1>2, <1>3, <1>4, <1>5, <1>6, <1>7, <1>8 DEF Step

-----------------------------------------------------------------------------
(***************************************************************************)
(* LocksAreSound is inductive.                                             *)
(***************************************************************************)
\* Nothing is locked and nobody has voted initially.
LEMMA InitSound == Init => LocksAreSound
<1> SUFFICES ASSUME Init PROVE LocksAreSound
  OBVIOUS
<1>1. PICK policies \in [Policies -> PolicyRow] :
       db = [approval_policies |-> policies,
             approval_requests |->
               [q \in Requests |-> [status |-> "none", requested_by |-> Nil,
                                    policy |-> Nil]],
             approvers |-> [qu \in Requests \X Users |-> "none"],
             audit_logs |-> [qe \in Requests \X Event |-> FALSE]]
  BY DEF Init
<1>2. /\ dirty = db
      /\ owner = [tab \in DOMAIN Rows |-> [id \in Rows[tab] |-> Nil]]
      /\ pc = [t \in Tx |-> "idle"]
      /\ req = [t \in Tx |-> Nil]
      /\ count = [t \in Tx |-> 0]
  BY DEF Init
<1>3. db \in Tables
  BY <1>1 DEF Tables, RequestRow, Vote
<1>4. /\ DOMAIN Rows = TableName
      /\ Rows.approval_policies = Policies
      /\ Rows.approval_requests = Requests
      /\ Rows.approvers = Requests \X Users
      /\ Rows.audit_logs = Requests \X Event
  BY DEF Rows, TableName
<1>5. LocksOK
  <2> HIDE DEF Rows
  <2> QED BY <1>2, <1>4 DEF LocksOK, TableName
<1>6. \A t \in Tx : RequestOK(t) /\ RequestExists(t)
  BY <1>2 DEF RequestOK, RequestExists, DecideStatement
<1>7. TypeOK
  BY <1>2, <1>3, <1>5, TypeOKParts DEF StorageTypeOK, Statement
<1>8. owner.approval_requests = [q \in Requests |-> Nil]
      /\ owner.approvers = [qu \in Requests \X Users |-> Nil]
  <2> HIDE DEF Rows
  <2> QED BY <1>2, <1>4 DEF TableName
<1>9. \A q \in Requests, u \in Users : <<q, u>> \in Requests \X Users
  OBVIOUS
<1> QED BY <1>1, <1>2, <1>6, <1>7, <1>8, <1>9, NilAssumption
        DEF LocksAreSound, DirtyIsCommitted, NoVotesBeforehand, RequestLocks,
            ApproverLocks, RejectionLocks, RejectedOnce, Voters, StatusOf

\* A step that changes no approval request and no vote, and no transaction
\* that may have rejected, except by its audit entry.
LEMMA SoundElsewhere ==
  ASSUME LocksAreSound, TypeOK', DirtyIsCommitted',
         \A t \in Tx : RequestOK(t)' /\ RequestExists(t)',
         db'.approval_requests = db.approval_requests,
         db'.approvers = db.approvers,
         dirty'.approval_requests = dirty.approval_requests,
         dirty'.approvers = dirty.approvers,
         owner'.approval_requests = owner.approval_requests,
         owner'.approvers = owner.approvers,
         \A t \in Tx :
           \/ pc[t] \notin {"update_status", "insert_audit", "commit"}
           \/ /\ req'[t] = req[t]
              /\ \/ pc'[t] = pc[t]
                 \/ pc[t] = "insert_audit" /\ pc'[t] = "commit"
  PROVE  LocksAreSound'
<1> USE DEF LocksAreSound
<1>1. NoVotesBeforehand' /\ RequestLocks' /\ ApproverLocks' /\ RejectedOnce'
  BY DEF NoVotesBeforehand, RequestLocks, ApproverLocks, RejectedOnce, Voters,
         StatusOf
<1>2. RejectionLocks'
  <2> SUFFICES ASSUME NEW q \in Requests, NEW u \in Users, NEW t \in Tx,
                      owner.approvers[<<q, u>>] = t,
                      dirty.approvers[<<q, u>>] = "rejected"
               PROVE  /\ req'[t] = [op |-> "decide", user |-> u, request |-> q,
                                    decision |-> "rejected"]
                      /\ \/ pc'[t] = "update_status"
                         \/ pc'[t] \in {"insert_audit", "commit"} /\ Rejects(t, q)'
    BY DEF RejectionLocks
  <2>1. /\ req[t] = [op |-> "decide", user |-> u, request |-> q,
                     decision |-> "rejected"]
        /\ \/ pc[t] = "update_status"
           \/ pc[t] \in {"insert_audit", "commit"} /\ Rejects(t, q)
    BY DEF RejectionLocks
  <2>2. Rejects(t, q) => Rejects(t, q)'
    BY DEF Rejects
  <2> QED BY <2>1, <2>2
<1> QED BY <1>1, <1>2

OthersStay(t) ==
  \A u \in Tx \ {t} : pc'[u] = pc[u] /\ req'[u] = req[u]

\* What the parts of the invariant say of the tables, for use below.
LEMMA SoundStorage ==
  ASSUME LocksAreSound
  PROVE  /\ StorageTypeOK /\ ControlTypeOK /\ Tabular /\ DOMAIN db = TableName
         /\ DOMAIN db.approval_requests = Requests
         /\ DOMAIN db.approvers = Requests \X Users
         /\ dirty.approvers \in [Requests \X Users -> Vote]
         /\ owner.approvers \in [Requests \X Users -> Tx \cup {Nil}]
         /\ dirty.approval_requests \in [Requests -> RequestRow]
         /\ owner.approval_requests \in [Requests -> Tx \cup {Nil}]
<1>1. StorageTypeOK /\ ControlTypeOK
  BY TypeOKParts DEF LocksAreSound
<1> QED BY <1>1, StorageTabular DEF StorageTypeOK, Tables, LocksOK

\* Recording a vote nobody has given, in a transaction that has not rejected.
LEMMA SoundVote ==
  ASSUME LocksAreSound, TypeOK', \A x \in Tx : RequestOK(x)' /\ RequestExists(x)',
         NEW t \in Tx, NEW q \in Requests, NEW u \in Users, NEW vote \in Vote,
         Write(t, "approvers", <<q, u>>, vote), OthersStay(t),
         dirty.approvers[<<q, u>>] \in {"none", "waiting"},
         StatusOf(q) # "none",
         pc[t] \notin {"update_status", "insert_audit", "commit"},
         vote = "rejected" =>
           /\ pc'[t] = "update_status"
           /\ req'[t] = [op |-> "decide", user |-> u, request |-> q,
                         decision |-> "rejected"]
  PROVE  LocksAreSound'
<1> USE DEF LocksAreSound
<1>1. <<q, u>> \in Requests \X Users
  OBVIOUS
<1>2. /\ db' = db
      /\ dirty'.approvers = [dirty.approvers EXCEPT ![<<q, u>>] = vote]
      /\ owner'.approvers = [owner.approvers EXCEPT ![<<q, u>>] = t]
      /\ dirty'.approval_requests = dirty.approval_requests
      /\ owner'.approval_requests = owner.approval_requests
      /\ DirtyIsCommitted'
  <2>1. /\ StorageTypeOK /\ DirtyIsCommitted
        /\ "approvers" \in TableName /\ <<q, u>> \in DOMAIN owner["approvers"]
    BY <1>1, SoundStorage DEF TableName
  <2>2. /\ db' = db
        /\ dirty'["approvers"] = [dirty["approvers"] EXCEPT ![<<q, u>>] = vote]
        /\ owner'["approvers"] = [owner["approvers"] EXCEPT ![<<q, u>>] = t]
        /\ \A other \in TableName \ {"approvers"} :
             dirty'[other] = dirty[other] /\ owner'[other] = owner[other]
        /\ DirtyIsCommitted'
    <3> HIDE DEF LocksAreSound
    <3> QED BY <2>1, WriteEffect
  <2> QED BY <2>1, <2>2 DEF TableName
<1>3. owner.approvers[<<q, u>>] \in {Nil, t}
  BY DEF Write, Free
<1>4. NoVotesBeforehand' /\ RequestLocks' /\ RejectedOnce'
  BY <1>2 DEF NoVotesBeforehand, RequestLocks, RejectedOnce, Voters, StatusOf
<1>5. db.approvers[<<q, u>>] \in {"none", "waiting"}
  <2>1. CASE owner.approvers[<<q, u>>] = Nil
    <3>1. /\ "approvers" \in DOMAIN owner
          /\ <<q, u>> \in DOMAIN owner["approvers"]
      BY <1>1, SoundStorage DEF Tabular, TableName
    <3> QED BY <2>1, <3>1 DEF DirtyIsCommitted
  <2>2. CASE owner.approvers[<<q, u>>] = t
    BY <2>2, NilAssumption DEF ApproverLocks
  <2> QED BY <1>3, <2>1, <2>2
<1>6. ApproverLocks'
  <2> SUFFICES ASSUME NEW q2 \in Requests, NEW u2 \in Users,
                      owner'.approvers[<<q2, u2>>] # Nil
               PROVE  /\ StatusOf(q2) # "none"
                      /\ db.approvers[<<q2, u2>>] \in {"none", "waiting"}
    BY <1>2 DEF ApproverLocks, StatusOf
  <2>1. CASE q2 = q /\ u2 = u
    BY <1>5, <2>1
  <2>2. CASE q2 # q \/ u2 # u
    BY <1>2, <2>2, SoundStorage DEF ApproverLocks
  <2> QED BY <2>1, <2>2
<1>7. RejectionLocks'
  <2> SUFFICES ASSUME NEW q2 \in Requests, NEW u2 \in Users, NEW t2 \in Tx,
                      owner'.approvers[<<q2, u2>>] = t2,
                      dirty'.approvers[<<q2, u2>>] = "rejected"
               PROVE  /\ req'[t2] = [op |-> "decide", user |-> u2,
                                     request |-> q2, decision |-> "rejected"]
                      /\ \/ pc'[t2] = "update_status"
                         \/ pc'[t2] \in {"insert_audit", "commit"}
                              /\ Rejects(t2, q2)'
    BY DEF RejectionLocks
  <2>1. CASE q2 = q /\ u2 = u
    BY <1>1, <1>2, <2>1, SoundStorage
  <2>2. CASE q2 # q \/ u2 # u
    <3>1. /\ owner.approvers[<<q2, u2>>] = t2
          /\ dirty.approvers[<<q2, u2>>] = "rejected"
      BY <1>2, <2>2, SoundStorage
    <3>2. /\ req[t2] = [op |-> "decide", user |-> u2, request |-> q2,
                        decision |-> "rejected"]
          /\ \/ pc[t2] = "update_status"
             \/ pc[t2] \in {"insert_audit", "commit"} /\ Rejects(t2, q2)
      BY <3>1 DEF RejectionLocks
    <3>3. t2 # t
      BY <3>2
    <3> QED BY <1>2, <3>2, <3>3 DEF OthersStay, Rejects
  <2> QED BY <2>1, <2>2
<1> QED BY <1>2, <1>4, <1>6, <1>7

\* Changing the status of an open request: a cancellation, or the decision
\* of the transaction's own vote.
LEMMA SoundStatus ==
  ASSUME LocksAreSound, TypeOK', \A x \in Tx : RequestOK(x)' /\ RequestExists(x)',
         NEW t \in Tx, NEW q \in Requests, NEW s \in Status,
         Write(t, "approval_requests", q,
               [dirty.approval_requests[q] EXCEPT !.status = s]),
         OthersStay(t), req'[t] = req[t], pc'[t] = "insert_audit",
         dirty.approval_requests[q].status \in {"draft", "pending"},
         \/ pc[t] = "cancel"
         \/ /\ pc[t] = "update_status"
            /\ q = req[t].request /\ s = req[t].decision
  PROVE  LocksAreSound'
<1> USE DEF LocksAreSound
<1>2. /\ db' = db
      /\ dirty'.approval_requests =
           [dirty.approval_requests EXCEPT
              ![q] = [dirty.approval_requests[q] EXCEPT !.status = s]]
      /\ owner'.approval_requests = [owner.approval_requests EXCEPT ![q] = t]
      /\ dirty'.approvers = dirty.approvers
      /\ owner'.approvers = owner.approvers
      /\ DirtyIsCommitted'
  <2> DEFINE row == [dirty.approval_requests[q] EXCEPT !.status = s]
  <2>1. /\ StorageTypeOK /\ DirtyIsCommitted
        /\ "approval_requests" \in TableName
        /\ q \in DOMAIN owner["approval_requests"]
    BY SoundStorage DEF TableName
  <2>2. /\ db' = db
        /\ dirty'["approval_requests"] =
             [dirty["approval_requests"] EXCEPT ![q] = row]
        /\ owner'["approval_requests"] =
             [owner["approval_requests"] EXCEPT ![q] = t]
        /\ \A other \in TableName \ {"approval_requests"} :
             dirty'[other] = dirty[other] /\ owner'[other] = owner[other]
        /\ DirtyIsCommitted'
    <3> HIDE DEF LocksAreSound, row
    <3>1. Write(t, "approval_requests", q, row)
      BY DEF row
    <3> QED BY <2>1, <3>1, WriteEffect
  <2> QED BY <2>1, <2>2 DEF TableName
<1>3. owner.approval_requests[q] \in {Nil, t}
  BY DEF Write, Free
<1>4. NoVotesBeforehand' /\ ApproverLocks' /\ RejectedOnce'
  BY <1>2 DEF NoVotesBeforehand, ApproverLocks, RejectedOnce, Voters, StatusOf
<1>5. StatusOf(q) \in {"draft", "pending"}
  <2>1. CASE owner.approval_requests[q] = Nil
    <3>1. /\ "approval_requests" \in DOMAIN owner
          /\ q \in DOMAIN owner["approval_requests"]
      BY SoundStorage DEF Tabular, TableName
    <3> QED BY <2>1, <3>1 DEF DirtyIsCommitted, StatusOf
  <2>2. CASE owner.approval_requests[q] = t
    BY <2>2, NilAssumption DEF RequestLocks
  <2> QED BY <1>3, <2>1, <2>2
<1>6. dirty'.approval_requests[q].status = s /\ s # "none"
  BY <1>2, SoundStorage DEF Status, RequestRow
<1>7. RequestLocks'
  <2> SUFFICES ASSUME NEW q2 \in Requests, owner'.approval_requests[q2] # Nil
               PROVE  /\ StatusOf(q2) \in {"draft", "pending"}
                      /\ dirty'.approval_requests[q2].status # "none"
    BY <1>2 DEF RequestLocks, StatusOf
  <2>1. CASE q2 = q
    BY <1>5, <1>6, <2>1
  <2>2. CASE q2 # q
    BY <1>2, <2>2, SoundStorage DEF RequestLocks
  <2> QED BY <2>1, <2>2
<1>8. RejectionLocks'
  <2> SUFFICES ASSUME NEW q2 \in Requests, NEW u2 \in Users, NEW t2 \in Tx,
                      owner.approvers[<<q2, u2>>] = t2,
                      dirty.approvers[<<q2, u2>>] = "rejected"
               PROVE  /\ req'[t2] = [op |-> "decide", user |-> u2,
                                     request |-> q2, decision |-> "rejected"]
                      /\ \/ pc'[t2] = "update_status"
                         \/ pc'[t2] \in {"insert_audit", "commit"}
                              /\ Rejects(t2, q2)'
    BY <1>2 DEF RejectionLocks
  <2>1. /\ req[t2] = [op |-> "decide", user |-> u2, request |-> q2,
                      decision |-> "rejected"]
        /\ \/ pc[t2] = "update_status"
           \/ pc[t2] \in {"insert_audit", "commit"} /\ Rejects(t2, q2)
    BY DEF RejectionLocks
  <2>2. CASE t2 = t
    <3>1. q2 = q /\ s = "rejected"
      BY <2>1, <2>2
    <3>2. Rejects(t2, q2)'
      BY <1>2, <1>6, <2>2, <3>1, SoundStorage DEF Rejects
    <3> QED BY <2>1, <2>2, <3>2
  <2>3. CASE t2 # t
    <3>1. Rejects(t2, q2) => Rejects(t2, q2)'
      BY <1>2, <1>3, <2>3, NilAssumption, SoundStorage DEF Rejects
    <3> QED BY <2>1, <2>3, <3>1 DEF OthersStay
  <2> QED BY <2>2, <2>3
<1> QED BY <1>2, <1>4, <1>7, <1>8

\* The transaction ends: what it wrote takes effect, or is undone.
LEMMA EndEffect ==
  ASSUME LocksAreSound, NEW t \in Tx, CommitTx(t) \/ RollbackTx(t)
  PROVE  /\ DirtyIsCommitted'
         /\ \A q \in Requests :
              /\ owner'.approval_requests[q] =
                   IF owner.approval_requests[q] = t
                     THEN Nil ELSE owner.approval_requests[q]
              /\ owner.approval_requests[q] # t =>
                   dirty'.approval_requests[q] = dirty.approval_requests[q]
              /\ db'.approval_requests[q] =
                   IF owner.approval_requests[q] = t /\ ~RollbackTx(t)
                     THEN dirty.approval_requests[q]
                     ELSE db.approval_requests[q]
         /\ \A qu \in Requests \X Users :
              /\ owner'.approvers[qu] =
                   IF owner.approvers[qu] = t THEN Nil ELSE owner.approvers[qu]
              /\ owner.approvers[qu] # t =>
                   dirty'.approvers[qu] = dirty.approvers[qu]
              /\ db'.approvers[qu] =
                   IF owner.approvers[qu] = t /\ ~RollbackTx(t)
                     THEN dirty.approvers[qu] ELSE db.approvers[qu]
<1>1. /\ Tabular /\ DirtyIsCommitted
      /\ "approval_requests" \in DOMAIN db /\ "approvers" \in DOMAIN db
      /\ DOMAIN db["approval_requests"] = Requests
      /\ DOMAIN db["approvers"] = Requests \X Users
  BY SoundStorage DEF TableName, LocksAreSound
<1>2. /\ DirtyIsCommitted'
      /\ \A tab \in DOMAIN db : \A id \in DOMAIN db[tab] :
           /\ owner'[tab][id] =
                IF owner[tab][id] = t THEN Nil ELSE owner[tab][id]
           /\ owner[tab][id] # t => dirty'[tab][id] = dirty[tab][id]
           /\ db'[tab][id] = IF owner[tab][id] = t /\ ~RollbackTx(t)
                               THEN dirty[tab][id] ELSE db[tab][id]
  BY <1>1, EndChanges
<1> QED BY <1>1, <1>2

LEMMA SoundEnd ==
  ASSUME LocksAreSound, TypeOK', \A x \in Tx : RequestOK(x)',
         NEW t \in Tx, OthersStay(t), pc'[t] = "idle",
         \/ CommitTx(t) /\ pc[t] = "commit"
         \/ RollbackTx(t)
  PROVE  LocksAreSound'
<1> USE DEF LocksAreSound, StatusOf
<1>1. CommitTx(t) \/ RollbackTx(t)
  OBVIOUS
<1>2. \A q \in Requests, u \in Users : <<q, u>> \in Requests \X Users
  OBVIOUS
<1>3. ASSUME NEW q \in Requests
      PROVE  /\ StatusOf(q) # "none" => StatusOf(q)' # "none"
             /\ StatusOf(q)' # "none" => StatusOf(q) # "none"
             /\ owner.approval_requests[q] # t => StatusOf(q)' = StatusOf(q)
  BY <1>1, EndEffect, NilAssumption DEF RequestLocks
<1>4. ASSUME NEW x \in Tx PROVE RequestExists(x)'
  <2>1. CASE x = t
    BY <2>1 DEF RequestExists
  <2>2. CASE x # t
    <3> SUFFICES ASSUME pc[x] # "idle" PROVE RequestExists(x)'
      BY <2>2 DEF RequestExists, OthersStay
    <3>1. req[x].request \in Requests
      BY DEF RequestOK, HttpRequest, DecideRequest, CancelRequest, AddRequest
    <3> QED BY <1>3, <2>2, <3>1 DEF RequestExists, OthersStay
  <2> QED BY <2>1, <2>2
<1>5. NoVotesBeforehand'
  <2> SUFFICES ASSUME NEW q \in Requests, NEW u \in Users, StatusOf(q)' = "none"
               PROVE  db'.approvers[<<q, u>>] = "none"
    BY DEF NoVotesBeforehand
  <2>1. StatusOf(q) = "none"
    BY <1>3
  <2>2. owner.approvers[<<q, u>>] # t
    BY <2>1, NilAssumption DEF ApproverLocks
  <2> QED BY <1>1, <1>2, <2>1, <2>2, EndEffect DEF NoVotesBeforehand
<1>6. RequestLocks'
  <2> SUFFICES ASSUME NEW q \in Requests, owner'.approval_requests[q] # Nil
               PROVE  /\ StatusOf(q)' \in {"draft", "pending"}
                      /\ dirty'.approval_requests[q].status # "none"
    BY DEF RequestLocks
  <2>1. owner.approval_requests[q] \notin {t, Nil}
    BY <1>1, EndEffect
  <2> QED BY <1>1, <2>1, EndEffect DEF RequestLocks
<1>7. ApproverLocks'
  <2> SUFFICES ASSUME NEW q \in Requests, NEW u \in Users,
                      owner'.approvers[<<q, u>>] # Nil
               PROVE  /\ StatusOf(q)' # "none"
                      /\ db'.approvers[<<q, u>>] \in {"none", "waiting"}
    BY DEF ApproverLocks
  <2>1. owner.approvers[<<q, u>>] \notin {t, Nil}
    BY <1>1, <1>2, EndEffect
  <2> QED BY <1>1, <1>2, <1>3, <2>1, EndEffect DEF ApproverLocks
<1>8. RejectionLocks'
  <2> SUFFICES ASSUME NEW q \in Requests, NEW u \in Users, NEW x \in Tx,
                      owner'.approvers[<<q, u>>] = x,
                      dirty'.approvers[<<q, u>>] = "rejected"
               PROVE  /\ req'[x] = [op |-> "decide", user |-> u, request |-> q,
                                    decision |-> "rejected"]
                      /\ \/ pc'[x] = "update_status"
                         \/ pc'[x] \in {"insert_audit", "commit"}
                              /\ Rejects(x, q)'
    BY DEF RejectionLocks
  <2>1. x # t /\ owner.approvers[<<q, u>>] = x
    BY <1>1, <1>2, EndEffect, NilAssumption
  <2>2. dirty.approvers[<<q, u>>] = "rejected"
    BY <1>1, <1>2, <2>1, EndEffect
  <2>3. /\ req[x] = [op |-> "decide", user |-> u, request |-> q,
                     decision |-> "rejected"]
        /\ \/ pc[x] = "update_status"
           \/ pc[x] \in {"insert_audit", "commit"} /\ Rejects(x, q)
    BY <2>1, <2>2 DEF RejectionLocks
  <2>4. Rejects(x, q) => Rejects(x, q)'
    BY <1>1, <2>1, EndEffect DEF Rejects
  <2> QED BY <2>1, <2>3, <2>4 DEF OthersStay
<1>9. RejectedOnce'
  <2> SUFFICES ASSUME NEW q \in Requests, NEW u \in Users,
                      db'.approvers[<<q, u>>] = "rejected"
               PROVE  /\ StatusOf(q)' = "rejected"
                      /\ \A v \in Users :
                           db'.approvers[<<q, v>>] = "rejected" => v = u
    BY DEF RejectedOnce, Voters
  <2>1. ASSUME NEW v \in Users, db'.approvers[<<q, v>>] = "rejected"
        PROVE  \/ db.approvers[<<q, v>>] = "rejected"
               \/ /\ owner.approvers[<<q, v>>] = t /\ pc[t] = "commit"
                  /\ dirty.approvers[<<q, v>>] = "rejected"
    BY <1>1, <1>2, <2>1, EndEffect
  <2>2. ASSUME NEW v \in Users, db.approvers[<<q, v>>] = "rejected"
        PROVE  /\ StatusOf(q) = "rejected" /\ owner.approval_requests[q] = Nil
               /\ \A w \in Users : db.approvers[<<q, w>>] = "rejected" => w = v
    BY <2>2 DEF RejectedOnce, Voters, RequestLocks
  <2>3. ASSUME NEW v \in Users, owner.approvers[<<q, v>>] = t, pc[t] = "commit",
               dirty.approvers[<<q, v>>] = "rejected"
        PROVE  /\ owner.approval_requests[q] = t
               /\ dirty.approval_requests[q].status = "rejected"
               /\ req[t].user = v
    <3>1. /\ req[t] = [op |-> "decide", user |-> v, request |-> q,
                       decision |-> "rejected"]
          /\ \/ pc[t] = "update_status"
             \/ pc[t] \in {"insert_audit", "commit"} /\ Rejects(t, q)
      <4> HIDE DEF StatusOf
      <4> QED BY <2>3 DEF RejectionLocks
    <3> QED BY <2>3, <3>1 DEF Rejects
  <2>4. CASE db.approvers[<<q, u>>] = "rejected"
    <3>1. /\ StatusOf(q) = "rejected" /\ owner.approval_requests[q] # t
      BY <2>2, <2>4, NilAssumption
    <3>2. ASSUME NEW v \in Users, db'.approvers[<<q, v>>] = "rejected"
          PROVE  db.approvers[<<q, v>>] = "rejected"
      BY <1>1, <1>2, <2>3, <3>1, <3>2, EndEffect
    <3> QED BY <1>3, <2>2, <2>4, <3>1, <3>2
  <2>5. CASE db.approvers[<<q, u>>] # "rejected"
    <3>1. ~RollbackTx(t) /\ pc[t] = "commit"
      BY <1>1, <1>2, <2>5, EndEffect
    <3>2. /\ owner.approvers[<<q, u>>] = t
          /\ dirty.approvers[<<q, u>>] = "rejected"
      BY <2>1, <2>5
    <3>3. /\ owner.approval_requests[q] = t
          /\ dirty.approval_requests[q].status = "rejected"
          /\ req[t].user = u
      BY <2>3, <3>1, <3>2
    <3>4. StatusOf(q)' = "rejected"
      BY <1>1, <3>1, <3>3, EndEffect
    <3>5. ASSUME NEW v \in Users, db'.approvers[<<q, v>>] = "rejected"
          PROVE  v = u
      <4>1. db.approvers[<<q, v>>] # "rejected"
        BY <2>2, <3>3, NilAssumption
      <4> QED BY <2>1, <2>3, <3>1, <3>3, <3>5, <4>1
    <3> QED BY <3>4, <3>5
  <2> QED BY <2>4, <2>5
<1> QED BY <1>1, <1>4, <1>5, <1>6, <1>7, <1>8, <1>9, EndEffect

\* A new request: nobody has locked it or an approver of it.
LEMMA SoundCreate ==
  ASSUME LocksAreSound, NEW q \in Requests, NEW user \in Users,
         NEW policy \in Policies \cup {Nil}, NEW status \in Status,
         NEW assigned \in SUBSET Users,
         CreateApprovalRequest(q, user, policy, status, assigned)
  PROVE  LocksAreSound'
<1> USE DEF LocksAreSound
<1> DEFINE row == [status |-> status, requested_by |-> user, policy |-> policy]
           votes(old) == [qu \in DOMAIN old |->
                            IF qu \in {q} \X assigned THEN "waiting"
                                                      ELSE old[qu]]
           created(old) == [old EXCEPT !.approval_requests[q] = row,
                                       !.approvers = votes(@),
                                       !.audit_logs[<<q, "created">>] = TRUE]
<1>1. /\ db' = created(db) /\ dirty' = created(dirty)
      /\ owner' = owner /\ pc' = pc /\ req' = req /\ count' = count
      /\ StatusOf(q) = "none"
  BY DEF CreateApprovalRequest, StatusOf
<1>2. /\ StorageTypeOK /\ db \in Tables /\ dirty \in Tables /\ LocksOK
  BY SoundStorage DEF StorageTypeOK
<1>3. row \in RequestRow /\ status # "none" /\ <<q, "created">> \in Requests \X Event
  BY DEF RequestRow, Status, Event
<1>4. ASSUME NEW old \in Tables
      PROVE  /\ created(old) \in Tables
             /\ created(old).approval_policies = old.approval_policies
             /\ created(old).approval_requests =
                  [old.approval_requests EXCEPT ![q] = row]
             /\ created(old).approvers = votes(old.approvers)
             /\ created(old).audit_logs =
                  [old.audit_logs EXCEPT ![<<q, "created">>] = TRUE]
  <2>1. votes(old.approvers) \in [Requests \X Users -> Vote]
    BY DEF Tables, Vote
  <2> HIDE DEF row, votes
  <2> QED BY <1>3, <2>1 DEF Tables
<1> HIDE DEF created, row
<1>e. /\ db' \in Tables /\ dirty' \in Tables
      /\ db'.approval_policies = db.approval_policies
      /\ dirty'.approval_policies = dirty.approval_policies
      /\ db'.approval_requests = [db.approval_requests EXCEPT ![q] = row]
      /\ dirty'.approval_requests = [dirty.approval_requests EXCEPT ![q] = row]
      /\ db'.approvers = votes(db.approvers)
      /\ dirty'.approvers = votes(dirty.approvers)
      /\ db'.audit_logs = [db.audit_logs EXCEPT ![<<q, "created">>] = TRUE]
      /\ dirty'.audit_logs = [dirty.audit_logs EXCEPT ![<<q, "created">>] = TRUE]
  <2> HIDE DEF votes, LocksAreSound
  <2> QED BY <1>1, <1>2, <1>4
<1>d. \A tables \in {db, dirty} :
        /\ DOMAIN tables.approval_requests = Requests
        /\ DOMAIN tables.approvers = Requests \X Users
        /\ DOMAIN tables.audit_logs = Requests \X Event
  BY <1>2 DEF Tables
<1>5. TypeOK'
  <2>1. StorageTypeOK'
    BY <1>1, <1>2, <1>e DEF StorageTypeOK, LocksOK
  <2>2. ControlTypeOK'
    BY <1>1, SoundStorage DEF ControlTypeOK, RequestOK
  <2> QED BY <2>1, <2>2, TypeOKNext
<1>6. /\ owner.approval_requests[q] = Nil
      /\ \A u \in Users : /\ owner.approvers[<<q, u>>] = Nil
                          /\ db.approvers[<<q, u>>] = "none"
  BY <1>1 DEF RequestLocks, ApproverLocks, NoVotesBeforehand
<1>7. \A q2 \in Requests :
        /\ db'.approval_requests[q2] =
             IF q2 = q THEN row ELSE db.approval_requests[q2]
        /\ dirty'.approval_requests[q2] =
             IF q2 = q THEN row ELSE dirty.approval_requests[q2]
  BY <1>d, <1>e
<1>8. \A qu \in Requests \X Users :
        /\ db'.approvers[qu] =
             IF qu \in {q} \X assigned THEN "waiting" ELSE db.approvers[qu]
        /\ dirty'.approvers[qu] =
             IF qu \in {q} \X assigned THEN "waiting" ELSE dirty.approvers[qu]
  BY <1>d, <1>e
<1>9. \A qe \in Requests \X Event :
        /\ db'.audit_logs[qe] =
             IF qe = <<q, "created">> THEN TRUE ELSE db.audit_logs[qe]
        /\ dirty'.audit_logs[qe] =
             IF qe = <<q, "created">> THEN TRUE ELSE dirty.audit_logs[qe]
  BY <1>d, <1>e
<1>10. \A p \in Policies :
         /\ db'.approval_policies[p] = db.approval_policies[p]
         /\ dirty'.approval_policies[p] = dirty.approval_policies[p]
  BY <1>e
<1>11. DirtyIsCommitted'
  <2> SUFFICES ASSUME NEW tab \in TableName, NEW id \in DOMAIN owner[tab],
                      owner[tab][id] = Nil
               PROVE  dirty'[tab][id] = db'[tab][id]
    BY <1>1, <1>2 DEF DirtyIsCommitted, LocksOK
  <2>0. dirty[tab][id] = db[tab][id]
    BY <1>2 DEF DirtyIsCommitted, LocksOK
  <2>1. CASE tab = "approval_policies"
    BY <1>2, <1>10, <2>0, <2>1 DEF LocksOK
  <2>2. CASE tab = "approval_requests"
    BY <1>2, <1>7, <2>0, <2>2 DEF LocksOK
  <2>3. CASE tab = "approvers"
    BY <1>2, <1>8, <2>0, <2>3 DEF LocksOK
  <2>4. CASE tab = "audit_logs"
    BY <1>2, <1>9, <2>0, <2>4 DEF LocksOK
  <2> QED BY <2>1, <2>2, <2>3, <2>4 DEF TableName
<1>12. row.status = status
  BY DEF row
<1>13. \A x \in Tx : RequestOK(x)' /\ RequestExists(x)'
  <2> SUFFICES ASSUME NEW x \in Tx PROVE RequestOK(x)' /\ RequestExists(x)'
    OBVIOUS
  <2>1. RequestOK(x)'
    BY <1>1 DEF RequestOK
  <2>2. pc[x] # "idle" => req[x].request \in Requests
    BY DEF RequestOK, HttpRequest, DecideRequest, CancelRequest, AddRequest
  <2> QED BY <1>1, <1>3, <1>7, <1>12, <2>1, <2>2 DEF RequestExists, StatusOf
<1>14. NoVotesBeforehand'
  BY <1>3, <1>7, <1>8, <1>12 DEF NoVotesBeforehand, StatusOf
<1>15. RequestLocks' /\ ApproverLocks'
  BY <1>1, <1>6, <1>7, <1>8 DEF RequestLocks, ApproverLocks, StatusOf
<1>16. RejectionLocks'
  BY <1>1, <1>6, <1>7, <1>8, NilAssumption DEF RejectionLocks, Rejects
<1>17. RejectedOnce'
  BY <1>6, <1>7, <1>8 DEF RejectedOnce, Voters, StatusOf
<1> QED BY <1>5, <1>11, <1>13, <1>14, <1>15, <1>16, <1>17

\* Every step of Next falls under one of the lemmas above.
LEMMA NextSound == LocksAreSound /\ [Next]_vars => LocksAreSound'
<1> SUFFICES ASSUME LocksAreSound, [Next]_vars PROVE LocksAreSound'
  OBVIOUS
<1>0. /\ StorageTypeOK /\ ControlTypeOK /\ DirtyIsCommitted
      /\ \A x \in Tx : RequestOK(x) /\ RequestExists(x)
  BY SoundStorage DEF LocksAreSound
<1>d. ASSUME UNCHANGED storage PROVE DirtyIsCommitted'
  BY <1>0, <1>d DEF DirtyIsCommitted, storage
<1>1. CASE UNCHANGED vars
  <2>1. TypeOK' /\ \A x \in Tx : RequestOK(x)' /\ RequestExists(x)'
    BY <1>0, <1>1, TypeOKNext
       DEF vars, StorageTypeOK, LocksOK, ControlTypeOK, RequestOK,
           RequestExists, StatusOf
  <2> QED BY <1>1, <1>d, <2>1, SoundElsewhere DEF vars, storage
<1>2. ASSUME NEW p \in Policies, NEW row \in PolicyRow,
             UpdateApprovalPolicy(p, row)
      PROVE  LocksAreSound'
  <2>1. /\ WriteAndCommit("approval_policies", p, row)
        /\ UNCHANGED <<pc, req, count>>
    BY <1>2 DEF UpdateApprovalPolicy
  <2>2. /\ owner' = owner
        /\ db'.approval_requests = db.approval_requests
        /\ db'.approvers = db.approvers
        /\ dirty'.approval_requests = dirty.approval_requests
        /\ dirty'.approvers = dirty.approvers
        /\ StorageTypeOK'
    BY <1>0, <2>1 DEF WriteAndCommit, StorageTypeOK, Tables, LocksOK
  <2>3. DirtyIsCommitted'
    <3>1. Tabular /\ "approval_policies" \in DOMAIN db
          /\ p \in DOMAIN db["approval_policies"]
      BY <1>0, StorageTabular DEF TableName
    <3> QED BY <1>0, <2>1, <3>1, WriteAndCommitChanges
  <2>4. TypeOK' /\ \A x \in Tx : RequestOK(x)' /\ RequestExists(x)'
    BY <1>0, <2>1, <2>2, TypeOKNext
       DEF ControlTypeOK, RequestOK, RequestExists, StatusOf
  <2> QED BY <2>1, <2>2, <2>3, <2>4, SoundElsewhere
<1>3. ASSUME NEW q \in Requests, NEW u \in Users, NEW p \in Policies \cup {Nil},
             NEW s \in Status, NEW assigned \in {{}} \cup {{a} : a \in Users},
             CreateApprovalRequest(q, u, p, s, assigned)
      PROVE  LocksAreSound'
  <2>1. assigned \in SUBSET Users
    OBVIOUS
  <2> QED BY <1>3, <2>1, SoundCreate
<1>4. ASSUME NEW t \in Tx, Start(t) \/ Step(t) PROVE LocksAreSound'
  <2>0. TypeOK' /\ \A x \in Tx : RequestOK(x)'
    BY <1>0, <1>4, StorageStep, ControlStep, TypeOKNext
  <2>r. /\ \A r \in HttpRequest : r.request \in Requests
        /\ \A r \in DecideRequest \cup AddRequest : r.user \in Users
        /\ \A r \in DecideRequest : /\ r.op = "decide"
                                    /\ r.decision \in {"approved", "rejected"}
                                    /\ r = [op |-> "decide", user |-> r.user,
                                            request |-> r.request,
                                            decision |-> r.decision]
        /\ {"approved", "rejected", "waiting"} \subseteq Vote
        /\ {"approved", "rejected", "cancelled"} \subseteq Status
    BY DEF HttpRequest, DecideRequest, CancelRequest, AddRequest, Vote, Status
  <2>e. ASSUME db' = db, OthersStay(t),
               \/ req'[t] = req[t] /\ pc[t] # "idle"
               \/ StatusOf(req'[t].request) # "none"
        PROVE  \A x \in Tx : RequestExists(x)'
    BY <1>0, <2>e DEF RequestExists, OthersStay, StatusOf
  <2>1. CASE Start(t)
    <3>1. PICK q \in Requests, r \in HttpRequest, stmt \in Statement :
            /\ Begin(t, r, stmt) /\ r.request = q /\ StatusOf(q) # "none"
      <4> USE DEF StatusOf, HttpRequest, Statement
      <4>1. PICK u \in Users, q \in Requests :
              \/ \E d \in {"approved", "rejected"} : DecideApprovalRequest(t, u, q, d)
              \/ CancelApprovalRequest(t, u, q)
              \/ AddApprovalRequestApprover(t, u, q)
        BY <2>1 DEF Start
      <4>2. ASSUME NEW d \in {"approved", "rejected"},
                   DecideApprovalRequest(t, u, q, d)
            PROVE  \E r \in HttpRequest, stmt \in Statement :
                     Begin(t, r, stmt) /\ r.request = q /\ StatusOf(q) # "none"
        BY <4>2 DEF DecideApprovalRequest, DecideRequest
      <4>3. ASSUME CancelApprovalRequest(t, u, q)
            PROVE  \E r \in HttpRequest, stmt \in Statement :
                     Begin(t, r, stmt) /\ r.request = q /\ StatusOf(q) # "none"
        BY <4>3 DEF CancelApprovalRequest, CancelRequest
      <4>4. ASSUME AddApprovalRequestApprover(t, u, q)
            PROVE  \E r \in HttpRequest, stmt \in Statement :
                     Begin(t, r, stmt) /\ r.request = q /\ StatusOf(q) # "none"
        BY <4>4 DEF AddApprovalRequestApprover, AddRequest
      <4> QED BY <4>1, <4>2, <4>3, <4>4
    <3>2. /\ UNCHANGED storage /\ pc[t] = "idle" /\ OthersStay(t)
          /\ req'[t] = r
      BY <1>0, <3>1 DEF Begin, OthersStay, ControlTypeOK
    <3>3. \A x \in Tx : RequestExists(x)'
      BY <2>e, <3>1, <3>2 DEF storage
    <3> QED BY <1>d, <2>0, <3>2, <3>3, SoundElsewhere DEF storage, OthersStay
  <2>2. CASE DecideGetPolicy(t) \/ CountApprovedDecisions(t) \/ DecideGetMin(t)
    <3>1. /\ UNCHANGED storage /\ OthersStay(t) /\ req' = req
          /\ pc[t] \in {"get_policy", "count_approved", "get_min"}
      BY <1>0, <2>2 DEF DecideGetPolicy, CountApprovedDecisions, DecideGetMin,
           OthersStay, ControlTypeOK
    <3>2. \A x \in Tx : RequestExists(x)'
      BY <2>e, <3>1 DEF storage
    <3> QED BY <1>d, <2>0, <3>1, <3>2, SoundElsewhere DEF storage, OthersStay
  <2>3. CASE RecordApproverDecision(t)
    <3> DEFINE q == req[t].request
               u == req[t].user
               vote == req[t].decision
    <3>1. /\ pc[t] = "record_decision" /\ req' = req /\ OthersStay(t)
          /\ dirty.approvers[<<q, u>>] = "waiting"
          /\ Write(t, "approvers", <<q, u>>, vote)
          /\ vote = "rejected" => pc'[t] = "update_status"
      BY <1>0, <2>3 DEF RecordApproverDecision, OthersStay, ControlTypeOK
    <3>2. req[t] \in DecideRequest /\ StatusOf(q) # "none"
      BY <1>0, <3>1 DEF RequestOK, RequestExists, DecideStatement
    <3>3. /\ q \in Requests /\ u \in Users /\ vote \in Vote
          /\ req[t] = [op |-> "decide", user |-> u, request |-> q,
                       decision |-> vote]
      BY <2>r, <3>2 DEF HttpRequest
    <3>4. \A x \in Tx : RequestExists(x)'
      BY <2>e, <3>1 DEF Write
    <3> HIDE DEF q, u, vote
    <3> QED BY <2>0, <3>1, <3>2, <3>3, <3>4, SoundVote
  <2>4. CASE CreateApprovalRequestApprover(t)
    <3> DEFINE q == req[t].request
               u == req[t].user
    <3>1. /\ pc[t] = "create_approver" /\ req' = req /\ OthersStay(t)
          /\ dirty.approvers[<<q, u>>] = "none"
          /\ Write(t, "approvers", <<q, u>>, "waiting")
      BY <1>0, <2>4 DEF CreateApprovalRequestApprover, OthersStay, ControlTypeOK
    <3>2. req[t] \in AddRequest /\ StatusOf(q) # "none"
      BY <1>0, <3>1 DEF RequestOK, RequestExists
    <3>3. q \in Requests /\ u \in Users
      BY <2>r, <3>2 DEF HttpRequest
    <3>4. \A x \in Tx : RequestExists(x)'
      BY <2>e, <3>1 DEF Write
    <3> HIDE DEF q, u
    <3> QED BY <2>0, <2>r, <3>1, <3>2, <3>3, <3>4, SoundVote
  <2>5. CASE UpdateApprovalRequestStatus(t)
    <3> DEFINE q == req[t].request
               s == req[t].decision
    <3>1. /\ pc[t] = "update_status" /\ pc'[t] = "insert_audit"
          /\ req' = req /\ OthersStay(t)
          /\ dirty.approval_requests[q].status = "pending"
          /\ Write(t, "approval_requests", q,
                   [dirty.approval_requests[q] EXCEPT !.status = s])
      BY <1>0, <2>5 DEF UpdateApprovalRequestStatus, OthersStay, ControlTypeOK
    <3>2. req[t] \in DecideRequest
      BY <1>0, <3>1 DEF RequestOK, DecideStatement
    <3>3. q \in Requests /\ s \in Status
      BY <2>r, <3>2 DEF HttpRequest
    <3>4. \A x \in Tx : RequestExists(x)'
      BY <2>e, <3>1 DEF Write
    <3> QED BY <2>0, <3>1, <3>3, <3>4, SoundStatus
  <2>6. CASE CancelUpdate(t)
    <3> DEFINE q == req[t].request
    <3>1. /\ pc[t] = "cancel" /\ pc'[t] = "insert_audit"
          /\ req' = req /\ OthersStay(t)
          /\ dirty.approval_requests[q].status \in {"draft", "pending"}
          /\ Write(t, "approval_requests", q,
                   [dirty.approval_requests[q] EXCEPT !.status = "cancelled"])
      BY <1>0, <2>6 DEF CancelUpdate, OthersStay, ControlTypeOK
    <3>2. q \in Requests
      BY <1>0, <2>r, <3>1 DEF RequestOK, HttpRequest
    <3>4. \A x \in Tx : RequestExists(x)'
      BY <2>e, <3>1 DEF Write
    <3> QED BY <2>0, <2>r, <3>1, <3>2, <3>4, SoundStatus
  <2>7. CASE InsertAuditLog(t)
    <3> DEFINE key == <<req[t].request, IF req[t].op = "cancel"
                                          THEN "cancelled" ELSE req[t].user>>
    <3>1. /\ pc[t] = "insert_audit" /\ pc'[t] = "commit"
          /\ req' = req /\ OthersStay(t)
          /\ Write(t, "audit_logs", key, TRUE)
      BY <1>0, <2>7 DEF InsertAuditLog, OthersStay, ControlTypeOK
    <3>2. req[t] \in DecideRequest \cup CancelRequest
      BY <1>0, <3>1 DEF RequestOK
    <3>3. key \in Requests \X Event
      BY <2>r, <3>2 DEF HttpRequest, Event, CancelRequest
    <3>4. /\ StorageTypeOK /\ "audit_logs" \in TableName
          /\ key \in DOMAIN owner["audit_logs"]
      BY <1>0, <3>3 DEF StorageTypeOK, LocksOK, TableName
    <3>5. /\ db' = db /\ DirtyIsCommitted'
          /\ \A other \in TableName \ {"audit_logs"} :
               dirty'[other] = dirty[other] /\ owner'[other] = owner[other]
      <4> HIDE DEF key
      <4> QED BY <1>0, <3>1, <3>4, WriteEffect
    <3>6. \A x \in Tx : RequestExists(x)'
      BY <2>e, <3>1, <3>5
    <3> QED BY <2>0, <3>1, <3>5, <3>6, SoundElsewhere
            DEF TableName, OthersStay
  <2>8. CASE Commit(t) \/ Rollback(t)
    <3>1. /\ OthersStay(t) /\ pc'[t] = "idle"
          /\ \/ CommitTx(t) /\ pc[t] = "commit"
             \/ RollbackTx(t)
      BY <1>0, <2>8 DEF Commit, Rollback, EndRequest, OthersStay, ControlTypeOK
    <3> QED BY <2>0, <3>1, SoundEnd
  <2> QED BY <1>4, <2>1, <2>2, <2>3, <2>4, <2>5, <2>6, <2>7, <2>8 DEF Step
<1> QED BY <1>1, <1>2, <1>3, <1>4 DEF Next, SingleStep

\* LocksAreSound always holds.
LEMMA SpecSound == Spec => []LocksAreSound
BY InitSound, NextSound, PTL DEF Spec

-----------------------------------------------------------------------------
(***************************************************************************)
(* The theorems.                                                           *)
(***************************************************************************)

\* However requests interleave and whichever of them fail, a vote to reject
\* is committed only together with the rejection of its request, and at most
\* one such vote is: DecideApprovalRequest's UPDATE ... AND status = 'pending'
\* makes every other transaction that counts on the request fail.
THEOREM RejectionCommitsWithVote == Spec => []RejectionDecides
<1>1. LocksAreSound => RejectionDecides
  <2> SUFFICES ASSUME LocksAreSound, NEW q \in Requests
               PROVE  /\ Voters(q, "rejected") # {} => StatusOf(q) = "rejected"
                      /\ Cardinality(Voters(q, "rejected")) <= 1
    BY DEF RejectionDecides
  <2>1. CASE Voters(q, "rejected") = {}
    BY <2>1, FS_EmptySet
  <2>2. CASE Voters(q, "rejected") # {}
    <3>1. PICK u \in Users : u \in Voters(q, "rejected")
      BY <2>2 DEF Voters
    <3>2. StatusOf(q) = "rejected" /\ Voters(q, "rejected") = {u}
      BY <3>1 DEF LocksAreSound, RejectedOnce
    <3> QED BY <3>2, FS_Singleton
  <2> QED BY <2>1, <2>2
<1> QED BY <1>1, SpecSound, PTL

\* No commit changes a decided request or a vote: its rows were open when
\* they were locked, and stay so for everybody until they are released.
LEMMA CommittedStays ==
  ASSUME LocksAreSound, [Next]_vars
  PROVE  /\ \A q \in Requests :
              StatusOf(q) \notin {"none", "draft", "pending"}
                => StatusOf(q)' = StatusOf(q)
         /\ \A q \in Requests, vote \in {"approved", "rejected"} :
              Voters(q, vote) \subseteq Voters(q, vote)'
<1> USE DEF LocksAreSound, StatusOf, Voters
<1> DEFINE Stays ==
             /\ \A q \in Requests :
                  StatusOf(q) \notin {"none", "draft", "pending"}
                    => StatusOf(q)' = StatusOf(q)
             /\ \A q \in Requests, u \in Users :
                  db.approvers[<<q, u>>] \in {"approved", "rejected"}
                    => db'.approvers[<<q, u>>] = db.approvers[<<q, u>>]
<1>0. ASSUME db'.approval_requests = db.approval_requests,
             db'.approvers = db.approvers
      PROVE  Stays
  BY <1>0
<1>1. ASSUME UNCHANGED vars PROVE Stays
  BY <1>0, <1>1 DEF vars
<1>2. ASSUME NEW p \in Policies, NEW row \in PolicyRow,
             UpdateApprovalPolicy(p, row)
      PROVE  Stays
  <2>1. /\ db'.approval_requests = db.approval_requests
        /\ db'.approvers = db.approvers
    BY <1>2, SoundStorage
       DEF UpdateApprovalPolicy, WriteAndCommit, StorageTypeOK, Tables
  <2> QED BY <1>0, <2>1
<1>3. ASSUME NEW q \in Requests, NEW user \in Users,
             NEW policy \in Policies \cup {Nil}, NEW status \in Status,
             NEW assigned \in {{}} \cup {{a} : a \in Users},
             CreateApprovalRequest(q, user, policy, status, assigned)
      PROVE  Stays
  <2>1. /\ db'.approval_requests =
             [db.approval_requests EXCEPT
                ![q] = [status |-> status, requested_by |-> user,
                        policy |-> policy]]
        /\ db'.approvers = [qu \in DOMAIN db.approvers |->
                              IF qu \in {q} \X assigned THEN "waiting"
                                                        ELSE db.approvers[qu]]
        /\ StatusOf(q) = "none"
    BY <1>3, SoundStorage DEF CreateApprovalRequest, StorageTypeOK, Tables
  <2>2. ASSUME NEW q2 \in Requests, q2 # q
        PROVE  StatusOf(q2)' = StatusOf(q2)
    BY <2>1, <2>2, SoundStorage
  <2>3. ASSUME NEW q2 \in Requests, NEW u \in Users, q2 # q
        PROVE  db'.approvers[<<q2, u>>] = db.approvers[<<q2, u>>]
    BY <2>1, <2>3, SoundStorage
  <2>4. \A u \in Users : db.approvers[<<q, u>>] = "none"
    BY <2>1 DEF NoVotesBeforehand
  <2> QED BY <2>1, <2>2, <2>3, <2>4
<1>4. ASSUME NEW t \in Tx, Start(t) PROVE Stays
  <2>1. db' = db
    BY <1>4 DEF Start, DecideApprovalRequest, CancelApprovalRequest,
                AddApprovalRequestApprover, Begin, storage
  <2> QED BY <1>0, <2>1
<1>5. ASSUME NEW t \in Tx, Step(t), ~Commit(t) PROVE Stays
  <2>1. db' = db
    BY <1>5 DEF Step, DecideGetPolicy, RecordApproverDecision,
         CountApprovedDecisions, DecideGetMin, UpdateApprovalRequestStatus,
         CancelUpdate, CreateApprovalRequestApprover, InsertAuditLog,
         Rollback, RollbackTx, Write, storage
  <2> QED BY <1>0, <2>1
<1>6. ASSUME NEW t \in Tx, Commit(t) PROVE Stays
  <2>1. CommitTx(t) \/ RollbackTx(t)
    BY <1>6 DEF Commit
  <2>2. ASSUME NEW q \in Requests,
               StatusOf(q) \notin {"none", "draft", "pending"}
        PROVE  StatusOf(q)' = StatusOf(q)
    <3>1. owner.approval_requests[q] # t
      BY <2>2, NilAssumption DEF RequestLocks
    <3> QED BY <2>1, <3>1, EndEffect
  <2>3. ASSUME NEW q \in Requests, NEW u \in Users,
               db.approvers[<<q, u>>] \in {"approved", "rejected"}
        PROVE  db'.approvers[<<q, u>>] = db.approvers[<<q, u>>]
    <3>1. owner.approvers[<<q, u>>] # t
      BY <2>3, NilAssumption DEF ApproverLocks
    <3>2. <<q, u>> \in Requests \X Users
      OBVIOUS
    <3> QED BY <2>1, <3>1, <3>2, EndEffect
  <2> QED BY <2>2, <2>3
<1>7. Stays
  <2> HIDE DEF Stays, LocksAreSound, StatusOf, Voters
  <2>1. ASSUME NEW t \in Tx, Start(t) \/ Step(t) PROVE Stays
    BY <1>4, <1>5, <1>6, <2>1
  <2>2. CASE SingleStep
    <3>1. CASE \E p \in Policies, row \in PolicyRow : UpdateApprovalPolicy(p, row)
      BY <1>2, <3>1
    <3>2. CASE \E q \in Requests, u \in Users, p \in Policies \cup {Nil},
                  s \in Status, assigned \in {{}} \cup {{a} : a \in Users} :
                 CreateApprovalRequest(q, u, p, s, assigned)
      <4>1. PICK q \in Requests, u \in Users, p \in Policies \cup {Nil},
                 s \in Status, assigned \in {{}} \cup {{a} : a \in Users} :
              CreateApprovalRequest(q, u, p, s, assigned)
        BY <3>2
      <4> QED BY <1>3, <4>1
    <3> QED BY <2>2, <3>1, <3>2 DEF SingleStep
  <2> QED BY <1>1, <2>1, <2>2 DEF Next
<1> QED BY <1>7

\* However requests interleave and whichever of them fail, a request that is
\* approved, rejected, cancelled or expired stays so, and so does a vote.
THEOREM DecisionsAreFinal == Spec => DecisionIsFinal
<1> DEFINE Final ==
             /\ \A q \in Requests :
                  StatusOf(q) \notin {"none", "draft", "pending"}
                    => StatusOf(q)' = StatusOf(q)
             /\ \A q \in Requests, vote \in {"approved", "rejected"} :
                  Voters(q, vote) \subseteq Voters(q, vote)'
<1>1. LocksAreSound /\ [Next]_vars => [Final]_vars
  BY CommittedStays
<1> HIDE DEF Final
<1>2. Spec => [][Final]_vars
  BY <1>1, SpecSound, PTL DEF Spec
<1> QED BY <1>2 DEF Final, DecisionIsFinal

-----------------------------------------------------------------------------
(***************************************************************************)
(* The audit log, and the approvals a vote counts.                         *)
(***************************************************************************)
\* The audit entry of the request t handles.
EventOf(t) == IF req[t].op = "cancel" THEN "cancelled" ELSE req[t].user

\* From here on t has recorded its vote, or its cancellation.
Recorded(t) ==
  \/ /\ req[t] \in DecideRequest
     /\ pc[t] \in {"count_approved", "get_min", "update_status", "insert_audit",
                   "commit"}
  \/ req[t] \in CancelRequest /\ pc[t] \in {"insert_audit", "commit"}

\* What t has recorded is the row its request is about.
RecordedRow(t) ==
  LET q == req[t].request
  IN Recorded(t) =>
       /\ req[t] \in DecideRequest =>
            /\ owner.approvers[<<q, req[t].user>>] = t
            /\ dirty.approvers[<<q, req[t].user>>] = req[t].decision
       /\ req[t] \in CancelRequest =>
            /\ owner.approval_requests[q] = t
            /\ dirty.approval_requests[q].status = "cancelled"
       /\ pc[t] = "commit" =>
            /\ owner.audit_logs[<<q, EventOf(t)>>] = t
            /\ dirty.audit_logs[<<q, EventOf(t)>>]

\* The only vote t has locked is its own, or that of the approver it adds.
LockedVotes(t) ==
  \A q \in Requests, u \in Users :
    owner.approvers[<<q, u>>] = t =>
      /\ req[t].request = q /\ req[t].user = u
      /\ \/ req[t] \in DecideRequest /\ Recorded(t)
         \/ /\ req[t] \in AddRequest /\ pc[t] = "commit"
            /\ dirty.approvers[<<q, u>>] = "waiting"

\* The only audit entry t has inserted is that of what it has recorded.
LockedEntries(t) ==
  \A q \in Requests, e \in Event :
    owner.audit_logs[<<q, e>>] = t =>
      Recorded(t) /\ pc[t] = "commit" /\ req[t].request = q /\ EventOf(t) = e


\* The approvals of its request that a vote sees.
Seen(t) ==
  {u \in Users : Sees(t, "approvers", <<req[t].request, u>>) = "approved"}

\* The approvals a request needs.
Needed(q) == IF db.approval_requests[q].policy = Nil
               THEN 1 ELSE PolicyOf(q).min_approvers

\* A vote approves the request only while it sees the approvals it needs.
SeesEnough(t) ==
  LET q == req[t].request
  IN /\ pc[t] = "get_min" => count[t] <= Cardinality(Seen(t))
     /\ pc[t] = "update_status" /\ req[t].decision = "approved" =>
          Cardinality(Seen(t)) >= Needed(q)
     /\ \A r \in Requests :
          /\ owner.approval_requests[r] = t
          /\ dirty.approval_requests[r].status = "approved"
          => /\ req[t] \in DecideRequest /\ pc[t] \in {"insert_audit", "commit"}
             /\ r = q /\ Cardinality(Seen(t)) >= Needed(q)

\* What is true of every transaction.
Trail(t) == RecordedRow(t) /\ LockedVotes(t) /\ LockedEntries(t)

\* With LocksAreSound, the inductive invariant of AuditLogFits.
TrailIsKept == AuditLogFits /\ \A t \in Tx : Trail(t)

\* The requests of the three kinds are told apart by their names.
LEMMA Kinds ==
  /\ \A r \in DecideRequest : /\ r.op = "decide" /\ r.request \in Requests
                              /\ r.user \in Users
                              /\ r.decision \in {"approved", "rejected"}
  /\ \A r \in CancelRequest : r.op = "cancel" /\ r.request \in Requests
  /\ \A r \in AddRequest : /\ r.op = "add_approver" /\ r.request \in Requests
                           /\ r.user \in Users
  /\ HttpRequest = DecideRequest \cup CancelRequest \cup AddRequest
BY DEF DecideRequest, CancelRequest, AddRequest, HttpRequest

\* A statement writes one row, if any; otherwise the transaction ends.
LEMMA StepWrites ==
  ASSUME LocksAreSound, NEW t \in Tx, Start(t) \/ Step(t)
  PROVE  \/ UNCHANGED storage
         \/ CommitTx(t) \/ RollbackTx(t)
         \/ \E tab \in TableName : \E id \in DOMAIN owner[tab] :
              \E row : Write(t, tab, id, row)
<1>0. /\ RequestOK(t) /\ LocksOK
      /\ req[t] \in DecideRequest \cup CancelRequest \cup AddRequest =>
           req[t].request \in Requests
      /\ req[t] \in DecideRequest \cup AddRequest => req[t].user \in Users
  BY SoundStorage, Kinds DEF LocksAreSound, StorageTypeOK
<1>1. CASE Start(t)
  BY <1>1 DEF Start, DecideApprovalRequest, CancelApprovalRequest,
              AddApprovalRequestApprover, Begin
<1>2. CASE DecideGetPolicy(t) \/ CountApprovedDecisions(t) \/ DecideGetMin(t)
  BY <1>2 DEF DecideGetPolicy, CountApprovedDecisions, DecideGetMin
<1>3. CASE RecordApproverDecision(t) \/ CreateApprovalRequestApprover(t)
  <2>1. req[t] \in DecideRequest \cup AddRequest
    BY <1>0, <1>3
       DEF RecordApproverDecision, CreateApprovalRequestApprover, RequestOK,
           DecideStatement
  <2>2. <<req[t].request, req[t].user>> \in DOMAIN owner["approvers"]
    BY <1>0, <2>1 DEF LocksOK
  <2>3. \E row : Write(t, "approvers", <<req[t].request, req[t].user>>, row)
    BY <1>3 DEF RecordApproverDecision, CreateApprovalRequestApprover
  <2> QED BY <2>2, <2>3 DEF TableName
<1>4. CASE UpdateApprovalRequestStatus(t) \/ CancelUpdate(t)
  <2>1. req[t] \in DecideRequest \cup CancelRequest
    BY <1>0, <1>4
       DEF UpdateApprovalRequestStatus, CancelUpdate, RequestOK, DecideStatement
  <2>2. req[t].request \in DOMAIN owner["approval_requests"]
    BY <1>0, <2>1 DEF LocksOK
  <2>3. \E row : Write(t, "approval_requests", req[t].request, row)
    BY <1>4 DEF UpdateApprovalRequestStatus, CancelUpdate
  <2> QED BY <2>2, <2>3 DEF TableName
<1>5. CASE InsertAuditLog(t)
  <2>1. req[t] \in DecideRequest \cup CancelRequest
    BY <1>0, <1>5 DEF InsertAuditLog, RequestOK
  <2>2. <<req[t].request, EventOf(t)>> \in DOMAIN owner["audit_logs"]
    BY <1>0, <2>1, Kinds DEF LocksOK, EventOf, Event
  <2>3. Write(t, "audit_logs", <<req[t].request, EventOf(t)>>, TRUE)
    BY <1>5 DEF InsertAuditLog, EventOf
  <2> QED BY <2>2, <2>3 DEF TableName
<1>6. CASE Commit(t) \/ Rollback(t)
  BY <1>6 DEF Commit, Rollback
<1> QED BY <1>1, <1>2, <1>3, <1>4, <1>5, <1>6 DEF Step

\* A transaction leaves the rows another one has locked as they are.
LEMMA StepDisturbs ==
  ASSUME LocksAreSound, NEW t \in Tx, Start(t) \/ Step(t), NEW x \in Tx, x # t
  PROVE  \A tab \in TableName : \A id \in DOMAIN owner[tab] :
           /\ owner'[tab][id] = x <=> owner[tab][id] = x
           /\ owner[tab][id] = x => /\ dirty'[tab][id] = dirty[tab][id]
                                    /\ db'[tab][id] = db[tab][id]
<1>0. /\ StorageTypeOK /\ Tabular /\ DOMAIN db = TableName
      /\ \A tab \in TableName : /\ DOMAIN db[tab] = DOMAIN owner[tab]
                                 /\ DOMAIN dirty[tab] = DOMAIN owner[tab]
  BY SoundStorage DEF Tabular
<1>1. CASE UNCHANGED storage
  BY <1>1 DEF storage
<1>2. CASE CommitTx(t) \/ RollbackTx(t)
  <2>1. \A tab \in DOMAIN db : \A id \in DOMAIN db[tab] :
          /\ owner'[tab][id] = IF owner[tab][id] = t THEN Nil ELSE owner[tab][id]
          /\ owner[tab][id] # t => /\ dirty'[tab][id] = dirty[tab][id]
                                   /\ db'[tab][id] = db[tab][id]
    BY <1>0, <1>2, EndChanges
  <2> QED BY <1>0, <2>1, NilAssumption
<1>3. CASE \E tab \in TableName : \E id \in DOMAIN owner[tab] :
             \E row : Write(t, tab, id, row)
  <2>0. PICK tab \in TableName : \E id \in DOMAIN owner[tab] :
          \E row : Write(t, tab, id, row)
    BY <1>3
  <2>1. PICK id \in DOMAIN owner[tab] : \E row : Write(t, tab, id, row)
    BY <2>0
  <2>2. PICK row : Write(t, tab, id, row)
    BY <2>1
  <2>3. /\ db' = db
        /\ dirty'[tab] = [dirty[tab] EXCEPT ![id] = row]
        /\ owner'[tab] = [owner[tab] EXCEPT ![id] = t]
        /\ \A other \in TableName \ {tab} :
             dirty'[other] = dirty[other] /\ owner'[other] = owner[other]
        /\ DirtyIsCommitted => DirtyIsCommitted'
    BY <1>0, <2>1, <2>2, WriteEffect
  <2>4. owner[tab][id] # x
    BY <2>2, NilAssumption DEF Write, Free
  <2>5. \A i \in DOMAIN owner[tab] :
          /\ owner'[tab][i] = IF i = id THEN t ELSE owner[tab][i]
          /\ dirty'[tab][i] = IF i = id THEN row ELSE dirty[tab][i]
    BY <1>0, <2>3
  <2> QED BY <2>3, <2>4, <2>5
<1> QED BY <1>1, <1>2, <1>3, StepWrites

\* The transaction is where it was, and so are the rows it has locked.
Undisturbed(x) ==
  /\ pc'[x] = pc[x] /\ req'[x] = req[x] /\ count'[x] = count[x]
  /\ \A tab \in TableName : \A id \in DOMAIN owner[tab] :
       /\ owner'[tab][id] = x <=> owner[tab][id] = x
       /\ owner[tab][id] = x => dirty'[tab][id] = dirty[tab][id]

\* What Undisturbed says of each table.
LEMMA UndisturbedRows ==
  ASSUME LocksAreSound, NEW x \in Tx, Undisturbed(x)
  PROVE  /\ \A q \in Requests :
              /\ owner'.approval_requests[q] = x
                   <=> owner.approval_requests[q] = x
              /\ owner.approval_requests[q] = x =>
                   dirty'.approval_requests[q] = dirty.approval_requests[q]
         /\ \A q \in Requests, u \in Users :
              /\ owner'.approvers[<<q, u>>] = x <=> owner.approvers[<<q, u>>] = x
              /\ owner.approvers[<<q, u>>] = x =>
                   dirty'.approvers[<<q, u>>] = dirty.approvers[<<q, u>>]
         /\ \A q \in Requests, e \in Event :
              /\ owner'.audit_logs[<<q, e>>] = x
                   <=> owner.audit_logs[<<q, e>>] = x
              /\ owner.audit_logs[<<q, e>>] = x =>
                   dirty'.audit_logs[<<q, e>>] = dirty.audit_logs[<<q, e>>]
<1>1. LocksOK
  BY SoundStorage DEF StorageTypeOK
<1>2. /\ DOMAIN owner["approval_requests"] = Requests
      /\ DOMAIN owner["approvers"] = Requests \X Users
      /\ DOMAIN owner["audit_logs"] = Requests \X Event
  BY <1>1 DEF LocksOK
<1>3. {"approval_requests", "approvers", "audit_logs"} \subseteq TableName
  BY DEF TableName
<1> QED BY <1>2, <1>3 DEF Undisturbed

\* What is true of a transaction nobody disturbs stays true of it.
LEMMA UndisturbedTrail ==
  ASSUME LocksAreSound, NEW x \in Tx, Undisturbed(x), Trail(x)
  PROVE  Trail(x)'
<1>1. /\ pc'[x] = pc[x] /\ req'[x] = req[x]
      /\ Recorded(x)' <=> Recorded(x)
      /\ EventOf(x)' = EventOf(x)
  BY DEF Undisturbed, Recorded, EventOf
<1>2. /\ Recorded(x) => req[x].request \in Requests
      /\ Recorded(x) /\ req[x] \in DecideRequest => req[x].user \in Users
      /\ Recorded(x) => EventOf(x) \in Event
  BY Kinds DEF Recorded, EventOf, Event
<1>3. RecordedRow(x)'
  BY <1>1, <1>2, UndisturbedRows DEF Trail, RecordedRow
<1>4. LockedVotes(x)'
  BY <1>1, UndisturbedRows DEF Trail, LockedVotes
<1>5. LockedEntries(x)'
  BY <1>1, UndisturbedRows DEF Trail, LockedEntries
<1> QED BY <1>3, <1>4, <1>5 DEF Trail

\* Write, row by row of the tables the handlers write.
LEMMA WriteRows ==
  ASSUME LocksAreSound, NEW t \in Tx, NEW tab \in TableName,
         NEW id \in DOMAIN owner[tab], NEW row, Write(t, tab, id, row)
  PROVE  /\ db' = db
         /\ \A other \in TableName : \A i \in DOMAIN owner[other] :
              /\ owner'[other][i] = IF other = tab /\ i = id
                                      THEN t ELSE owner[other][i]
              /\ dirty'[other][i] = IF other = tab /\ i = id
                                      THEN row ELSE dirty[other][i]
<1>1. StorageTypeOK /\ \A x \in TableName : DOMAIN dirty[x] = DOMAIN owner[x]
  BY SoundStorage DEF Tabular
<1>2. /\ db' = db
      /\ dirty'[tab] = [dirty[tab] EXCEPT ![id] = row]
      /\ owner'[tab] = [owner[tab] EXCEPT ![id] = t]
      /\ \A other \in TableName \ {tab} :
           dirty'[other] = dirty[other] /\ owner'[other] = owner[other]
      /\ DirtyIsCommitted => DirtyIsCommitted'
  BY <1>1, WriteEffect
<1> QED BY <1>1, <1>2

\* The rows of the tables.
LEMMA TableRows ==
  ASSUME LocksAreSound
  PROVE  /\ {"approval_requests", "approvers", "audit_logs"} \subseteq TableName
         /\ DOMAIN owner["approval_requests"] = Requests
         /\ DOMAIN owner["approvers"] = Requests \X Users
         /\ DOMAIN owner["audit_logs"] = Requests \X Event
         /\ \A q \in Requests, u \in Users : <<q, u>> \in DOMAIN owner["approvers"]
         /\ \A q \in Requests, e \in Event : <<q, e>> \in DOMAIN owner["audit_logs"]
BY SoundStorage DEF StorageTypeOK, LocksOK, TableName

\* Before it has recorded something, a transaction has locked no vote and no
\* audit entry.
LEMMA NothingRecorded ==
  ASSUME NEW t \in Tx, Trail(t), pc[t] # "commit", ~Recorded(t)
  PROVE  /\ \A q \in Requests, u \in Users : owner.approvers[<<q, u>>] # t
         /\ \A q \in Requests, e \in Event : owner.audit_logs[<<q, e>>] # t
BY DEF Trail, LockedVotes, LockedEntries

\* Where it has locked none, nothing but a record can be missing.
LEMMA NothingLocked ==
  ASSUME NEW t \in Tx, ~Recorded(t)',
         \A q \in Requests, u \in Users : owner'.approvers[<<q, u>>] # t,
         \A q \in Requests, e \in Event : owner'.audit_logs[<<q, e>>] # t
  PROVE  Trail(t)'
BY DEF Trail, RecordedRow, LockedVotes, LockedEntries

\* A vote or an added approver is recorded.
LEMMA VoteTrail ==
  ASSUME LocksAreSound, NEW t \in Tx, Trail(t),
         RecordApproverDecision(t) \/ CreateApprovalRequestApprover(t)
  PROVE  Trail(t)'
<1> DEFINE q == req[t].request
           u == req[t].user
           vote == IF pc[t] = "record_decision" THEN req[t].decision
                                                ELSE "waiting"
<1>1. /\ req' = req /\ RequestOK(t)
      /\ \/ /\ pc[t] = "record_decision" /\ req[t] \in DecideRequest
            /\ pc'[t] \in {"update_status", "count_approved"}
         \/ /\ pc[t] = "create_approver" /\ req[t] \in AddRequest
            /\ pc'[t] = "commit"
      /\ Write(t, "approvers", <<q, u>>, vote)
  BY SoundStorage
     DEF RecordApproverDecision, CreateApprovalRequestApprover, RequestOK,
         DecideStatement, LocksAreSound, ControlTypeOK
<1>2. /\ q \in Requests /\ u \in Users /\ ~Recorded(t) /\ pc[t] # "commit"
      /\ req[t] \in AddRequest => req[t] \notin DecideRequest \cup CancelRequest
      /\ req[t] \in DecideRequest => req[t] \notin CancelRequest
  BY <1>1, Kinds DEF Recorded
<1>3. <<q, u>> \in DOMAIN owner["approvers"] /\ "approvers" \in TableName
  BY <1>2, TableRows
<1> HIDE DEF vote, q, u
<1>4. /\ db' = db
      /\ \A other \in TableName : \A i \in DOMAIN owner[other] :
           /\ owner'[other][i] = IF other = "approvers" /\ i = <<q, u>>
                                   THEN t ELSE owner[other][i]
           /\ dirty'[other][i] = IF other = "approvers" /\ i = <<q, u>>
                                   THEN vote ELSE dirty[other][i]
  BY <1>1, <1>3, WriteRows
<1>5. /\ \A r \in Requests, v \in Users :
           /\ owner'.approvers[<<r, v>>] = IF r = q /\ v = u
                THEN t ELSE owner.approvers[<<r, v>>]
           /\ dirty'.approvers[<<r, v>>] = IF r = q /\ v = u
                THEN vote ELSE dirty.approvers[<<r, v>>]
      /\ \A r \in Requests, e \in Event :
           owner'.audit_logs[<<r, e>>] = owner.audit_logs[<<r, e>>]
  BY <1>4, TableRows
<1>6. /\ \A r \in Requests, v \in Users :
           owner'.approvers[<<r, v>>] = t => r = q /\ v = u
      /\ \A r \in Requests, e \in Event : owner'.audit_logs[<<r, e>>] # t
  BY <1>2, <1>5, NothingRecorded
<1>7. CASE pc[t] = "record_decision" /\ req[t] \in DecideRequest
             /\ pc'[t] \in {"update_status", "count_approved"}
  <2>1. req'[t] = req[t] /\ Recorded(t)' /\ pc'[t] # "commit"
    BY <1>1, <1>7 DEF Recorded
  <2>2. RecordedRow(t)'
    BY <1>2, <1>5, <1>7, <2>1 DEF RecordedRow, vote, q, u
  <2>3. LockedVotes(t)' /\ LockedEntries(t)'
    BY <1>6, <1>7, <2>1 DEF LockedVotes, LockedEntries, q, u
  <2> QED BY <2>2, <2>3 DEF Trail
<1>8. CASE pc[t] = "create_approver" /\ req[t] \in AddRequest /\ pc'[t] = "commit"
  <2>1. req'[t] = req[t] /\ ~Recorded(t)'
    BY <1>1, <1>2, <1>8 DEF Recorded
  <2>2. LockedVotes(t)'
    BY <1>2, <1>5, <1>6, <1>8, <2>1 DEF LockedVotes, vote, q, u
  <2>3. RecordedRow(t)' /\ LockedEntries(t)'
    BY <1>6, <2>1 DEF RecordedRow, LockedEntries
  <2> QED BY <2>2, <2>3 DEF Trail
<1> QED BY <1>1, <1>7, <1>8

\* The request is decided or cancelled.
LEMMA StatusTrail ==
  ASSUME LocksAreSound, NEW t \in Tx, Trail(t),
         UpdateApprovalRequestStatus(t) \/ CancelUpdate(t)
  PROVE  Trail(t)'
<1> DEFINE q == req[t].request
           s == IF pc[t] = "cancel" THEN "cancelled" ELSE req[t].decision
           row == [dirty.approval_requests[q] EXCEPT !.status = s]
<1>1. /\ req' = req /\ RequestOK(t) /\ pc'[t] = "insert_audit"
      /\ \/ pc[t] = "update_status" /\ req[t] \in DecideRequest
         \/ pc[t] = "cancel" /\ req[t] \in CancelRequest
      /\ Write(t, "approval_requests", q, row)
  BY SoundStorage
     DEF UpdateApprovalRequestStatus, CancelUpdate, RequestOK, DecideStatement,
         LocksAreSound, ControlTypeOK
<1>2. /\ q \in Requests
      /\ req[t] \in CancelRequest => req[t] \notin DecideRequest
      /\ req[t] \in DecideRequest => req[t] \notin CancelRequest
      /\ req[t] \in DecideRequest => req[t].user \in Users
  BY <1>1, Kinds
<1>3. /\ q \in DOMAIN owner["approval_requests"]
      /\ "approval_requests" \in TableName
  BY <1>2, TableRows
<1>s. row.status = s
  BY <1>2, SoundStorage DEF RequestRow
<1> HIDE DEF row, q
<1>4. /\ db' = db
      /\ \A other \in TableName : \A i \in DOMAIN owner[other] :
           /\ owner'[other][i] = IF other = "approval_requests" /\ i = q
                                   THEN t ELSE owner[other][i]
           /\ dirty'[other][i] = IF other = "approval_requests" /\ i = q
                                   THEN row ELSE dirty[other][i]
  BY <1>1, <1>3, WriteRows
<1>5. /\ \A r \in Requests, v \in Users :
           /\ owner'.approvers[<<r, v>>] = owner.approvers[<<r, v>>]
           /\ dirty'.approvers[<<r, v>>] = dirty.approvers[<<r, v>>]
      /\ \A r \in Requests, e \in Event :
           owner'.audit_logs[<<r, e>>] = owner.audit_logs[<<r, e>>]
      /\ owner'.approval_requests[q] = t
      /\ dirty'.approval_requests[q].status = s
  BY <1>2, <1>4, <1>s, TableRows
<1>6. /\ req'[t] = req[t] /\ Recorded(t)' /\ pc[t] # "commit"
      /\ req[t] \in DecideRequest => Recorded(t)
  <2>1. req'[t] = req[t] /\ pc[t] # "commit"
    BY <1>1
  <2>2. Recorded(t)'
    BY <1>1, <2>1 DEF Recorded
  <2>3. req[t] \in DecideRequest => Recorded(t)
    BY <1>1, <1>2 DEF Recorded
  <2> QED BY <2>1, <2>2, <2>3
<1>7. \A r \in Requests, e \in Event : owner'.audit_logs[<<r, e>>] # t
  BY <1>5, <1>6 DEF Trail, LockedEntries
<1>8. RecordedRow(t)'
  BY <1>1, <1>2, <1>5, <1>6 DEF Trail, RecordedRow, q
<1>9. LockedVotes(t)'
  BY <1>1, <1>5, <1>6 DEF Trail, LockedVotes
<1>10. LockedEntries(t)'
  BY <1>7 DEF LockedEntries
<1> QED BY <1>8, <1>9, <1>10 DEF Trail

\* The audit entry is inserted.
LEMMA EntryTrail ==
  ASSUME LocksAreSound, NEW t \in Tx, Trail(t), InsertAuditLog(t)
  PROVE  Trail(t)'
<1> DEFINE q == req[t].request
           e == EventOf(t)
           row == TRUE
<1>1. /\ req' = req /\ pc[t] = "insert_audit" /\ pc'[t] = "commit"
      /\ req[t] \in DecideRequest \cup CancelRequest
      /\ Write(t, "audit_logs", <<q, e>>, row)
  BY SoundStorage
     DEF InsertAuditLog, EventOf, RequestOK, LocksAreSound, ControlTypeOK
<1>2. /\ q \in Requests /\ e \in Event
      /\ req[t] \in DecideRequest => req[t].user \in Users
  BY <1>1, Kinds DEF EventOf, Event
<1>3. <<q, e>> \in DOMAIN owner["audit_logs"] /\ "audit_logs" \in TableName
  BY <1>2, TableRows
<1> HIDE DEF q, e, row
<1>4. /\ db' = db
      /\ \A other \in TableName : \A i \in DOMAIN owner[other] :
           /\ owner'[other][i] = IF other = "audit_logs" /\ i = <<q, e>>
                                   THEN t ELSE owner[other][i]
           /\ dirty'[other][i] = IF other = "audit_logs" /\ i = <<q, e>>
                                   THEN row ELSE dirty[other][i]
  BY <1>1, <1>3, WriteRows
<1>5. /\ \A r \in Requests, v \in Users :
           /\ owner'.approvers[<<r, v>>] = owner.approvers[<<r, v>>]
           /\ dirty'.approvers[<<r, v>>] = dirty.approvers[<<r, v>>]
      /\ \A r \in Requests :
           /\ owner'.approval_requests[r] = owner.approval_requests[r]
           /\ dirty'.approval_requests[r] = dirty.approval_requests[r]
  <2>1. \A other \in TableName \ {"audit_logs"} : \A i \in DOMAIN owner[other] :
          owner'[other][i] = owner[other][i] /\ dirty'[other][i] = dirty[other][i]
    BY <1>4
  <2> QED BY <2>1, TableRows
<1>6. /\ \A r \in Requests, f \in Event :
           owner'.audit_logs[<<r, f>>] = t =>
             (r = q /\ f = e) \/ owner.audit_logs[<<r, f>>] = t
      /\ owner'.audit_logs[<<q, e>>] = t /\ dirty'.audit_logs[<<q, e>>]
  <2>1. \A i \in DOMAIN owner["audit_logs"] :
          owner'["audit_logs"][i] = IF i = <<q, e>>
                                      THEN t ELSE owner["audit_logs"][i]
    BY <1>3, <1>4
  <2>2. dirty'["audit_logs"][<<q, e>>]
    BY <1>3, <1>4, Zenon DEF row
  <2> QED BY <1>3, <2>1, <2>2, TableRows
<1>7. /\ req'[t] = req[t] /\ Recorded(t) /\ Recorded(t)'
      /\ EventOf(t)' = e
  <2>1. req'[t] = req[t] /\ EventOf(t)' = e
    BY <1>1 DEF EventOf, e
  <2>2. Recorded(t)
    BY <1>1 DEF Recorded
  <2>3. Recorded(t)'
    BY <1>1, <2>1 DEF Recorded
  <2> QED BY <2>1, <2>2, <2>3
<1>8. RecordedRow(t)'
  <2>1. /\ req[t] \in DecideRequest =>
             /\ owner'.approvers[<<q, req[t].user>>] = t
             /\ dirty'.approvers[<<q, req[t].user>>] = req[t].decision
        /\ req[t] \in CancelRequest =>
             /\ owner'.approval_requests[q] = t
             /\ dirty'.approval_requests[q].status = "cancelled"
    BY <1>2, <1>5, <1>7 DEF Trail, RecordedRow, q
  <2>2. owner'.audit_logs[<<q, e>>] = t /\ dirty'.audit_logs[<<q, e>>]
    BY <1>6
  <2> QED BY <1>7, <2>1, <2>2, Zenon DEF RecordedRow, q
<1>9. LockedVotes(t)'
  BY <1>1, <1>5, <1>7 DEF Trail, LockedVotes
<1>10. LockedEntries(t)'
  <2>1. \A r \in Requests, f \in Event : owner.audit_logs[<<r, f>>] # t
    BY <1>1 DEF Trail, LockedEntries
  <2> QED BY <1>1, <1>6, <1>7, <2>1 DEF LockedEntries, q
<1> QED BY <1>8, <1>9, <1>10 DEF Trail

\* Each step of a transaction, with what it has recorded.
LEMMA StepTrail ==
  ASSUME LocksAreSound, NEW t \in Tx, Start(t) \/ Step(t), Trail(t)
  PROVE  Trail(t)'
<1>0. /\ pc \in [Tx -> Statement] /\ req \in [Tx -> HttpRequest \cup {Nil}]
      /\ RequestOK(t)
  BY SoundStorage DEF ControlTypeOK
<1>1. CASE Start(t)
  <2>1. /\ owner' = owner /\ pc[t] = "idle"
        /\ pc'[t] \in {"record_decision", "get_policy", "cancel",
                       "create_approver"}
    BY <1>0, <1>1 DEF Start, DecideApprovalRequest, CancelApprovalRequest,
                AddApprovalRequestApprover, Begin, storage
  <2>2. pc[t] # "commit" /\ ~Recorded(t) /\ ~Recorded(t)'
    BY <2>1 DEF Recorded
  <2> QED BY <2>1, <2>2, NothingRecorded, NothingLocked
<1>2. CASE DecideGetPolicy(t)
  <2>1. /\ owner' = owner /\ pc[t] = "get_policy" /\ pc'[t] = "record_decision"
    BY <1>0, <1>2 DEF DecideGetPolicy, storage
  <2>2. pc[t] # "commit" /\ ~Recorded(t) /\ ~Recorded(t)'
    BY <2>1 DEF Recorded
  <2> QED BY <2>1, <2>2, NothingRecorded, NothingLocked
<1>3. CASE CountApprovedDecisions(t) \/ DecideGetMin(t)
  <2>1. /\ owner' = owner /\ dirty' = dirty /\ req' = req
        /\ pc[t] \in {"count_approved", "get_min"}
        /\ pc'[t] \in {"get_min", "update_status", "insert_audit"}
    BY <1>0, <1>3 DEF CountApprovedDecisions, DecideGetMin, storage
  <2>2. req[t] \in DecideRequest /\ req[t] \notin CancelRequest
    BY <1>0, <2>1, Kinds DEF RequestOK, DecideStatement
  <2>3. pc[t] # "commit" /\ pc'[t] # "commit" /\ Recorded(t) /\ Recorded(t)'
    BY <2>1, <2>2 DEF Recorded
  <2> QED BY <2>1, <2>2, <2>3
          DEF Trail, RecordedRow, LockedVotes, LockedEntries
<1>4. CASE RecordApproverDecision(t) \/ CreateApprovalRequestApprover(t)
  BY <1>4, VoteTrail
<1>5. CASE UpdateApprovalRequestStatus(t) \/ CancelUpdate(t)
  BY <1>5, StatusTrail
<1>6. CASE InsertAuditLog(t)
  BY <1>6, EntryTrail
<1>7. CASE Commit(t) \/ Rollback(t)
  <2>1. pc'[t] = "idle" /\ (CommitTx(t) \/ RollbackTx(t))
    BY <1>0, <1>7 DEF Commit, Rollback, EndRequest
  <2>2. \A tab \in DOMAIN db : \A id \in DOMAIN db[tab] : owner'[tab][id] =
          IF owner[tab][id] = t THEN Nil ELSE owner[tab][id]
    BY <2>1, SoundStorage, EndChanges
  <2>3. \A tab \in TableName : \A id \in DOMAIN owner[tab] : owner'[tab][id] # t
    BY <2>2, SoundStorage, NilAssumption DEF Tabular
  <2>4. ~Recorded(t)'
    BY <2>1 DEF Recorded
  <2> QED BY <2>3, <2>4, TableRows, NothingLocked
<1> QED BY <1>1, <1>2, <1>3, <1>4, <1>5, <1>6, <1>7 DEF Step

\* A step of a transaction leaves the others where they were.
LEMMA StepLeaves ==
  ASSUME LocksAreSound, NEW t \in Tx, Start(t) \/ Step(t), NEW x \in Tx, x # t
  PROVE  Undisturbed(x)
<1>0. /\ pc \in [Tx -> Statement] /\ req \in [Tx -> HttpRequest \cup {Nil}]
      /\ count \in [Tx -> Nat]
  BY SoundStorage DEF ControlTypeOK
<1>1. pc'[x] = pc[x] /\ req'[x] = req[x] /\ count'[x] = count[x]
  <2>1. CASE Start(t)
    BY <1>0, <2>1 DEF Start, DecideApprovalRequest, CancelApprovalRequest,
                      AddApprovalRequestApprover, Begin
  <2>2. CASE Step(t)
    BY <1>0, <2>2
       DEF Step, DecideGetPolicy, RecordApproverDecision,
           CountApprovedDecisions, DecideGetMin, UpdateApprovalRequestStatus,
           CancelUpdate, CreateApprovalRequestApprover, InsertAuditLog, Commit,
           Rollback, EndRequest
  <2> QED BY <2>1, <2>2
<1>2. \A tab \in TableName : \A id \in DOMAIN owner[tab] :
        /\ owner'[tab][id] = x <=> owner[tab][id] = x
        /\ owner[tab][id] = x => dirty'[tab][id] = dirty[tab][id]
  BY StepDisturbs
<1> QED BY <1>1, <1>2 DEF Undisturbed

\* What a commit publishes of the audit log.
LEMMA CommittedEntries ==
  ASSUME LocksAreSound, NEW t \in Tx, CommitTx(t)
  PROVE  \A q \in Requests, e \in Event :
           db'.audit_logs[<<q, e>>] = IF owner.audit_logs[<<q, e>>] = t
             THEN dirty.audit_logs[<<q, e>>] ELSE db.audit_logs[<<q, e>>]
<1>1. /\ "audit_logs" \in DOMAIN db
      /\ DOMAIN db["audit_logs"] = Requests \X Event
  BY SoundStorage, StorageTabular DEF TableName
<1>2. \A q \in Requests, e \in Event : <<q, e>> \in DOMAIN db["audit_logs"]
  BY <1>1
<1> QED BY <1>1, <1>2, Zenon DEF CommitTx, Sees

\* What a commit publishes of the requests and the votes.
LEMMA CommittedVotes ==
  ASSUME LocksAreSound, NEW t \in Tx, CommitTx(t)
  PROVE  /\ \A q \in Requests :
              db'.approval_requests[q] = IF owner.approval_requests[q] = t
                THEN dirty.approval_requests[q] ELSE db.approval_requests[q]
         /\ \A q \in Requests, u \in Users :
              db'.approvers[<<q, u>>] = IF owner.approvers[<<q, u>>] = t
                THEN dirty.approvers[<<q, u>>] ELSE db.approvers[<<q, u>>]
<1>1. /\ "approvers" \in DOMAIN db /\ "approval_requests" \in DOMAIN db
      /\ DOMAIN db["approvers"] = Requests \X Users
      /\ DOMAIN db["approval_requests"] = Requests
  BY SoundStorage DEF TableName
<1>2. \A q \in Requests, u \in Users : <<q, u>> \in DOMAIN db["approvers"]
  BY <1>1
<1> QED BY <1>1, <1>2, Zenon DEF CommitTx, Sees

\* A commit publishes a vote or a cancellation with its audit entry.
LEMMA CommitAudits ==
  ASSUME LocksAreSound, TrailIsKept, NEW t \in Tx, Commit(t)
  PROVE  AuditLogFits'
<1>0. /\ CommitTx(t) /\ pc[t] = "commit" /\ Trail(t)
      /\ "cancelled" \notin Users
  BY ApprovalsAssumption DEF Commit, TrailIsKept
<1>1. ASSUME NEW q \in Requests, NEW u \in Users
      PROVE  db'.audit_logs[<<q, u>>] <=>
               db'.approvers[<<q, u>>] \in {"approved", "rejected"}
  <2>0. /\ db.audit_logs[<<q, u>>] <=>
             db.approvers[<<q, u>>] \in {"approved", "rejected"}
        /\ u \in Event
    BY DEF TrailIsKept, AuditLogFits, Event
  <2>1. CASE owner.audit_logs[<<q, u>>] = t
    <3>1. Recorded(t) /\ req[t].request = q /\ EventOf(t) = u
      BY <1>0, <2>0, <2>1 DEF Trail, LockedEntries
    <3>2. req[t] \in DecideRequest
      BY <1>0, <3>1, Kinds DEF Recorded, EventOf
    <3>3. req[t].user = u /\ req[t].decision \in {"approved", "rejected"}
      BY <3>1, <3>2, Kinds DEF EventOf
    <3>4. /\ owner.approvers[<<q, u>>] = t
          /\ dirty.approvers[<<q, u>>] = req[t].decision
          /\ dirty.audit_logs[<<q, u>>]
      BY <1>0, <3>1, <3>2, <3>3, Zenon DEF Trail, RecordedRow
    <3>5. db'.audit_logs[<<q, u>>]
      BY <1>0, <2>0, <2>1, <3>4, CommittedEntries, Zenon
    <3>6. db'.approvers[<<q, u>>] \in {"approved", "rejected"}
      BY <1>0, <3>3, <3>4, CommittedVotes
    <3> QED BY <3>5, <3>6
  <2>2. CASE owner.audit_logs[<<q, u>>] # t
    <3>1. db'.audit_logs[<<q, u>>] = db.audit_logs[<<q, u>>]
      BY <1>0, <2>0, <2>2, CommittedEntries, Zenon
    <3>2. CASE owner.approvers[<<q, u>>] = t
      <4>1. ~ (req[t] \in DecideRequest /\ Recorded(t))
        <5>1. SUFFICES ASSUME req[t] \in DecideRequest, Recorded(t)
                       PROVE  FALSE
          OBVIOUS
        <5>2. req[t].request = q /\ req[t].user = u
          BY <1>0, <3>2 DEF Trail, LockedVotes
        <5>3. EventOf(t) = u
          BY <5>1, <5>2, Kinds DEF EventOf
        <5> QED BY <1>0, <2>2, <5>1, <5>2, <5>3 DEF Trail, RecordedRow
      <4>2. dirty.approvers[<<q, u>>] = "waiting"
        BY <1>0, <3>2, <4>1 DEF Trail, LockedVotes
      <4>3. db'.approvers[<<q, u>>] = "waiting"
        BY <1>0, <3>2, <4>2, CommittedVotes
      <4>4. db.approvers[<<q, u>>] \in {"none", "waiting"}
        BY <3>2, NilAssumption DEF LocksAreSound, ApproverLocks
      <4>5. /\ db.approvers[<<q, u>>] \notin {"approved", "rejected"}
            /\ db'.approvers[<<q, u>>] \notin {"approved", "rejected"}
        BY <4>3, <4>4
      <4> QED BY <2>0, <3>1, <4>5, Zenon
    <3>3. CASE owner.approvers[<<q, u>>] # t
      <4>1. db'.approvers[<<q, u>>] = db.approvers[<<q, u>>]
        BY <1>0, <3>3, CommittedVotes
      <4> QED BY <2>0, <3>1, <4>1, Zenon
    <3> QED BY <3>2, <3>3
  <2> QED BY <2>1, <2>2
<1>2. ASSUME NEW q \in Requests, db'.audit_logs[<<q, "cancelled">>]
      PROVE  StatusOf(q)' = "cancelled"
  <2>0. /\ db.audit_logs[<<q, "cancelled">>] => StatusOf(q) = "cancelled"
        /\ "cancelled" \in Event
    BY DEF TrailIsKept, AuditLogFits, Event
  <2>1. CASE owner.audit_logs[<<q, "cancelled">>] = t
    <3>1. Recorded(t) /\ req[t].request = q /\ EventOf(t) = "cancelled"
      BY <1>0, <2>0, <2>1 DEF Trail, LockedEntries
    <3>2. req[t] \in CancelRequest
      BY <1>0, <3>1, Kinds DEF Recorded, EventOf
    <3>3. /\ owner.approval_requests[q] = t
          /\ dirty.approval_requests[q].status = "cancelled"
      BY <1>0, <3>1, <3>2 DEF Trail, RecordedRow
    <3> QED BY <1>0, <3>3, CommittedVotes DEF StatusOf
  <2>2. CASE owner.audit_logs[<<q, "cancelled">>] # t
    <3>1. StatusOf(q) = "cancelled"
      BY <1>0, <1>2, <2>0, <2>2, CommittedEntries, Zenon
    <3>2. owner.approval_requests[q] # t
      BY <3>1, NilAssumption DEF LocksAreSound, RequestLocks
    <3> QED BY <1>0, <3>1, <3>2, CommittedVotes DEF StatusOf
  <2> QED BY <2>1, <2>2
<1> QED BY <1>1, <1>2, Zenon DEF AuditLogFits, StatusOf

\* A new policy row, or a new request with its approver: no transaction has
\* locked what they write.
LEMMA SingleLeaves ==
  ASSUME LocksAreSound, \A x \in Tx : Trail(x), SingleStep
  PROVE  /\ \A x \in Tx : Undisturbed(x)
         /\ \A q \in Requests, u \in Users :
              /\ db'.audit_logs[<<q, u>>] = db.audit_logs[<<q, u>>]
              /\ \/ db'.approvers[<<q, u>>] = db.approvers[<<q, u>>]
                 \/ /\ db.approvers[<<q, u>>] = "none"
                    /\ db'.approvers[<<q, u>>] = "waiting"
         /\ \A q \in Requests :
              /\ db'.audit_logs[<<q, "cancelled">>]
                   = db.audit_logs[<<q, "cancelled">>]
              /\ StatusOf(q) # "none" =>
                   db'.approval_requests[q] = db.approval_requests[q]
              /\ StatusOf(q) = "none" => owner.approval_requests[q] = Nil
<1>0. /\ StorageTypeOK /\ db \in Tables /\ dirty \in Tables
      /\ pc \in [Tx -> Statement]
  BY SoundStorage DEF StorageTypeOK, ControlTypeOK
<1>n. \A q \in Requests : StatusOf(q) = "none" => owner.approval_requests[q] = Nil
  BY DEF LocksAreSound, RequestLocks
<1>1. CASE \E p \in Policies, row \in PolicyRow : UpdateApprovalPolicy(p, row)
  <2>1. PICK p \in Policies, row \in PolicyRow : UpdateApprovalPolicy(p, row)
    BY <1>1
  <2>2. /\ owner' = owner /\ pc' = pc /\ req' = req /\ count' = count
        /\ owner["approval_policies"][p] = Nil
        /\ db' = [db EXCEPT !["approval_policies"][p] = row]
        /\ dirty' = [dirty EXCEPT !["approval_policies"][p] = row]
    BY <2>1 DEF UpdateApprovalPolicy, WriteAndCommit
  <2>3. \A tab \in TableName : DOMAIN dirty[tab] = DOMAIN owner[tab]
        /\ DOMAIN dirty = TableName /\ DOMAIN db = TableName
    BY SoundStorage DEF Tabular
  <2>4. /\ \A tab \in TableName \ {"approval_policies"} :
             dirty'[tab] = dirty[tab] /\ db'[tab] = db[tab]
        /\ dirty'["approval_policies"] =
             [dirty["approval_policies"] EXCEPT ![p] = row]
    BY <2>2, <2>3 DEF TableName
  <2>5. ASSUME NEW x \in Tx PROVE Undisturbed(x)
    <3>1. \A tab \in TableName : \A id \in DOMAIN owner[tab] :
            owner[tab][id] = x => dirty'[tab][id] = dirty[tab][id]
      BY <2>2, <2>3, <2>4, NilAssumption
    <3> QED BY <2>2, <3>1 DEF Undisturbed
  <2>6. /\ db'.approvers = db.approvers /\ db'.audit_logs = db.audit_logs
        /\ db'.approval_requests = db.approval_requests
    BY <2>4 DEF TableName
  <2> QED BY <1>n, <2>5, <2>6
<1>2. CASE \E q \in Requests, u \in Users, p \in Policies \cup {Nil},
              s \in Status, assigned \in {{}} \cup {{a} : a \in Users} :
             CreateApprovalRequest(q, u, p, s, assigned)
  <2>1. PICK q \in Requests, user \in Users, policy \in Policies \cup {Nil},
             status \in Status, assigned \in {{}} \cup {{a} : a \in Users} :
          CreateApprovalRequest(q, user, policy, status, assigned)
    BY <1>2
  <2> DEFINE row == [status |-> status, requested_by |-> user,
                     policy |-> policy]
             votes(old) == [qu \in DOMAIN old |->
                              IF qu \in {q} \X assigned THEN "waiting"
                                                        ELSE old[qu]]
             created(old) == [old EXCEPT !.approval_requests[q] = row,
                                         !.approvers = votes(@),
                                         !.audit_logs[<<q, "created">>] = TRUE]
  <2>2. /\ db' = created(db) /\ dirty' = created(dirty)
        /\ owner' = owner /\ pc' = pc /\ req' = req /\ count' = count
        /\ StatusOf(q) = "none"
    BY <2>1 DEF CreateApprovalRequest, StatusOf
  <2>3. assigned \subseteq Users
    OBVIOUS
  <2>4. ASSUME NEW old \in Tables
        PROVE  /\ created(old).approval_policies = old.approval_policies
               /\ \A r \in Requests \ {q} :
                    created(old).approval_requests[r] = old.approval_requests[r]
               /\ created(old).approvers = votes(old.approvers)
               /\ \A r \in Requests, e \in Event : <<r, e>> # <<q, "created">> =>
                    created(old).audit_logs[<<r, e>>] = old.audit_logs[<<r, e>>]
    <3>1. /\ created(old).approval_policies = old.approval_policies
          /\ created(old).approval_requests =
               [old.approval_requests EXCEPT ![q] = row]
          /\ created(old).approvers = votes(old.approvers)
          /\ created(old).audit_logs =
               [old.audit_logs EXCEPT ![<<q, "created">>] = TRUE]
      <4> HIDE DEF row, votes
      <4> QED BY DEF Tables
    <3>2. /\ DOMAIN old.approval_requests = Requests
          /\ DOMAIN old.audit_logs = Requests \X Event
      BY DEF Tables
    <3> HIDE DEF created, row, votes
    <3>3. \A r \in Requests \ {q} :
            created(old).approval_requests[r] = old.approval_requests[r]
      BY <3>1, <3>2
    <3>4. \A e \in DOMAIN old.audit_logs : e # <<q, "created">> =>
            created(old).audit_logs[e] = old.audit_logs[e]
      BY <3>1, Zenon
    <3> QED BY <3>1, <3>2, <3>3, <3>4
  <2> HIDE DEF created, row
  <2>5. ASSUME NEW old \in Tables, NEW r \in Requests, NEW u \in Users
        PROVE  created(old).approvers[<<r, u>>] =
                 IF r = q /\ u \in assigned THEN "waiting"
                                            ELSE old.approvers[<<r, u>>]
    <3>1. DOMAIN old.approvers = Requests \X Users
      BY DEF Tables
    <3>2. <<r, u>> \in DOMAIN old.approvers
          /\ (<<r, u>> \in {q} \X assigned <=> r = q /\ u \in assigned)
      BY <3>1
    <3>3. created(old).approvers = votes(old.approvers)
      BY <2>4
    <3> HIDE DEF created
    <3> QED BY <3>2, <3>3
  <2>6. /\ \A u \in Users : /\ db.approvers[<<q, u>>] = "none"
                            /\ owner.approvers[<<q, u>>] = Nil
        /\ owner.approval_requests[q] = Nil
    BY <1>n, <2>2 DEF LocksAreSound, NoVotesBeforehand, ApproverLocks
  <2>7. \A x \in Tx : owner.audit_logs[<<q, "created">>] # x
    <3> SUFFICES ASSUME NEW x \in Tx, owner.audit_logs[<<q, "created">>] = x
                 PROVE  FALSE
      OBVIOUS
    <3>1. Recorded(x) /\ EventOf(x) = "created"
      BY DEF Trail, LockedEntries, Event
    <3>2. EventOf(x) \in Users \cup {"cancelled"}
      BY <3>1, Kinds DEF Recorded, EventOf
    <3> QED BY <3>1, <3>2, ApprovalsAssumption
  <2>8. ASSUME NEW x \in Tx PROVE Undisturbed(x)
    <3>1. ASSUME NEW r \in Requests, owner.approval_requests[r] = x
          PROVE  dirty'.approval_requests[r] = dirty.approval_requests[r]
      BY <1>0, <2>2, <2>4, <2>6, <3>1, NilAssumption
    <3>2. ASSUME NEW r \in Requests, NEW u \in Users,
                 owner.approvers[<<r, u>>] = x
          PROVE  dirty'.approvers[<<r, u>>] = dirty.approvers[<<r, u>>]
      BY <1>0, <2>2, <2>5, <2>6, <3>2, NilAssumption
    <3>3. ASSUME NEW r \in Requests, NEW e \in Event,
                 owner.audit_logs[<<r, e>>] = x
          PROVE  dirty'.audit_logs[<<r, e>>] = dirty.audit_logs[<<r, e>>]
      <4>1. <<r, e>> # <<q, "created">>
        BY <2>7, <3>3
      <4> QED BY <1>0, <2>2, <2>4, <4>1, Zenon
    <3>4. dirty'["approval_policies"] = dirty["approval_policies"]
      BY <1>0, <2>2, <2>4
    <3>5. ASSUME NEW tab \in TableName, NEW id \in DOMAIN owner[tab],
                 owner[tab][id] = x
          PROVE  dirty'[tab][id] = dirty[tab][id]
      <4>1. CASE tab = "approval_policies"
        BY <3>4, <4>1
      <4>2. CASE tab = "approval_requests"
        BY <3>1, <3>5, <4>2, TableRows
      <4>3. CASE tab = "approvers"
        BY <3>2, <3>5, <4>3, TableRows
      <4>4. CASE tab = "audit_logs"
        BY <3>3, <3>5, <4>4, TableRows
      <4> QED BY <4>1, <4>2, <4>3, <4>4 DEF TableName
    <3> QED BY <2>2, <3>5 DEF Undisturbed
  <2>9. ASSUME NEW r \in Requests, NEW e \in Event, e # "created"
        PROVE  db'.audit_logs[<<r, e>>] = db.audit_logs[<<r, e>>]
    <3>1. <<r, e>> # <<q, "created">>
      BY <2>9
    <3> QED BY <1>0, <2>2, <2>4, <3>1, Zenon
  <2>10. ASSUME NEW r \in Requests, NEW u \in Users
         PROVE  \/ db'.approvers[<<r, u>>] = db.approvers[<<r, u>>]
                \/ /\ db.approvers[<<r, u>>] = "none"
                   /\ db'.approvers[<<r, u>>] = "waiting"
    BY <1>0, <2>2, <2>5, <2>6
  <2>11. ASSUME NEW r \in Requests, StatusOf(r) # "none"
         PROVE  db'.approval_requests[r] = db.approval_requests[r]
    BY <1>0, <2>2, <2>4, <2>11
  <2>12. \A u \in Users : u \in Event /\ u # "created"
    BY ApprovalsAssumption DEF Event
  <2>13. "cancelled" \in Event /\ "cancelled" # "created"
    BY DEF Event
  <2> QED BY <1>n, <2>8, <2>9, <2>10, <2>11, <2>12, <2>13
<1> QED BY <1>1, <1>2 DEF SingleStep

LEMMA InitTrail == Init => TrailIsKept
<1> SUFFICES ASSUME Init PROVE TrailIsKept
  OBVIOUS
<1>1. LocksAreSound
  BY InitSound
<1>2. /\ \A q \in Requests, e \in Event : db.audit_logs[<<q, e>>] = FALSE
      /\ \A q \in Requests, u \in Users : db.approvers[<<q, u>>] = "none"
      /\ \A x \in Tx : pc[x] = "idle"
  BY DEF Init
<1>3. \A tab \in TableName : \A id \in DOMAIN owner[tab] : owner[tab][id] = Nil
  <2>1. /\ owner = [tab \in DOMAIN Rows |-> [id \in Rows[tab] |-> Nil]]
        /\ DOMAIN Rows = TableName
    BY DEF Init, Rows, TableName
  <2> HIDE DEF Rows
  <2> QED BY <2>1
<1>4. ASSUME NEW x \in Tx PROVE Trail(x)
  <2>1. ~Recorded(x)
    BY <1>2 DEF Recorded
  <2>2. /\ \A q \in Requests, u \in Users : owner.approvers[<<q, u>>] # x
        /\ \A q \in Requests, e \in Event : owner.audit_logs[<<q, e>>] # x
    BY <1>1, <1>3, TableRows, NilAssumption
  <2> QED BY <2>1, <2>2 DEF Trail, RecordedRow, LockedVotes, LockedEntries
<1>5. AuditLogFits
  <2>1. \A u \in Users : u \in Event /\ "cancelled" \in Event
    BY DEF Event
  <2>2. \A q \in Requests, u \in Users :
          /\ db.approvers[<<q, u>>] \notin {"approved", "rejected"}
          /\ ~db.audit_logs[<<q, u>>]
    BY <1>2, <2>1
  <2>3. "cancelled" \in Event
    BY DEF Event
  <2>4. \A q \in Requests : ~db.audit_logs[<<q, "cancelled">>]
    BY <1>2, <2>3, Zenon
  <2> QED BY <2>2, <2>4, Zenon DEF AuditLogFits
<1> QED BY <1>4, <1>5 DEF TrailIsKept

LEMMA NextTrail ==
  LocksAreSound /\ TrailIsKept /\ [Next]_vars => TrailIsKept'
<1> SUFFICES ASSUME LocksAreSound, TrailIsKept, [Next]_vars PROVE TrailIsKept'
  OBVIOUS
<1>0. AuditLogFits /\ \A x \in Tx : Trail(x)
  BY DEF TrailIsKept
<1>s. ASSUME db' = db PROVE AuditLogFits'
  BY <1>0, <1>s, Zenon DEF AuditLogFits, StatusOf
<1>1. CASE UNCHANGED vars
  <2>1. \A x \in Tx : Undisturbed(x)
    BY <1>1 DEF vars, Undisturbed
  <2> QED BY <1>0, <1>1, <1>s, <2>1, UndisturbedTrail DEF vars, TrailIsKept
<1>2. CASE SingleStep
  <2>1. /\ \A x \in Tx : Undisturbed(x)
        /\ \A q \in Requests, u \in Users :
             /\ db'.audit_logs[<<q, u>>] = db.audit_logs[<<q, u>>]
             /\ \/ db'.approvers[<<q, u>>] = db.approvers[<<q, u>>]
                \/ /\ db.approvers[<<q, u>>] = "none"
                   /\ db'.approvers[<<q, u>>] = "waiting"
        /\ \A q \in Requests :
             /\ db'.audit_logs[<<q, "cancelled">>]
                  = db.audit_logs[<<q, "cancelled">>]
             /\ StatusOf(q) # "none" =>
                  db'.approval_requests[q] = db.approval_requests[q]
             /\ StatusOf(q) = "none" => owner.approval_requests[q] = Nil
    BY <1>0, <1>2, SingleLeaves
  <2>2. \A q \in Requests, u \in Users :
          db'.approvers[<<q, u>>] \in {"approved", "rejected"} <=>
            db.approvers[<<q, u>>] \in {"approved", "rejected"}
    BY <2>1
  <2>3. ASSUME NEW q \in Requests, StatusOf(q) = "cancelled"
        PROVE  StatusOf(q)' = "cancelled"
    BY <2>1, <2>3 DEF StatusOf
  <2>4. AuditLogFits'
    BY <1>0, <2>1, <2>2, <2>3, Zenon DEF AuditLogFits
  <2> QED BY <1>0, <2>1, <2>4, UndisturbedTrail DEF TrailIsKept
<1>3. ASSUME NEW t \in Tx, Start(t) \/ Step(t) PROVE TrailIsKept'
  <2>1. \A x \in Tx : Trail(x)'
    BY <1>0, <1>3, StepTrail, StepLeaves, UndisturbedTrail
  <2>2. CASE Commit(t)
    BY <2>1, <2>2, CommitAudits DEF TrailIsKept
  <2>3. CASE ~Commit(t)
    <3>1. db' = db
      BY <1>3, <2>3
         DEF Start, DecideApprovalRequest, CancelApprovalRequest,
             AddApprovalRequestApprover, Begin, Step, DecideGetPolicy,
             RecordApproverDecision, CountApprovedDecisions, DecideGetMin,
             UpdateApprovalRequestStatus, CancelUpdate,
             CreateApprovalRequestApprover, InsertAuditLog, Rollback,
             RollbackTx, Write, storage
    <3> QED BY <1>s, <2>1, <3>1 DEF TrailIsKept
  <2> QED BY <2>2, <2>3
<1> QED BY <1>1, <1>2, <1>3 DEF Next

\* A row that t has locked as cancelled is that of the request it cancels.
CancelsOwn(t) ==
  \A q \in Requests :
    /\ owner.approval_requests[q] = t
    /\ dirty.approval_requests[q].status = "cancelled"
    => /\ req[t] \in CancelRequest /\ pc[t] \in {"insert_audit", "commit"}
       /\ req[t].request = q

\* With LocksAreSound, inductive.
CancelsAreOwn == \A t \in Tx : CancelsOwn(t)

LEMMA InitCancels == Init => CancelsAreOwn
<1> SUFFICES ASSUME Init PROVE CancelsAreOwn
  OBVIOUS
<1>1. \A q \in Requests : owner.approval_requests[q] = Nil
  <2>1. /\ owner = [tab \in DOMAIN Rows |-> [id \in Rows[tab] |-> Nil]]
        /\ "approval_requests" \in DOMAIN Rows
        /\ Rows["approval_requests"] = Requests
    BY DEF Init, Rows
  <2> HIDE DEF Rows
  <2> QED BY <2>1
<1> QED BY <1>1, NilAssumption DEF CancelsAreOwn, CancelsOwn

\* A step of t leaves it the row it cancels, if any.
LEMMA StepCancels ==
  ASSUME LocksAreSound, NEW t \in Tx, Start(t) \/ Step(t), CancelsOwn(t)
  PROVE  CancelsOwn(t)'
<1>0. /\ pc \in [Tx -> Statement] /\ req \in [Tx -> HttpRequest \cup {Nil}]
      /\ RequestOK(t)
  BY SoundStorage DEF ControlTypeOK, LocksAreSound
<1>1. ASSUME pc[t] \notin {"insert_audit", "commit"}
      PROVE  \A q \in Requests : owner.approval_requests[q] = t =>
               dirty.approval_requests[q].status # "cancelled"
  BY <1>1 DEF CancelsOwn
<1>2. CASE Start(t)
  <2>1. owner' = owner /\ dirty' = dirty /\ pc[t] = "idle"
    BY <1>2 DEF Start, DecideApprovalRequest, CancelApprovalRequest,
                AddApprovalRequestApprover, Begin, storage
  <2> QED BY <1>1, <2>1 DEF CancelsOwn
<1>3. CASE DecideGetPolicy(t) \/ CountApprovedDecisions(t) \/ DecideGetMin(t)
  <2>1. /\ owner' = owner /\ dirty' = dirty
        /\ pc[t] \in {"get_policy", "count_approved", "get_min"}
    BY <1>3 DEF DecideGetPolicy, CountApprovedDecisions, DecideGetMin, storage
  <2> QED BY <1>1, <2>1 DEF CancelsOwn
<1>4. CASE RecordApproverDecision(t) \/ CreateApprovalRequestApprover(t)
  <2>1. /\ pc[t] \in {"record_decision", "create_approver"}
        /\ req[t] \in DecideRequest \cup AddRequest
        /\ \E row : Write(t, "approvers", <<req[t].request, req[t].user>>, row)
    BY <1>0, <1>4
       DEF RecordApproverDecision, CreateApprovalRequestApprover, RequestOK,
           DecideStatement
  <2>2. <<req[t].request, req[t].user>> \in DOMAIN owner["approvers"]
    BY <2>1, Kinds, TableRows
  <2>3. \A q \in Requests :
          /\ owner'.approval_requests[q] = owner.approval_requests[q]
          /\ dirty'.approval_requests[q] = dirty.approval_requests[q]
    BY <2>1, <2>2, WriteRows, TableRows
  <2> QED BY <1>1, <2>1, <2>3 DEF CancelsOwn
<1>5. CASE UpdateApprovalRequestStatus(t) \/ CancelUpdate(t)
  <2> DEFINE q == req[t].request
             s == IF pc[t] = "cancel" THEN "cancelled" ELSE req[t].decision
             row == [dirty.approval_requests[q] EXCEPT !.status = s]
  <2>1. /\ req' = req /\ pc'[t] = "insert_audit"
        /\ \/ pc[t] = "update_status" /\ req[t] \in DecideRequest
           \/ pc[t] = "cancel" /\ req[t] \in CancelRequest
        /\ Write(t, "approval_requests", q, row)
    BY <1>0, <1>5
       DEF UpdateApprovalRequestStatus, CancelUpdate, RequestOK, DecideStatement
  <2>2. /\ q \in Requests
        /\ req[t] \in DecideRequest => req[t].decision \in {"approved", "rejected"}
    BY <2>1, Kinds
  <2>3. row.status = s
    BY <2>2, SoundStorage DEF RequestRow
  <2>4. pc[t] \notin {"insert_audit", "commit"}
    BY <2>1
  <2> HIDE DEF row, q
  <2>5. \A r \in Requests :
          /\ owner'.approval_requests[r] = IF r = q THEN t ELSE owner.approval_requests[r]
          /\ dirty'.approval_requests[r] = IF r = q THEN row ELSE dirty.approval_requests[r]
    BY <2>1, <2>2, WriteRows, TableRows
  <2>6. ASSUME NEW r \in Requests, owner'.approval_requests[r] = t,
               dirty'.approval_requests[r].status = "cancelled"
        PROVE  r = q /\ s = "cancelled"
    BY <1>1, <2>3, <2>4, <2>5, <2>6
  <2>7. s = "cancelled" => req[t] \in CancelRequest
    BY <2>1, <2>2
  <2>8. req'[t] = req[t]
    BY <2>1
  <2> HIDE DEF s
  <2> QED BY <2>1, <2>6, <2>7, <2>8 DEF CancelsOwn, q
<1>6. CASE InsertAuditLog(t)
  <2>1. /\ pc[t] = "insert_audit" /\ pc'[t] = "commit" /\ req' = req
        /\ req[t] \in DecideRequest \cup CancelRequest
        /\ Write(t, "audit_logs", <<req[t].request, EventOf(t)>>, TRUE)
    BY <1>0, <1>6 DEF InsertAuditLog, RequestOK, EventOf
  <2> DEFINE id == <<req[t].request, EventOf(t)>>
             row == TRUE
  <2>2. id \in DOMAIN owner["audit_logs"] /\ "audit_logs" \in TableName
    BY <2>1, Kinds, TableRows DEF EventOf, Event
  <2> HIDE DEF id, row
  <2>3. \A other \in TableName : \A i \in DOMAIN owner[other] :
          /\ owner'[other][i] = IF other = "audit_logs" /\ i = id
                                  THEN t ELSE owner[other][i]
          /\ dirty'[other][i] = IF other = "audit_logs" /\ i = id
                                  THEN row ELSE dirty[other][i]
    <3>1. Write(t, "audit_logs", id, row)
      BY <2>1 DEF id, row
    <3> QED BY <2>2, <3>1, WriteRows
  <2>4. \A q \in Requests :
          /\ owner'.approval_requests[q] = owner.approval_requests[q]
          /\ dirty'.approval_requests[q] = dirty.approval_requests[q]
    BY <2>3, TableRows
  <2> QED BY <2>1, <2>4 DEF CancelsOwn
<1>7. CASE Commit(t) \/ Rollback(t)
  <2>1. CommitTx(t) \/ RollbackTx(t)
    BY <1>7 DEF Commit, Rollback
  <2>2. \A tab \in DOMAIN db : \A id \in DOMAIN db[tab] : owner'[tab][id] =
          IF owner[tab][id] = t THEN Nil ELSE owner[tab][id]
    BY <2>1, SoundStorage, EndChanges
  <2>3. \A tab \in TableName : \A id \in DOMAIN owner[tab] : owner'[tab][id] # t
    BY <2>2, SoundStorage, NilAssumption DEF Tabular
  <2> QED BY <2>3, TableRows DEF CancelsOwn
<1> QED BY <1>2, <1>3, <1>4, <1>5, <1>6, <1>7 DEF Step

LEMMA NextCancels ==
  LocksAreSound /\ TrailIsKept /\ CancelsAreOwn /\ [Next]_vars => CancelsAreOwn'
<1> SUFFICES ASSUME LocksAreSound, TrailIsKept, CancelsAreOwn, [Next]_vars
             PROVE  CancelsAreOwn'
  OBVIOUS
<1>u. ASSUME NEW x \in Tx, Undisturbed(x) PROVE CancelsOwn(x)'
  <2>1. /\ pc'[x] = pc[x] /\ req'[x] = req[x] /\ CancelsOwn(x)
        /\ \A q \in Requests :
             /\ owner'.approval_requests[q] = x <=> owner.approval_requests[q] = x
             /\ owner.approval_requests[q] = x =>
                  dirty'.approval_requests[q] = dirty.approval_requests[q]
    BY <1>u, UndisturbedRows DEF Undisturbed, CancelsAreOwn
  <2> QED BY <2>1 DEF CancelsOwn
<1>1. CASE UNCHANGED vars
  <2>1. \A x \in Tx : Undisturbed(x)
    BY <1>1 DEF vars, Undisturbed
  <2> QED BY <1>u, <2>1 DEF CancelsAreOwn
<1>2. CASE SingleStep
  BY <1>2, <1>u, SingleLeaves DEF CancelsAreOwn, TrailIsKept
<1>3. ASSUME NEW t \in Tx, Start(t) \/ Step(t) PROVE CancelsAreOwn'
  BY <1>3, <1>u, StepLeaves, StepCancels DEF CancelsAreOwn
<1> QED BY <1>1, <1>2, <1>3 DEF Next

\* Only a commit changes the status of a request that exists.
LEMMA StatusCommits ==
  ASSUME LocksAreSound, TrailIsKept, [Next]_vars, NEW q \in Requests,
         StatusOf(q) # "none", StatusOf(q)' # StatusOf(q)
  PROVE  \E t \in Tx : Commit(t)
<1>1. ~SingleStep
  BY SingleLeaves DEF TrailIsKept, StatusOf
<1>2. PICK t \in Tx : Start(t) \/ Step(t)
  BY <1>1 DEF Next, vars, StatusOf
<1>3. ~Commit(t) => db' = db
  BY <1>2
     DEF Start, DecideApprovalRequest, CancelApprovalRequest,
         AddApprovalRequestApprover, Begin, Step, DecideGetPolicy,
         RecordApproverDecision, CountApprovedDecisions, DecideGetMin,
         UpdateApprovalRequestStatus, CancelUpdate,
         CreateApprovalRequestApprover, InsertAuditLog, Rollback,
         RollbackTx, Write, storage
<1> QED BY <1>3 DEF StatusOf

\* A step that cancels a request publishes the entry that tells of it.
LEMMA CancellationPublished ==
  ASSUME LocksAreSound, TrailIsKept, CancelsAreOwn, [Next]_vars,
         NEW q \in Requests, StatusOf(q) \in {"draft", "pending"},
         StatusOf(q)' = "cancelled"
  PROVE  db'.audit_logs[<<q, "cancelled">>]
<1>1. PICK t \in Tx : Commit(t)
  BY StatusCommits
<1>2. CommitTx(t) /\ pc[t] = "commit"
  BY <1>1 DEF Commit
<1>3. /\ owner.approval_requests[q] = t
      /\ dirty.approval_requests[q].status = "cancelled"
  BY <1>2, CommittedVotes DEF StatusOf
<1>4. req[t] \in CancelRequest /\ req[t].request = q
  BY <1>3 DEF CancelsAreOwn, CancelsOwn
<1>5. Recorded(t) /\ EventOf(t) = "cancelled" /\ "cancelled" \in Event
  BY <1>2, <1>4, Kinds DEF Recorded, EventOf, Event
<1>6. /\ owner.audit_logs[<<q, "cancelled">>] = t
      /\ dirty.audit_logs[<<q, "cancelled">>]
  BY <1>2, <1>4, <1>5 DEF TrailIsKept, Trail, RecordedRow
<1> QED BY <1>2, <1>5, <1>6, CommittedEntries, Zenon

\* However requests interleave and whichever of them fail, the committed
\* audit log has the entry of a vote exactly when the vote is recorded, that
\* of a cancellation from the commit that cancels the request, and none of a
\* request that is not cancelled: each entry is inserted in the transaction
\* whose change it tells of.
THEOREM VotesAreAudited == Spec => AuditTrail
<1> DEFINE Published ==
             \A q \in Requests :
               StatusOf(q) \in {"draft", "pending"} /\ StatusOf(q)' = "cancelled" =>
                 db'.audit_logs[<<q, "cancelled">>]
<1>1. TrailIsKept => AuditLogFits
  BY DEF TrailIsKept
<1>2. LocksAreSound /\ TrailIsKept /\ CancelsAreOwn /\ [Next]_vars => Published
  BY CancellationPublished
<1>3. []AuditLogFits /\ [][Published]_vars => AuditTrail
  BY PTL DEF AuditTrail
<1> QED BY <1>1, <1>2, <1>3, InitTrail, NextTrail, InitCancels, NextCancels,
           SpecSound, PTL DEF Spec

-----------------------------------------------------------------------------
(***************************************************************************)
(* The approvals a decision rests on, while policies keep min_approvers.   *)
(***************************************************************************)

\* The step leaves the min_approvers of every policy as it is.
MinApproversStay ==
  \A p \in Policies : db'.approval_policies[p].min_approvers
                        = db.approval_policies[p].min_approvers

\* No handler changes the policy of a request.
PolicyKept ==
  \A q \in Requests :
    dirty.approval_requests[q].policy = db.approval_requests[q].policy

\* With LocksAreSound, the inductive invariant of ApprovedByEnough.
EnoughIsSeen == PolicyKept /\ \A t \in Tx : SeesEnough(t)

\* The approvals a transaction sees are counted by a number.
LEMMA SeenFinite ==
  ASSUME NEW t \in Tx
  PROVE  /\ IsFiniteSet(Seen(t)) /\ Cardinality(Seen(t)) \in Nat
         /\ \A S \in SUBSET Users :
              /\ IsFiniteSet(S) /\ Cardinality(S) \in Nat
              /\ Seen(t) \subseteq S =>
                   Cardinality(Seen(t)) <= Cardinality(S)
<1>1. IsFiniteSet(Users) /\ Seen(t) \subseteq Users
  BY ApprovalsAssumption DEF Seen
<1>2. \A S \in SUBSET Users : IsFiniteSet(S)
  BY <1>1, FS_Subset
<1>3. \A S \in SUBSET Users : Cardinality(S) \in Nat
  BY <1>2, FS_CardinalityType
<1>4. \A S \in SUBSET Users :
        Seen(t) \subseteq S => Cardinality(Seen(t)) <= Cardinality(S)
  BY <1>2, FS_Subset
<1> QED BY <1>1, <1>2, <1>3, <1>4

\* An approval that a transaction has seen, it sees as long as it runs.
LEMMA SeenGrows ==
  ASSUME LocksAreSound, [Next]_vars, NEW x \in Tx, Undisturbed(x),
         req[x].request \in Requests
  PROVE  Seen(x) \subseteq Seen(x)'
<1> SUFFICES ASSUME NEW u \in Users,
                    Sees(x, "approvers", <<req[x].request, u>>) = "approved"
             PROVE  Sees(x, "approvers", <<req[x].request, u>>)' = "approved"
  BY DEF Seen, Undisturbed
<1>1. /\ req'[x] = req[x]
      /\ owner'.approvers[<<req[x].request, u>>] = x
           <=> owner.approvers[<<req[x].request, u>>] = x
      /\ owner.approvers[<<req[x].request, u>>] = x =>
           dirty'.approvers[<<req[x].request, u>>]
             = dirty.approvers[<<req[x].request, u>>]
  BY UndisturbedRows DEF Undisturbed
<1>2. db.approvers[<<req[x].request, u>>] = "approved" =>
        db'.approvers[<<req[x].request, u>>] = "approved"
  BY CommittedStays DEF Voters
<1> QED BY <1>1, <1>2 DEF Sees

\* The approvals a request needs are a number, and stay the same while its
\* policy does.
LEMMA NeededStays ==
  ASSUME LocksAreSound, NEW q \in Requests
  PROVE  /\ Needed(q) \in Int
         /\ MinApproversStay
              /\ db'.approval_requests[q].policy = db.approval_requests[q].policy
              => Needed(q)' = Needed(q)
<1>1. /\ db.approval_requests[q].policy \in Policies \cup {Nil}
      /\ \A p \in Policies : db.approval_policies[p].min_approvers \in Int
  BY SoundStorage, ApprovalsAssumption
     DEF StorageTypeOK, Tables, RequestRow, PolicyRow
<1>2. CASE db.approval_requests[q].policy = Nil
  BY <1>2 DEF Needed
<1>3. CASE db.approval_requests[q].policy \in Policies
  BY <1>1, <1>3, ApprovalsAssumption DEF Needed, PolicyOf, MinApproversStay
<1> QED BY <1>1, <1>2, <1>3

\* The policy of a request that exists does not change.
LEMMA PolicyStays ==
  ASSUME LocksAreSound, PolicyKept, [Next]_vars
  PROVE  /\ PolicyKept'
         /\ \A q \in Requests : StatusOf(q) # "none" =>
              db'.approval_requests[q].policy = db.approval_requests[q].policy
<1>0. /\ StorageTypeOK /\ db \in Tables /\ dirty \in Tables
      /\ DOMAIN db.approval_requests = Requests
      /\ DOMAIN dirty.approval_requests = Requests
      /\ dirty.approval_requests \in [Requests -> RequestRow]
  BY SoundStorage DEF StorageTypeOK, Tables
<1>s. ASSUME db'.approval_requests = db.approval_requests,
             dirty'.approval_requests = dirty.approval_requests
      PROVE  PolicyKept' /\ \A q \in Requests :
               db'.approval_requests[q].policy = db.approval_requests[q].policy
  BY <1>s DEF PolicyKept
<1>1. CASE UNCHANGED vars
  BY <1>1, <1>s DEF vars
<1>2. ASSUME NEW p \in Policies, NEW row \in PolicyRow,
             UpdateApprovalPolicy(p, row)
      PROVE  /\ db'.approval_requests = db.approval_requests
             /\ dirty'.approval_requests = dirty.approval_requests
  BY <1>0, <1>2 DEF UpdateApprovalPolicy, WriteAndCommit, Tables
<1>3. ASSUME NEW q \in Requests, NEW user \in Users,
             NEW policy \in Policies \cup {Nil}, NEW status \in Status,
             NEW assigned \in {{}} \cup {{a} : a \in Users},
             CreateApprovalRequest(q, user, policy, status, assigned)
      PROVE  /\ PolicyKept'
             /\ \A r \in Requests : StatusOf(r) # "none" =>
                  db'.approval_requests[r].policy = db.approval_requests[r].policy
  <2> DEFINE row == [status |-> status, requested_by |-> user,
                     policy |-> policy]
  <2>1. /\ db'.approval_requests = [db.approval_requests EXCEPT ![q] = row]
        /\ dirty'.approval_requests = [dirty.approval_requests EXCEPT ![q] = row]
        /\ StatusOf(q) = "none"
    BY <1>0, <1>3 DEF CreateApprovalRequest, StatusOf, Tables
  <2> HIDE DEF row
  <2>2. \A r \in Requests :
          \/ /\ db'.approval_requests[r] = db.approval_requests[r]
             /\ dirty'.approval_requests[r] = dirty.approval_requests[r]
          \/ /\ db'.approval_requests[r] = row
             /\ dirty'.approval_requests[r] = row /\ StatusOf(r) = "none"
    BY <1>0, <2>1
  <2> QED BY <2>2 DEF PolicyKept
<1>4. CASE SingleStep
  <2>1. CASE \E p \in Policies, row \in PolicyRow : UpdateApprovalPolicy(p, row)
    BY <1>2, <1>s, <2>1
  <2>2. CASE \E q \in Requests, u \in Users, p \in Policies \cup {Nil},
                s \in Status, assigned \in {{}} \cup {{a} : a \in Users} :
               CreateApprovalRequest(q, u, p, s, assigned)
    <3>1. PICK q \in Requests, u \in Users, p \in Policies \cup {Nil},
               s \in Status, assigned \in {{}} \cup {{a} : a \in Users} :
            CreateApprovalRequest(q, u, p, s, assigned)
      BY <2>2
    <3> QED BY <1>3, <3>1
  <2> QED BY <1>4, <2>1, <2>2 DEF SingleStep
<1>5. ASSUME NEW t \in Tx, Start(t) \/ Step(t)
      PROVE  /\ PolicyKept'
             /\ \A q \in Requests :
                  db'.approval_requests[q].policy = db.approval_requests[q].policy
  <2>1. CASE UpdateApprovalRequestStatus(t) \/ CancelUpdate(t)
    <3> DEFINE q == req[t].request
    <3>1. PICK s \in Status : Write(t, "approval_requests", q,
                                [dirty.approval_requests[q] EXCEPT !.status = s])
      <4>1. RequestOK(t)
        BY DEF LocksAreSound
      <4>2. UpdateApprovalRequestStatus(t) => req[t].decision \in Status
        BY <4>1, Kinds
           DEF UpdateApprovalRequestStatus, RequestOK, DecideStatement, Status
      <4> QED BY <2>1, <4>2
              DEF UpdateApprovalRequestStatus, CancelUpdate, Status
    <3> DEFINE row == [dirty.approval_requests[q] EXCEPT !.status = s]
    <3>2. /\ q \in Requests /\ q \in DOMAIN owner["approval_requests"]
          /\ "approval_requests" \in TableName
      <4>1. req[t] \in DecideRequest \cup CancelRequest
        BY <2>1 DEF LocksAreSound, UpdateApprovalRequestStatus, CancelUpdate,
                    RequestOK, DecideStatement
      <4> QED BY <4>1, Kinds, TableRows
    <3>3. row.policy = dirty.approval_requests[q].policy
      BY <1>0, <3>2 DEF RequestRow
    <3>w. Write(t, "approval_requests", q, row)
      BY <3>1
    <3> HIDE DEF row, q
    <3>4. /\ db' = db
          /\ \A other \in TableName : \A i \in DOMAIN owner[other] :
               /\ owner'[other][i] = IF other = "approval_requests" /\ i = q
                                       THEN t ELSE owner[other][i]
               /\ dirty'[other][i] = IF other = "approval_requests" /\ i = q
                                       THEN row ELSE dirty[other][i]
      BY <3>2, <3>w, WriteRows
    <3>5. \A r \in Requests : dirty'.approval_requests[r] =
            IF r = q THEN row ELSE dirty.approval_requests[r]
      BY <3>4, TableRows
    <3> QED BY <3>3, <3>4, <3>5 DEF PolicyKept
  <2>2. CASE Commit(t) \/ Rollback(t)
    <3>1. CommitTx(t) \/ RollbackTx(t)
      BY <2>2 DEF Commit, Rollback
    <3>2. \A r \in Requests :
            /\ owner'.approval_requests[r] =
                 IF owner.approval_requests[r] = t
                   THEN Nil ELSE owner.approval_requests[r]
            /\ owner.approval_requests[r] # t =>
                 dirty'.approval_requests[r] = dirty.approval_requests[r]
            /\ db'.approval_requests[r] =
                 IF owner.approval_requests[r] = t /\ ~RollbackTx(t)
                   THEN dirty.approval_requests[r]
                   ELSE db.approval_requests[r]
      BY <3>1, EndEffect
    <3>3. \A r \in Requests :
            db'.approval_requests[r].policy = db.approval_requests[r].policy
      BY <3>2 DEF PolicyKept
    <3>4. \A r \in Requests : owner.approval_requests[r] = t =>
            dirty'.approval_requests[r] = db'.approval_requests[r]
      <4>1. DirtyIsCommitted'
        BY <3>1, EndEffect
      <4>2. LocksOK'
        <5>1. StorageTypeOK'
          BY <1>0, <3>1, EndType
        <5> QED BY <5>1 DEF StorageTypeOK
      <4> QED BY <3>2, <4>1, <4>2 DEF DirtyIsCommitted, LocksOK, TableName
    <3>5. ASSUME NEW r \in Requests
          PROVE  dirty'.approval_requests[r].policy
                   = db'.approval_requests[r].policy
      BY <3>2, <3>3, <3>4 DEF PolicyKept
    <3> QED BY <3>3, <3>5 DEF PolicyKept
  <2>3. CASE ~ (UpdateApprovalRequestStatus(t) \/ CancelUpdate(t)
                  \/ Commit(t) \/ Rollback(t))
    <3>1. /\ db'.approval_requests = db.approval_requests
          /\ dirty'.approval_requests = dirty.approval_requests
      BY <1>0, <1>5, <2>3
         DEF Start, DecideApprovalRequest, CancelApprovalRequest,
             AddApprovalRequestApprover, Begin, Step, DecideGetPolicy,
             RecordApproverDecision, CountApprovedDecisions, DecideGetMin,
             CreateApprovalRequestApprover, InsertAuditLog, Write, storage,
             Tables
    <3> QED BY <1>s, <3>1
  <2> QED BY <2>1, <2>2, <2>3
<1> QED BY <1>1, <1>4, <1>5 DEF Next

\* What a transaction nobody disturbs has seen stays enough.
LEMMA UndisturbedEnough ==
  ASSUME LocksAreSound, [Next]_vars, MinApproversStay,
         \A q \in Requests : StatusOf(q) # "none" =>
           db'.approval_requests[q].policy = db.approval_requests[q].policy,
         NEW x \in Tx, Undisturbed(x), SeesEnough(x)
  PROVE  SeesEnough(x)'
<1>1. /\ pc'[x] = pc[x] /\ req'[x] = req[x] /\ count'[x] = count[x]
      /\ \A r \in Requests :
           /\ owner'.approval_requests[r] = x <=> owner.approval_requests[r] = x
           /\ owner.approval_requests[r] = x =>
                dirty'.approval_requests[r] = dirty.approval_requests[r]
  BY UndisturbedRows DEF Undisturbed
<1>2. CASE pc[x] = "idle"
  <2>1. \A r \in Requests : ~ /\ owner.approval_requests[r] = x
                               /\ dirty.approval_requests[r].status = "approved"
    BY <1>2 DEF SeesEnough
  <2> QED BY <1>1, <1>2, <2>1 DEF SeesEnough
<1>3. CASE pc[x] # "idle"
  <2>1. req[x].request \in Requests /\ StatusOf(req[x].request) # "none"
    BY <1>3, Kinds DEF LocksAreSound, RequestOK, RequestExists, DecideStatement
  <2>2. PICK q \in Requests : q = req[x].request
    BY <2>1
  <2>3. Needed(q)' = Needed(q) /\ Needed(q) \in Int
    BY <2>1, <2>2, NeededStays
  <2>4. PICK S \in SUBSET Users : S = Seen(x)'
    BY DEF Seen
  <2>5. Seen(x) \subseteq S
    BY <2>1, <2>4, SeenGrows
  <2>6. /\ Cardinality(Seen(x)) \in Nat /\ Cardinality(S) \in Nat
        /\ Cardinality(Seen(x)) <= Cardinality(S)
    BY <2>5, SeenFinite
  <2>7. count[x] \in Nat
    BY SoundStorage DEF ControlTypeOK
  <2>8. pc[x] = "get_min" => count[x] <= Cardinality(S)
    BY <2>6, <2>7 DEF SeesEnough
  <2>9. Cardinality(Seen(x)) >= Needed(q) => Cardinality(S) >= Needed(q)
    BY <2>3, <2>6
  <2> QED BY <1>1, <2>2, <2>3, <2>4, <2>8, <2>9 DEF SeesEnough
<1> QED BY <1>2, <1>3

\* What a transaction sees and needs does not change with rows that are not
\* votes, requests or policies.
LEMMA SameSeen ==
  ASSUME NEW t \in Tx, req'[t] = req[t], db' = db,
         owner'.approvers = owner.approvers,
         dirty'.approvers = dirty.approvers
  PROVE  Seen(t)' = Seen(t) /\ \A q \in Requests : Needed(q)' = Needed(q)
BY DEF Seen, Sees, Needed, PolicyOf

\* Each step of a vote, with the approvals it has seen.
LEMMA StepEnough ==
  ASSUME LocksAreSound, NEW t \in Tx, Start(t) \/ Step(t), SeesEnough(t)
  PROVE  SeesEnough(t)'
<1>0. /\ pc \in [Tx -> Statement] /\ req \in [Tx -> HttpRequest \cup {Nil}]
      /\ count \in [Tx -> Nat] /\ RequestOK(t)
      /\ req[t] \in DecideRequest \cup CancelRequest \cup AddRequest =>
           req[t].request \in Requests
      /\ req[t] \in DecideRequest \cup AddRequest => req[t].user \in Users
  BY SoundStorage, Kinds DEF ControlTypeOK
<1>1. CASE Start(t) \/ DecideGetPolicy(t)
  <2>1. /\ owner' = owner /\ dirty' = dirty /\ pc[t] \in {"idle", "get_policy"}
        /\ pc'[t] \in {"record_decision", "get_policy", "cancel",
                       "create_approver"}
    BY <1>0, <1>1 DEF Start, DecideApprovalRequest, CancelApprovalRequest,
                AddApprovalRequestApprover, Begin, DecideGetPolicy, storage
  <2> QED BY <2>1 DEF SeesEnough
<1>2. CASE CountApprovedDecisions(t)
  <2>1. /\ owner' = owner /\ dirty' = dirty /\ db' = db /\ req' = req
        /\ pc[t] = "count_approved" /\ pc'[t] = "get_min"
        /\ count'[t] = Cardinality(Seen(t))
    BY <1>0, <1>2 DEF CountApprovedDecisions, storage, Seen
  <2>2. Seen(t)' = Seen(t) /\ Cardinality(Seen(t)) \in Nat
    BY <2>1, SameSeen, SeenFinite
  <2> QED BY <2>1, <2>2 DEF SeesEnough
<1>3. CASE DecideGetMin(t)
  <2>1. /\ owner' = owner /\ dirty' = dirty /\ db' = db /\ req' = req
        /\ pc[t] = "get_min" /\ pc'[t] \in {"update_status", "insert_audit"}
        /\ pc'[t] = "update_status" => count[t] >= Needed(req[t].request)
    BY <1>0, <1>3 DEF DecideGetMin, storage, Needed
  <2>2. PICK q \in Requests : q = req[t].request
    BY <1>0, <2>1 DEF RequestOK, DecideStatement
  <2>3. /\ Seen(t)' = Seen(t) /\ Cardinality(Seen(t)) \in Nat
        /\ Needed(q)' = Needed(q) /\ Needed(q) \in Int
    BY <2>1, SameSeen, SeenFinite, NeededStays
  <2>4. count[t] <= Cardinality(Seen(t)) /\ count[t] \in Nat
    BY <1>0, <2>1 DEF SeesEnough
  <2>5. pc'[t] = "update_status" => Cardinality(Seen(t)) >= Needed(q)
    BY <2>1, <2>2, <2>3, <2>4
  <2> QED BY <2>1, <2>2, <2>3, <2>5 DEF SeesEnough
<1>4. CASE RecordApproverDecision(t) \/ CreateApprovalRequestApprover(t)
  <2>1. /\ req' = req /\ pc[t] \in {"record_decision", "create_approver"}
        /\ pc'[t] \in {"update_status", "count_approved", "commit"}
        /\ pc'[t] = "update_status" => req[t].decision = "rejected"
    BY <1>0, <1>4 DEF RecordApproverDecision, CreateApprovalRequestApprover
  <2>2. req[t] \in DecideRequest \cup AddRequest
    BY <1>0, <2>1, <1>4
       DEF RequestOK, DecideStatement, RecordApproverDecision,
           CreateApprovalRequestApprover
  <2>3. PICK key \in Requests \X Users, vote \in Vote :
          Write(t, "approvers", key, vote)
    <3>1. <<req[t].request, req[t].user>> \in Requests \X Users
      BY <1>0, <2>2
    <3>2. \E vote \in Vote :
            Write(t, "approvers", <<req[t].request, req[t].user>>, vote)
      <4>1. CASE RecordApproverDecision(t)
        <5>1. req[t].decision \in Vote
          BY <1>0, <4>1, Kinds
             DEF RecordApproverDecision, RequestOK, DecideStatement, Vote
        <5> QED BY <4>1, <5>1 DEF RecordApproverDecision
      <4>2. CASE CreateApprovalRequestApprover(t)
        BY <4>2 DEF CreateApprovalRequestApprover, Vote
      <4> QED BY <1>4, <4>1, <4>2
    <3> QED BY <3>1, <3>2
  <2>4. key \in DOMAIN owner["approvers"] /\ "approvers" \in TableName
    BY TableRows
  <2>5. \A other \in TableName : \A i \in DOMAIN owner[other] :
          /\ owner'[other][i] = IF other = "approvers" /\ i = key
                                  THEN t ELSE owner[other][i]
          /\ dirty'[other][i] = IF other = "approvers" /\ i = key
                                  THEN vote ELSE dirty[other][i]
    BY <2>3, <2>4, WriteRows
  <2>6. \A r \in Requests :
          /\ owner'.approval_requests[r] = owner.approval_requests[r]
          /\ dirty'.approval_requests[r] = dirty.approval_requests[r]
    BY <2>5, TableRows
  <2> QED BY <2>1, <2>6 DEF SeesEnough
<1>5. CASE UpdateApprovalRequestStatus(t) \/ CancelUpdate(t)
  <2>1. /\ req' = req /\ pc[t] \in {"update_status", "cancel"}
        /\ pc'[t] = "insert_audit"
        /\ CancelUpdate(t) \/ pc[t] = "update_status"
    BY <1>0, <1>5 DEF UpdateApprovalRequestStatus, CancelUpdate
  <2>2. req[t] \in DecideRequest \cup CancelRequest
    BY <1>0, <2>1 DEF RequestOK, DecideStatement
  <2>3. PICK q \in Requests : q = req[t].request
    BY <1>0, <2>2
  <2>4. PICK status \in Status :
          /\ Write(t, "approval_requests", q,
                   [dirty.approval_requests[q] EXCEPT !.status = status])
          /\ status = "approved" =>
               pc[t] = "update_status" /\ req[t].decision = "approved"
    <3>1. CASE UpdateApprovalRequestStatus(t)
      <4>1. req[t].decision \in Status
        BY <1>0, <3>1, Kinds
           DEF UpdateApprovalRequestStatus, RequestOK, DecideStatement, Status
      <4>2. /\ pc[t] = "update_status"
            /\ Write(t, "approval_requests", q,
                     [dirty.approval_requests[q] EXCEPT !.status = req[t].decision])
        BY <2>3, <3>1 DEF UpdateApprovalRequestStatus, At
      <4> QED BY <4>1, <4>2
    <3>2. CASE CancelUpdate(t)
      <4>1. Write(t, "approval_requests", q,
                  [dirty.approval_requests[q] EXCEPT !.status = "cancelled"])
        BY <2>3, <3>2 DEF CancelUpdate
      <4> QED BY <4>1 DEF Status
    <3> QED BY <1>5, <3>1, <3>2
  <2> DEFINE row == [dirty.approval_requests[q] EXCEPT !.status = status]
  <2>5. row.status = status
    BY SoundStorage DEF StorageTypeOK, Tables, RequestRow
  <2>6. Write(t, "approval_requests", q, row)
    BY <2>4
  <2> HIDE DEF row
  <2>7. q \in DOMAIN owner["approval_requests"] /\ "approval_requests" \in TableName
    BY TableRows
  <2>8. /\ db' = db
        /\ \A other \in TableName : \A i \in DOMAIN owner[other] :
             /\ owner'[other][i] = IF other = "approval_requests" /\ i = q
                                     THEN t ELSE owner[other][i]
             /\ dirty'[other][i] = IF other = "approval_requests" /\ i = q
                                     THEN row ELSE dirty[other][i]
    BY <2>6, <2>7, WriteRows
  <2>9. \A r \in Requests :
          /\ owner'.approval_requests[r] =
               IF r = q THEN t ELSE owner.approval_requests[r]
          /\ dirty'.approval_requests[r] =
               IF r = q THEN row ELSE dirty.approval_requests[r]
    BY <2>8, TableRows
  <2>10. owner'.approvers = owner.approvers /\ dirty'.approvers = dirty.approvers
    BY <2>6, <2>7, SoundStorage, WriteEffect DEF TableName
  <2>11. Seen(t)' = Seen(t) /\ Needed(q)' = Needed(q)
    BY <2>1, <2>8, <2>10, SameSeen
  <2>12. ASSUME NEW r \in Requests, owner'.approval_requests[r] = t,
                dirty'.approval_requests[r].status = "approved"
         PROVE  /\ req[t] \in DecideRequest /\ r = q
                /\ Cardinality(Seen(t)) >= Needed(q)
    <3>1. r = q
      BY <2>1, <2>9, <2>12 DEF SeesEnough
    <3>2. pc[t] = "update_status" /\ req[t].decision = "approved"
      BY <2>4, <2>5, <2>9, <2>12, <3>1
    <3> QED BY <1>0, <2>3, <3>1, <3>2 DEF SeesEnough, RequestOK, DecideStatement
  <2> QED BY <2>1, <2>3, <2>11, <2>12 DEF SeesEnough
<1>6. CASE InsertAuditLog(t)
  <2>1. /\ req' = req /\ pc[t] = "insert_audit" /\ pc'[t] = "commit"
    BY <1>0, <1>6 DEF InsertAuditLog
  <2>2. req[t] \in DecideRequest \cup CancelRequest
    BY <1>0, <2>1 DEF RequestOK
  <2>3. PICK q \in Requests : q = req[t].request
    BY <1>0, <2>2
  <2>e. EventOf(t) \in Event
    BY <1>0, <2>2, Kinds DEF EventOf, Event
  <2>4. PICK key \in Requests \X Event : key = <<q, EventOf(t)>>
    BY <2>e
  <2> DEFINE row == TRUE
  <2>5. Write(t, "audit_logs", key, row)
    BY <1>6, <2>3, <2>4 DEF InsertAuditLog, EventOf
  <2> HIDE DEF row
  <2>6. key \in DOMAIN owner["audit_logs"] /\ "audit_logs" \in TableName
    BY TableRows
  <2>7. /\ db' = db /\ owner'.approvers = owner.approvers
        /\ dirty'.approvers = dirty.approvers
        /\ owner'.approval_requests = owner.approval_requests
        /\ dirty'.approval_requests = dirty.approval_requests
    BY <2>5, <2>6, SoundStorage, WriteEffect DEF TableName
  <2>8. Seen(t)' = Seen(t) /\ Needed(q)' = Needed(q)
    BY <2>1, <2>7, SameSeen
  <2> QED BY <2>1, <2>3, <2>7, <2>8 DEF SeesEnough
<1>7. CASE Commit(t) \/ Rollback(t)
  <2>1. pc'[t] = "idle" /\ (CommitTx(t) \/ RollbackTx(t))
    BY <1>0, <1>7 DEF Commit, Rollback, EndRequest
  <2>2. \A r \in Requests : owner'.approval_requests[r] # t
    BY <2>1, EndEffect, NilAssumption
  <2> QED BY <2>1, <2>2 DEF SeesEnough
<1> QED BY <1>1, <1>2, <1>3, <1>4, <1>5, <1>6, <1>7 DEF Step

LEMMA InitEnough == Init => EnoughIsSeen
<1> SUFFICES ASSUME Init PROVE EnoughIsSeen
  OBVIOUS
<1>1. LocksAreSound /\ dirty = db /\ \A t \in Tx : pc[t] = "idle"
  BY InitSound DEF Init
<1>2. \A r \in Requests : owner.approval_requests[r] = Nil
  <2>1. /\ owner = [tab \in DOMAIN Rows |-> [id \in Rows[tab] |-> Nil]]
        /\ "approval_requests" \in DOMAIN Rows
        /\ Rows["approval_requests"] = Requests
    BY DEF Init, Rows
  <2> HIDE DEF Rows
  <2> QED BY <2>1
<1>3. \A t \in Tx : SeesEnough(t)
  BY <1>1, <1>2, NilAssumption DEF SeesEnough
<1> QED BY <1>1, <1>3 DEF EnoughIsSeen, PolicyKept

LEMMA NextEnough ==
  /\ LocksAreSound /\ TrailIsKept /\ EnoughIsSeen
  /\ [Next]_vars /\ MinApproversStay
  => EnoughIsSeen'
<1> SUFFICES ASSUME LocksAreSound, TrailIsKept, EnoughIsSeen, [Next]_vars,
                    MinApproversStay
             PROVE  EnoughIsSeen'
  OBVIOUS
<1>0. /\ PolicyKept' /\ \A x \in Tx : SeesEnough(x) /\ Trail(x)
      /\ \A q \in Requests : StatusOf(q) # "none" =>
           db'.approval_requests[q].policy = db.approval_requests[q].policy
  BY PolicyStays DEF EnoughIsSeen, TrailIsKept
<1>u. ASSUME NEW x \in Tx, Undisturbed(x) PROVE SeesEnough(x)'
  BY <1>0, <1>u, UndisturbedEnough
<1>1. CASE UNCHANGED vars
  <2>1. \A x \in Tx : Undisturbed(x)
    BY <1>1 DEF vars, Undisturbed
  <2> QED BY <1>0, <1>u, <2>1 DEF EnoughIsSeen
<1>2. CASE SingleStep
  BY <1>0, <1>2, <1>u, SingleLeaves DEF EnoughIsSeen
<1>3. ASSUME NEW t \in Tx, Start(t) \/ Step(t) PROVE EnoughIsSeen'
  <2>1. \A x \in Tx \ {t} : Undisturbed(x)
    BY <1>3, StepLeaves
  <2>2. SeesEnough(t)'
    BY <1>0, <1>3, StepEnough
  <2> QED BY <1>0, <1>u, <2>1, <2>2 DEF EnoughIsSeen
<1> QED BY <1>1, <1>2, <1>3 DEF Next

\* A step that approves a request commits the approvals its vote has seen.
LEMMA ApprovalCommitsSeen ==
  ASSUME LocksAreSound, TrailIsKept, EnoughIsSeen, [Next]_vars,
         NEW q \in Requests, StatusOf(q) = "pending", StatusOf(q)' = "approved"
  PROVE  Cardinality(Voters(q, "approved")') >= Needed(q)
<1>1. ~SingleStep
  BY SingleLeaves DEF TrailIsKept, StatusOf
<1>2. PICK t \in Tx : Commit(t)
  <2>1. PICK t \in Tx : Start(t) \/ Step(t)
    BY <1>1 DEF Next, vars, StatusOf
  <2>2. ~Commit(t) => db' = db
    BY <2>1
       DEF Start, DecideApprovalRequest, CancelApprovalRequest,
           AddApprovalRequestApprover, Begin, Step, DecideGetPolicy,
           RecordApproverDecision, CountApprovedDecisions, DecideGetMin,
           UpdateApprovalRequestStatus, CancelUpdate,
           CreateApprovalRequestApprover, InsertAuditLog, Rollback,
           RollbackTx, Write, storage
  <2> QED BY <2>1, <2>2 DEF StatusOf
<1>3. CommitTx(t)
  BY <1>2 DEF Commit
<1>4. /\ owner.approval_requests[q] = t
      /\ dirty.approval_requests[q].status = "approved"
  BY <1>3, CommittedVotes DEF StatusOf
<1>5. q = req[t].request /\ Cardinality(Seen(t)) >= Needed(q)
  BY <1>4 DEF EnoughIsSeen, SeesEnough
<1>6. Voters(q, "approved")' = Seen(t)
  BY <1>3, <1>5, CommittedVotes DEF Voters, Seen, Sees
<1> QED BY <1>5, <1>6

\* While no policy's min_approvers is changed, a vote approves a request only
\* when the approvals committed with it are as many as the policy asks for:
\* of racing votes each counts only what is committed and its own, and what
\* it has counted nobody takes back before it commits.
THEOREM ApprovalsAreEarned ==
  Spec /\ [][MinApproversStay]_vars => ApprovedByEnough
<1> DEFINE Earned == \A q \in Requests :
             StatusOf(q) = "pending" /\ StatusOf(q)' = "approved" =>
               Cardinality(Voters(q, "approved"))' >= Needed(q)
<1>1. LocksAreSound /\ TrailIsKept /\ EnoughIsSeen /\ [Next]_vars => Earned
  BY ApprovalCommitsSeen
<1>2. UNCHANGED vars => MinApproversStay
  BY DEF vars, MinApproversStay
<1>3. /\ LocksAreSound /\ TrailIsKept /\ EnoughIsSeen
      /\ [Next]_vars /\ [MinApproversStay]_vars
      => EnoughIsSeen'
  BY <1>2, NextEnough
<1>4. [][Earned]_vars => ApprovedByEnough
  BY PTL DEF ApprovedByEnough, Needed
<1> QED BY <1>1, <1>3, <1>4, InitTrail, NextTrail, InitEnough, SpecSound, PTL
        DEF Spec

-----------------------------------------------------------------------------
(***************************************************************************)
(* One request at a time: the vote that completes the approvals decides.   *)
(***************************************************************************)

\* Requests are handled one at a time.
OneRunning == \A t, u \in Tx : pc[t] # "idle" /\ pc[u] # "idle" => t = u

\* A vote that does not decide has seen too few approvals, and nobody makes a
\* request pending.
Completes(t) ==
  LET q == req[t].request
  IN /\ pc[t] = "get_min" => count[t] = Cardinality(Seen(t))
     /\ /\ req[t] \in DecideRequest /\ req[t].decision = "approved"
        /\ pc[t] \in {"insert_audit", "commit"}
        => \/ owner.approval_requests[q] = t
           \/ Cardinality(Seen(t)) < Needed(q)
     /\ \A r \in Requests :
          owner.approval_requests[r] = t =>
            dirty.approval_requests[r].status # "pending"

\* With TrailIsKept, the inductive invariant of EnoughApprovalsDecide.
VotesComplete == PolicyKept /\ EnoughApprovalsDecide /\ \A t \in Tx : Completes(t)

\* Each step of a vote, with what it leaves undecided.
LEMMA StepCompletes ==
  ASSUME LocksAreSound, NEW t \in Tx, Start(t) \/ Step(t), Completes(t)
  PROVE  Completes(t)'
<1>0. /\ pc \in [Tx -> Statement] /\ req \in [Tx -> HttpRequest \cup {Nil}]
      /\ count \in [Tx -> Nat] /\ RequestOK(t)
      /\ req[t] \in DecideRequest \cup CancelRequest \cup AddRequest =>
           req[t].request \in Requests
      /\ req[t] \in DecideRequest \cup AddRequest => req[t].user \in Users
  BY SoundStorage, Kinds DEF ControlTypeOK
<1>1. CASE Start(t) \/ DecideGetPolicy(t)
  <2>1. /\ owner' = owner /\ dirty' = dirty
        /\ pc'[t] \in {"record_decision", "get_policy", "cancel",
                       "create_approver"}
    BY <1>0, <1>1 DEF Start, DecideApprovalRequest, CancelApprovalRequest,
                AddApprovalRequestApprover, Begin, DecideGetPolicy, storage
  <2> QED BY <2>1 DEF Completes
<1>2. CASE CountApprovedDecisions(t)
  <2>1. /\ owner' = owner /\ dirty' = dirty /\ db' = db /\ req' = req
        /\ pc'[t] = "get_min" /\ count'[t] = Cardinality(Seen(t))
    BY <1>0, <1>2 DEF CountApprovedDecisions, storage, Seen
  <2>2. Seen(t)' = Seen(t)
    BY <2>1, SameSeen
  <2> QED BY <2>1, <2>2 DEF Completes
<1>3. CASE DecideGetMin(t)
  <2>1. /\ owner' = owner /\ dirty' = dirty /\ db' = db /\ req' = req
        /\ pc[t] = "get_min" /\ pc'[t] \in {"update_status", "insert_audit"}
        /\ pc'[t] = "insert_audit" => ~(count[t] >= Needed(req[t].request))
    BY <1>0, <1>3 DEF DecideGetMin, storage, Needed
  <2>2. PICK q \in Requests : q = req[t].request
    BY <1>0, <2>1 DEF RequestOK, DecideStatement
  <2>3. /\ Seen(t)' = Seen(t) /\ Needed(q)' = Needed(q) /\ Needed(q) \in Int
    BY <2>1, SameSeen, NeededStays
  <2>4. count[t] = Cardinality(Seen(t)) /\ count[t] \in Nat
    BY <1>0, <2>1 DEF Completes
  <2>5. pc'[t] = "insert_audit" => Cardinality(Seen(t)) < Needed(q)
    BY <2>1, <2>2, <2>3, <2>4
  <2> QED BY <2>1, <2>2, <2>3, <2>5 DEF Completes
<1>4. CASE RecordApproverDecision(t) \/ CreateApprovalRequestApprover(t)
  <2>1. /\ req' = req /\ pc[t] \in {"record_decision", "create_approver"}
        /\ pc'[t] \in {"update_status", "count_approved", "commit"}
        /\ pc'[t] = "commit" => pc[t] = "create_approver"
        /\ \E vote : Write(t, "approvers", <<req[t].request, req[t].user>>, vote)
    BY <1>0, <1>4 DEF RecordApproverDecision, CreateApprovalRequestApprover
  <2>2. /\ req[t] \in DecideRequest \cup AddRequest
        /\ pc'[t] = "commit" => req[t] \notin DecideRequest
    BY <1>0, <2>1, Kinds DEF RequestOK, DecideStatement
  <2>3. PICK vote : Write(t, "approvers", <<req[t].request, req[t].user>>, vote)
    BY <2>1
  <2>4. /\ <<req[t].request, req[t].user>> \in DOMAIN owner["approvers"]
        /\ "approvers" \in TableName
    BY <1>0, <2>2, TableRows
  <2>5. \A r \in Requests :
          /\ owner'.approval_requests[r] = owner.approval_requests[r]
          /\ dirty'.approval_requests[r] = dirty.approval_requests[r]
    <3> DEFINE key == <<req[t].request, req[t].user>>
    <3>1. Write(t, "approvers", key, vote) /\ key \in DOMAIN owner["approvers"]
      BY <2>3, <2>4
    <3> HIDE DEF key
    <3>2. \A other \in TableName : \A i \in DOMAIN owner[other] :
            /\ owner'[other][i] = IF other = "approvers" /\ i = key
                                    THEN t ELSE owner[other][i]
            /\ dirty'[other][i] = IF other = "approvers" /\ i = key
                                    THEN vote ELSE dirty[other][i]
      BY <2>4, <3>1, WriteRows
    <3> QED BY <3>2, TableRows
  <2> QED BY <2>1, <2>2, <2>5 DEF Completes
<1>5. CASE UpdateApprovalRequestStatus(t) \/ CancelUpdate(t)
  <2>1. /\ req' = req /\ pc[t] \in {"update_status", "cancel"}
        /\ pc'[t] = "insert_audit"
    BY <1>0, <1>5 DEF UpdateApprovalRequestStatus, CancelUpdate
  <2>2. PICK q \in Requests : q = req[t].request
    BY <1>0, <2>1 DEF RequestOK, DecideStatement
  <2>3. PICK status \in Status \ {"pending"} :
          Write(t, "approval_requests", q,
                [dirty.approval_requests[q] EXCEPT !.status = status])
    <3>1. CASE UpdateApprovalRequestStatus(t)
      <4>1. req[t].decision \in Status \ {"pending"}
        BY <1>0, <3>1, Kinds
           DEF UpdateApprovalRequestStatus, RequestOK, DecideStatement, Status
      <4> QED BY <2>2, <3>1, <4>1 DEF UpdateApprovalRequestStatus
    <3>2. CASE CancelUpdate(t)
      BY <2>2, <3>2 DEF CancelUpdate, Status
    <3> QED BY <1>5, <3>1, <3>2
  <2> DEFINE row == [dirty.approval_requests[q] EXCEPT !.status = status]
  <2>4. row.status # "pending" /\ Write(t, "approval_requests", q, row)
    BY <2>3, SoundStorage DEF StorageTypeOK, Tables, RequestRow
  <2> HIDE DEF row
  <2>5. q \in DOMAIN owner["approval_requests"] /\ "approval_requests" \in TableName
    BY TableRows
  <2>6. \A other \in TableName : \A i \in DOMAIN owner[other] :
          /\ owner'[other][i] = IF other = "approval_requests" /\ i = q
                                  THEN t ELSE owner[other][i]
          /\ dirty'[other][i] = IF other = "approval_requests" /\ i = q
                                  THEN row ELSE dirty[other][i]
    BY <2>4, <2>5, WriteRows
  <2>7. \A r \in Requests :
          /\ owner'.approval_requests[r] =
               IF r = q THEN t ELSE owner.approval_requests[r]
          /\ dirty'.approval_requests[r] =
               IF r = q THEN row ELSE dirty.approval_requests[r]
    BY <2>6, TableRows
  <2> QED BY <2>1, <2>2, <2>4, <2>7 DEF Completes
<1>6. CASE InsertAuditLog(t)
  <2>1. /\ req' = req /\ pc[t] = "insert_audit" /\ pc'[t] = "commit"
    BY <1>0, <1>6 DEF InsertAuditLog
  <2>2. req[t] \in DecideRequest \cup CancelRequest
    BY <1>0, <2>1 DEF RequestOK
  <2>3. PICK q \in Requests : q = req[t].request
    BY <1>0, <2>2
  <2>e. EventOf(t) \in Event
    BY <1>0, <2>2, Kinds DEF EventOf, Event
  <2>4. PICK key \in Requests \X Event : key = <<q, EventOf(t)>>
    BY <2>e
  <2> DEFINE row == TRUE
  <2>5. Write(t, "audit_logs", key, row)
    BY <1>6, <2>3, <2>4 DEF InsertAuditLog, EventOf
  <2> HIDE DEF row
  <2>6. key \in DOMAIN owner["audit_logs"] /\ "audit_logs" \in TableName
    BY TableRows
  <2>7. /\ db' = db /\ owner'.approvers = owner.approvers
        /\ dirty'.approvers = dirty.approvers
        /\ owner'.approval_requests = owner.approval_requests
        /\ dirty'.approval_requests = dirty.approval_requests
    BY <2>5, <2>6, SoundStorage, WriteEffect DEF TableName
  <2>8. Seen(t)' = Seen(t) /\ Needed(q)' = Needed(q)
    BY <2>1, <2>7, SameSeen
  <2> QED BY <2>1, <2>3, <2>7, <2>8 DEF Completes
<1>7. CASE Commit(t) \/ Rollback(t)
  <2>1. pc'[t] = "idle" /\ (CommitTx(t) \/ RollbackTx(t))
    BY <1>0, <1>7 DEF Commit, Rollback, EndRequest
  <2>2. \A r \in Requests : owner'.approval_requests[r] # t
    BY <2>1, EndEffect, NilAssumption
  <2> QED BY <2>1, <2>2 DEF Completes
<1> QED BY <1>1, <1>2, <1>3, <1>4, <1>5, <1>6, <1>7 DEF Step

\* A new policy row or a new request changes nothing a vote has seen.
LEMMA SingleCompletes ==
  ASSUME LocksAreSound, \A y \in Tx : Trail(y), SingleStep, MinApproversStay,
         NEW x \in Tx, Completes(x)
  PROVE  Completes(x)'
<1>1. /\ Undisturbed(x)
      /\ \A q \in Requests, u \in Users :
           db'.approvers[<<q, u>>] = "approved"
             <=> db.approvers[<<q, u>>] = "approved"
      /\ \A q \in Requests : StatusOf(q) # "none" =>
           db'.approval_requests[q] = db.approval_requests[q]
  BY SingleLeaves
<1>2. /\ pc'[x] = pc[x] /\ req'[x] = req[x] /\ count'[x] = count[x]
      /\ \A r \in Requests :
           /\ owner'.approval_requests[r] = x <=> owner.approval_requests[r] = x
           /\ owner.approval_requests[r] = x =>
                dirty'.approval_requests[r] = dirty.approval_requests[r]
      /\ \A q \in Requests, u \in Users :
           /\ owner'.approvers[<<q, u>>] = x <=> owner.approvers[<<q, u>>] = x
           /\ owner.approvers[<<q, u>>] = x =>
                dirty'.approvers[<<q, u>>] = dirty.approvers[<<q, u>>]
  BY <1>1, UndisturbedRows DEF Undisturbed
<1>3. CASE pc[x] = "idle"
  BY <1>2, <1>3 DEF Completes
<1>4. CASE pc[x] # "idle"
  <2>1. req[x].request \in Requests /\ StatusOf(req[x].request) # "none"
    BY <1>4, Kinds DEF LocksAreSound, RequestOK, RequestExists, DecideStatement
  <2>2. PICK q \in Requests : q = req[x].request
    BY <2>1
  <2>3. Seen(x)' = Seen(x)
    <3>1. ASSUME NEW u \in Users
          PROVE  Sees(x, "approvers", <<q, u>>)' = "approved"
                   <=> Sees(x, "approvers", <<q, u>>) = "approved"
      BY <1>1, <1>2 DEF Sees
    <3> QED BY <1>2, <2>2, <3>1 DEF Seen
  <2>4. Needed(q)' = Needed(q)
    BY <1>1, <2>1, <2>2, NeededStays
  <2> QED BY <1>2, <2>2, <2>3, <2>4 DEF Completes
<1> QED BY <1>3, <1>4

\* Of a transaction that is not running only its locks matter.
LEMMA IdleCompletes ==
  ASSUME LocksAreSound, NEW x \in Tx, Undisturbed(x), pc[x] = "idle", Completes(x)
  PROVE  Completes(x)'
BY UndisturbedRows DEF Undisturbed, Completes

\* With min_approvers of at least 1, a request needs an approval.
LEMMA NeededPositive ==
  MinApprovers \subseteq Nat \ {0} /\ LocksAreSound
    => \A q \in Requests : Needed(q) \in Nat \ {0}
<1> SUFFICES ASSUME MinApprovers \subseteq Nat \ {0}, LocksAreSound,
                    NEW q \in Requests
             PROVE  Needed(q) \in Nat \ {0}
  OBVIOUS
<1>1. /\ db.approval_requests[q].policy \in Policies \cup {Nil}
      /\ \A p \in Policies : db.approval_policies[p].min_approvers \in Nat \ {0}
  BY SoundStorage DEF StorageTypeOK, Tables, RequestRow, PolicyRow
<1>2. CASE db.approval_requests[q].policy = Nil
  BY <1>2 DEF Needed
<1>3. CASE db.approval_requests[q].policy \in Policies
  BY <1>1, <1>3, ApprovalsAssumption DEF Needed, PolicyOf
<1> QED BY <1>1, <1>2, <1>3

\* The same of the next state.
LEMMA NeededPositiveNext ==
  MinApprovers \subseteq Nat \ {0} /\ LocksAreSound'
    => \A q \in Requests : Needed(q)' \in Nat \ {0}
<1>1. (MinApprovers \subseteq Nat \ {0} /\ LocksAreSound
         => \A q \in Requests : Needed(q) \in Nat \ {0})'
  BY NeededPositive, PTL
<1> QED BY <1>1

\* A new request has no approvals, and those of the others stay what they are.
LEMMA SingleDecides ==
  ASSUME LocksAreSound, LocksAreSound', \A x \in Tx : Trail(x), SingleStep,
         MinApproversStay, MinApprovers \subseteq Nat \ {0},
         EnoughApprovalsDecide
  PROVE  EnoughApprovalsDecide'
<1> SUFFICES ASSUME NEW q \in Requests, StatusOf(q)' = "pending"
             PROVE  Cardinality(Voters(q, "approved")') < Needed(q)'
  BY DEF EnoughApprovalsDecide, Needed
<1>1. Voters(q, "approved")' = Voters(q, "approved")
  BY SingleLeaves DEF Voters
<1>2. CASE StatusOf(q) = "none"
  <2>1. Voters(q, "approved") = {}
    BY <1>2 DEF Voters, LocksAreSound, NoVotesBeforehand
  <2>2. Cardinality(Voters(q, "approved")') = 0
    BY <1>1, <2>1, FS_EmptySet
  <2>3. Needed(q)' \in Nat \ {0}
    BY NeededPositiveNext
  <2> QED BY <2>2, <2>3
<1>3. CASE StatusOf(q) # "none"
  <2>1. db'.approval_requests[q] = db.approval_requests[q]
    BY <1>3, SingleLeaves
  <2>2. Needed(q)' = Needed(q) /\ StatusOf(q) = "pending"
    BY <2>1, NeededStays DEF StatusOf
  <2>3. Cardinality(Voters(q, "approved")) < Needed(q)
    BY <2>2 DEF EnoughApprovalsDecide, Needed
  <2> QED BY <1>1, <2>2, <2>3
<1> QED BY <1>2, <1>3

\* The vote that completes the approvals commits the decision with it.
LEMMA CommitDecides ==
  ASSUME LocksAreSound, PolicyKept, [Next]_vars, NEW t \in Tx, Trail(t),
         Commit(t), MinApproversStay, EnoughApprovalsDecide, Completes(t)
  PROVE  EnoughApprovalsDecide'
<1> SUFFICES ASSUME NEW q \in Requests, StatusOf(q)' = "pending"
             PROVE  Cardinality(Voters(q, "approved")') < Needed(q)'
  BY DEF EnoughApprovalsDecide, Needed
<1>1. /\ CommitTx(t) /\ pc[t] = "commit" /\ RequestOK(t)
      /\ req[t] \in DecideRequest \cup CancelRequest \cup AddRequest
  BY Kinds DEF Commit, LocksAreSound, RequestOK
<1>2. /\ owner.approval_requests[q] # t
      /\ db'.approval_requests[q] = db.approval_requests[q]
      /\ StatusOf(q) = "pending"
  BY <1>1, CommittedVotes DEF Completes, StatusOf
<1>3. Needed(q)' = Needed(q) /\ Needed(q) \in Int
  BY <1>2, NeededStays
<1>4. PICK S \in SUBSET Users : S = Voters(q, "approved")'
  BY DEF Voters
<1>5. Cardinality(Voters(q, "approved")) < Needed(q)
  BY <1>2 DEF EnoughApprovalsDecide, Needed
<1>6. CASE /\ req[t] \in DecideRequest /\ req[t].decision = "approved"
           /\ q = req[t].request
  <2>1. Cardinality(Seen(t)) < Needed(q)
    BY <1>1, <1>2, <1>6 DEF Completes
  <2>2. Voters(q, "approved")' = Seen(t)
    BY <1>1, <1>6, CommittedVotes DEF Voters, Seen, Sees
  <2> QED BY <1>3, <2>1, <2>2
<1>7. CASE ~ /\ req[t] \in DecideRequest /\ req[t].decision = "approved"
             /\ q = req[t].request
  <2>1. ASSUME NEW u \in Users, owner.approvers[<<q, u>>] = t
        PROVE  dirty.approvers[<<q, u>>] # "approved"
    <3>1. /\ req[t].request = q /\ req[t].user = u
          /\ \/ req[t] \in DecideRequest /\ Recorded(t)
             \/ dirty.approvers[<<q, u>>] = "waiting"
      BY <2>1 DEF Trail, LockedVotes
    <3>2. req[t] \in DecideRequest /\ Recorded(t) =>
            dirty.approvers[<<q, u>>] = req[t].decision
      BY <3>1 DEF Trail, RecordedRow
    <3> QED BY <1>7, <3>1, <3>2
  <2>2. S \subseteq Voters(q, "approved")
    BY <1>1, <1>4, <2>1, CommittedVotes DEF Voters
  <2>3. Voters(q, "approved") \subseteq Users /\ IsFiniteSet(Users)
    BY ApprovalsAssumption DEF Voters
  <2>4. IsFiniteSet(Voters(q, "approved"))
    BY <2>3, FS_Subset
  <2>5. /\ IsFiniteSet(S) /\ Cardinality(S) <= Cardinality(Voters(q, "approved"))
    BY <2>2, <2>4, FS_Subset
  <2>6. Cardinality(S) \in Nat /\ Cardinality(Voters(q, "approved")) \in Nat
    BY <2>4, <2>5, FS_CardinalityType
  <2> QED BY <1>3, <1>4, <1>5, <2>5, <2>6
<1> QED BY <1>6, <1>7

\* Initially there are no requests.
LEMMA InitVotes == Init => VotesComplete
<1> SUFFICES ASSUME Init PROVE VotesComplete
  OBVIOUS
<1>1. EnoughIsSeen /\ \A t \in Tx : pc[t] = "idle"
  BY InitEnough DEF Init
<1>2. \A r \in Requests : owner.approval_requests[r] = Nil
  <2>1. /\ owner = [tab \in DOMAIN Rows |-> [id \in Rows[tab] |-> Nil]]
        /\ "approval_requests" \in DOMAIN Rows
        /\ Rows["approval_requests"] = Requests
    BY DEF Init, Rows
  <2> HIDE DEF Rows
  <2> QED BY <2>1
<1>3. \A q \in Requests : StatusOf(q) = "none"
  BY DEF Init, StatusOf
<1>4. \A t \in Tx : Completes(t)
  BY <1>1, <1>2, NilAssumption DEF Completes
<1> QED BY <1>1, <1>3, <1>4 DEF VotesComplete, EnoughIsSeen, EnoughApprovalsDecide

\* A step while requests are handled one at a time.
LEMMA NextVotes ==
  ASSUME MinApprovers \subseteq Nat \ {0}
  PROVE  /\ LocksAreSound /\ TrailIsKept /\ VotesComplete
         /\ [Next]_vars /\ MinApproversStay /\ OneRunning /\ OneRunning'
         => VotesComplete'
<1> SUFFICES ASSUME LocksAreSound, TrailIsKept, VotesComplete, [Next]_vars,
                    MinApproversStay, OneRunning, OneRunning'
             PROVE  VotesComplete'
  OBVIOUS
<1>0. /\ LocksAreSound' /\ PolicyKept' /\ PolicyKept /\ EnoughApprovalsDecide
      /\ \A x \in Tx : Completes(x) /\ Trail(x)
  BY PolicyStays, NextSound DEF VotesComplete, TrailIsKept
<1>1. CASE UNCHANGED vars
  <2>1. EnoughApprovalsDecide'
    BY <1>0, <1>1 DEF vars, EnoughApprovalsDecide, StatusOf, Voters, PolicyOf
  <2>2. \A x \in Tx : Completes(x)'
    BY <1>0, <1>1 DEF vars, Completes, Seen, Sees, Needed, PolicyOf
  <2> QED BY <1>0, <2>1, <2>2 DEF VotesComplete
<1>2. CASE SingleStep
  <2>1. EnoughApprovalsDecide'
    BY <1>0, <1>2, SingleDecides
  <2>2. \A x \in Tx : Completes(x)'
    BY <1>0, <1>2, SingleCompletes
  <2> QED BY <1>0, <2>1, <2>2 DEF VotesComplete
<1>3. ASSUME NEW t \in Tx, Start(t) \/ Step(t) PROVE VotesComplete'
  <2>1. \A x \in Tx \ {t} : Undisturbed(x)
    BY <1>3, StepLeaves
  <2>2. \A x \in Tx \ {t} : pc[x] = "idle"
    <3> SUFFICES ASSUME NEW x \in Tx \ {t}, pc[x] # "idle" PROVE FALSE
      OBVIOUS
    <3>1. pc'[x] # "idle"
      BY <2>1 DEF Undisturbed
    <3>2. pc \in [Tx -> Statement] /\ (pc[t] # "idle" \/ pc'[t] # "idle")
      <4>1. pc \in [Tx -> Statement]
        BY SoundStorage DEF ControlTypeOK
      <4>2. CASE Start(t)
        BY <4>1, <4>2 DEF Start, DecideApprovalRequest, CancelApprovalRequest,
                     AddApprovalRequestApprover, Begin
      <4>3. CASE Step(t)
        BY <4>1, <4>3
           DEF Step, DecideGetPolicy, RecordApproverDecision,
               CountApprovedDecisions, DecideGetMin,
               UpdateApprovalRequestStatus, CancelUpdate,
               CreateApprovalRequestApprover, InsertAuditLog, Commit,
               Rollback, At
      <4> QED BY <1>3, <4>1, <4>2, <4>3
    <3> QED BY <3>1, <3>2 DEF OneRunning
  <2>3. \A x \in Tx : Completes(x)'
    BY <1>0, <1>3, <2>1, <2>2, StepCompletes, IdleCompletes
  <2>4. EnoughApprovalsDecide'
    <3>1. CASE Commit(t)
      BY <1>0, <3>1, CommitDecides
    <3>2. CASE ~Commit(t)
      <4>1. db' = db
        BY <1>3, <3>2
           DEF Start, DecideApprovalRequest, CancelApprovalRequest,
               AddApprovalRequestApprover, Begin, Step, DecideGetPolicy,
               RecordApproverDecision, CountApprovedDecisions, DecideGetMin,
               UpdateApprovalRequestStatus, CancelUpdate,
               CreateApprovalRequestApprover, InsertAuditLog, Rollback,
               RollbackTx, Write, storage
      <4> QED BY <1>0, <4>1 DEF EnoughApprovalsDecide, StatusOf, Voters, PolicyOf
    <3> QED BY <3>1, <3>2
  <2> QED BY <1>0, <2>3, <2>4 DEF VotesComplete
<1> QED BY <1>1, <1>2, <1>3 DEF Next

\* While policies keep min_approvers of at least 1 and requests are handled
\* one at a time, a request that has the approvals its policy asks for does
\* not stay pending: the vote that completes them counts them all and
\* approves the request in its own transaction.
THEOREM VotesDecide ==
  ASSUME MinApprovers \subseteq Nat \ {0}
  PROVE  Spec /\ []OneRunning /\ [][MinApproversStay]_vars
           => []EnoughApprovalsDecide
<1>1. VotesComplete => EnoughApprovalsDecide
  BY DEF VotesComplete
<1>2. UNCHANGED vars => MinApproversStay
  BY DEF vars, MinApproversStay
<1>3. /\ LocksAreSound /\ TrailIsKept /\ VotesComplete
      /\ [Next]_vars /\ [MinApproversStay]_vars /\ OneRunning /\ OneRunning'
      => VotesComplete'
  BY <1>2, NextVotes
<1> QED BY <1>1, <1>3, InitVotes, InitTrail, NextTrail, SpecSound, PTL DEF Spec

\* The transactions that handle a request.
Running == {t \in Tx : pc[t] # "idle"}

\* With one client no more than one request is handled.
OneClient ==
  clients = 1 => IsFiniteSet(Running) /\ Cardinality(Running) <= 1

\* A step starts or ends the requests of one transaction at most.
LEMMA NextClient ==
  ASSUME TypeOK, OneClient, [MCNext]_<<vars, clients>>
  PROVE  OneClient'
<1> SUFFICES ASSUME clients' = 1
             PROVE  IsFiniteSet(Running') /\ Cardinality(Running') <= 1
  BY DEF OneClient
<1>0. /\ clients = 1 /\ IsFiniteSet(Running) /\ Cardinality(Running) <= 1
      /\ pc \in [Tx -> Statement]
  BY DEF MCNext, OneClient, TypeOK
<1>1. CASE UNCHANGED <<vars, clients>>
  BY <1>0, <1>1 DEF vars, Running
<1>2. CASE MCNext
  <2>1. ASSUME NEW t \in Tx, Start(t) \/ Step(t)
        PROVE  Running' \subseteq Running \cup {t}
    <3>1. CASE Start(t)
      BY <1>0, <3>1 DEF Start, DecideApprovalRequest, CancelApprovalRequest,
                        AddApprovalRequestApprover, Begin, Running
    <3>2. CASE Step(t)
      BY <1>0, <3>2
         DEF Step, DecideGetPolicy, RecordApproverDecision,
             CountApprovedDecisions, DecideGetMin, UpdateApprovalRequestStatus,
             CancelUpdate, CreateApprovalRequestApprover, InsertAuditLog,
             Commit, Rollback, EndRequest, Running
    <3> QED BY <2>1, <3>1, <3>2
  <2>2. SingleStep => Running' = Running
    <3>1. ASSUME NEW p, NEW row, UpdateApprovalPolicy(p, row)
          PROVE  Running' = Running
      BY <3>1 DEF UpdateApprovalPolicy, Running
    <3>2. ASSUME NEW q, NEW u, NEW p, NEW s, NEW assigned,
                 CreateApprovalRequest(q, u, p, s, assigned)
          PROVE  Running' = Running
      BY <3>2, Zenon DEF CreateApprovalRequest, Running
    <3> QED BY <3>1, <3>2, Zenon DEF SingleStep
  <2>3. \E t : Running' \subseteq Running \cup {t}
    BY <1>2, <2>1, <2>2 DEF MCNext, Next
  <2>4. IsFiniteSet(Running')
    BY <1>0, <2>3, FS_AddElement, FS_Subset
  <2>5. Cardinality(Running') <= 1
    BY <1>0, <1>2 DEF MCNext, Running
  <2> QED BY <2>4, <2>5
<1> QED BY <1>1, <1>2

\* With one client a request that has the approvals its policy asks for does
\* not stay pending, while policies keep min_approvers of at least 1.
THEOREM SeriallyVotesDecide ==
  ASSUME MinApprovers \subseteq Nat \ {0}
  PROVE  MCSpec /\ [][MinApproversStay]_vars => []SeriallyEnoughApprovalsDecide
<1>1. MCInit => Init /\ OneClient
  <2> SUFFICES ASSUME MCInit PROVE OneClient
    BY DEF MCInit
  <2>1. Running = {}
    BY DEF MCInit, Init, Running
  <2> QED BY <2>1, FS_EmptySet DEF OneClient
<1>2. TypeOK /\ OneClient /\ [MCNext]_<<vars, clients>> => OneClient'
  BY NextClient
<1>3. OneClient => (clients = 1 => OneRunning)
  BY AtMostOne DEF OneClient, OneRunning, Running
<1>4. [MCNext]_<<vars, clients>> => [Next]_vars /\ (clients = 1 <=> (clients = 1)')
  BY DEF MCNext
<1>5. LocksAreSound => TypeOK
  BY DEF LocksAreSound
<1>6. SeriallyEnoughApprovalsDecide <=> (clients = 1 => EnoughApprovalsDecide)
  BY DEF SeriallyEnoughApprovalsDecide
<1> QED BY <1>1, <1>2, <1>3, <1>4, <1>5, <1>6, SpecSound, VotesDecide, PTL
        DEF Spec, MCSpec
=============================================================================
