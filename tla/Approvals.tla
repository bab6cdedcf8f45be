------------------------------ MODULE Approvals ------------------------------
(***************************************************************************)
(* Approval requests, their approvers' votes and the policies that say how *)
(* many approvals a request needs.  Each handler is a transaction that     *)
(* runs its statements one by one while those of other requests run        *)
(* theirs; where the code returns an error, t can only Rollback.           *)
(*                                                                         *)
(* A definition whose name ends in a slip of the programmer (..._Unguarded *)
(* and the like) is no part of the specification: it is what its namesake  *)
(* would be with that slip, for showing that a property notices it.        *)
(***************************************************************************)
EXTENDS ReadCommitted, Integers, FiniteSets

CONSTANTS
  Requests,      \* ids of approval requests
  Users,
  Policies,      \* ids of approval policies
  MinApprovers   \* the values a policy's min_approvers may be given

ASSUME ApprovalsAssumption ==
  /\ IsFiniteSet(Users)
  /\ MinApprovers \subseteq Int
  /\ Nil \notin Policies
  /\ {"created", "cancelled"} \cap Users = {}

VARIABLES
  pc,     \* the next statement of each transaction, "idle" if there is none
  req,    \* the HTTP request being handled, Nil if there is none
  count   \* the approvals it has counted

vars == <<db, dirty, owner, pc, req, count>>

Status == {"draft", "pending", "approved", "rejected", "cancelled", "expired"}
Vote   == {"none", "waiting", "approved", "rejected"}   \* none: no such row
Event  == {"created", "cancelled"} \cup Users           \* u: u's decision

PolicyRow  == [min_approvers : MinApprovers, prevent_self_approval : BOOLEAN]
RequestRow == [status : Status \cup {"none"}, requested_by : Users \cup {Nil},
               policy : Policies \cup {Nil}]

DecideRequest == [op : {"decide"}, user : Users, request : Requests,
                  decision : {"approved", "rejected"}]
CancelRequest == [op : {"cancel"}, request : Requests]
AddRequest    == [op : {"add_approver"}, user : Users, request : Requests]
HttpRequest   == DecideRequest \cup CancelRequest \cup AddRequest

Statement ==
  {"idle", "get_policy", "record_decision", "count_approved", "get_min",
   "update_status", "cancel", "create_approver", "insert_audit", "commit"}

Rows == [approval_policies |-> Policies,
         approval_requests |-> Requests,
         approvers |-> Requests \X Users,
         audit_logs |-> Requests \X Event]

Init ==
  /\ \E policies \in [Policies -> PolicyRow] :
       db = [approval_policies |-> policies,
             approval_requests |->
               [q \in Requests |-> [status |-> "none", requested_by |-> Nil,
                                    policy |-> Nil]],
             approvers |-> [qu \in Requests \X Users |-> "none"],
             audit_logs |-> [qe \in Requests \X Event |-> FALSE]]
  /\ dirty = db
  /\ owner = [tab \in DOMAIN Rows |-> [id \in Rows[tab] |-> Nil]]
  /\ pc = [t \in Tx |-> "idle"]
  /\ req = [t \in Tx |-> Nil]
  /\ count = [t \in Tx |-> 0]

At(t, stmt)   == pc[t] = stmt
Goto(t, stmt) == pc' = [pc EXCEPT ![t] = stmt]

\* The first statement of a request only reads.
Begin(t, request, stmt) ==
  /\ At(t, "idle")
  /\ req' = [req EXCEPT ![t] = request]
  /\ Goto(t, stmt)
  /\ UNCHANGED <<storage, count>>

-----------------------------------------------------------------------------
UpdateApprovalPolicy(p, row) ==
  /\ WriteAndCommit("approval_policies", p, row)
  /\ UNCHANGED <<pc, req, count>>

\* The request, its first approver if one is assigned, and the audit entry
\* are inserted by one transaction, which nobody can see or wait for.  The
\* status may be any the column allows.
CreateApprovalRequest(q, user, policy, status, assigned) ==
  LET created(table) ==
        [table EXCEPT
           !.approval_requests[q] = [status |-> status, requested_by |-> user,
                                     policy |-> policy],
           !.approvers = [qu \in DOMAIN @ |->
                            IF qu \in {q} \X assigned THEN "waiting" ELSE @[qu]],
           !.audit_logs[<<q, "created">>] = TRUE]
  IN /\ db.approval_requests[q].status = "none"
     /\ db' = created(db)
     /\ dirty' = created(dirty)
     /\ UNCHANGED <<owner, pc, req, count>>

-----------------------------------------------------------------------------
(***************************************************************************)
(* DecideApprovalRequest: check that the request is pending and that the   *)
(* policy lets this user vote, record the vote of an approver who has not  *)
(* voted, and reject the request, or approve it if the votes this          *)
(* transaction sees are enough.                                            *)
(***************************************************************************)
DecideApprovalRequest(t, u, q, decision) ==
  /\ db.approval_requests[q].status = "pending"
  /\ Begin(t, [op |-> "decide", user |-> u, request |-> q,
               decision |-> decision],
           IF db.approval_requests[q].policy = Nil THEN "record_decision"
                                                   ELSE "get_policy")

PolicyOf(q) == db.approval_policies[db.approval_requests[q].policy]

DecideGetPolicy(t) ==
  LET q == req[t].request
  IN /\ At(t, "get_policy")
     /\ PolicyOf(q).prevent_self_approval
          => db.approval_requests[q].requested_by # req[t].user
     /\ Goto(t, "record_decision")
     /\ UNCHANGED <<storage, req, count>>

RecordApproverDecision(t) ==
  LET key == <<req[t].request, req[t].user>>
  IN /\ At(t, "record_decision")
     /\ dirty.approvers[key] = "waiting"
     /\ Write(t, "approvers", key, req[t].decision)
     /\ Goto(t, IF req[t].decision = "rejected" THEN "update_status"
                                                ELSE "count_approved")
     /\ UNCHANGED <<req, count>>

CountApprovedDecisions(t) ==
  LET q == req[t].request
  IN /\ At(t, "count_approved")
     /\ count' = [count EXCEPT ![t] =
          Cardinality({u \in Users : Sees(t, "approvers", <<q, u>>) = "approved"})]
     /\ Goto(t, "get_min")
     /\ UNCHANGED <<storage, req>>

DecideGetMin_OffByOne(t) ==   \* > for >=
  LET q == req[t].request
      min == IF db.approval_requests[q].policy = Nil
               THEN 1 ELSE PolicyOf(q).min_approvers
  IN /\ At(t, "get_min")
     /\ Goto(t, IF count[t] > min THEN "update_status" ELSE "insert_audit")
     /\ UNCHANGED <<storage, req, count>>

DecideGetMin_Default(t) ==   \* one approval is always enough
  /\ At(t, "get_min")
  /\ Goto(t, IF count[t] >= 1 THEN "update_status" ELSE "insert_audit")
  /\ UNCHANGED <<storage, req, count>>

DecideGetMin(t) ==
  LET q == req[t].request
      min == IF db.approval_requests[q].policy = Nil
               THEN 1 ELSE PolicyOf(q).min_approvers
  IN /\ At(t, "get_min")
     /\ Goto(t, IF count[t] >= min THEN "update_status" ELSE "insert_audit")
     /\ UNCHANGED <<storage, req, count>>

UpdateApprovalRequestStatus_Unguarded(t) ==   \* without AND status = 'pending'
  LET q == req[t].request
  IN /\ At(t, "update_status")
     /\ Write(t, "approval_requests", q,
              [dirty.approval_requests[q] EXCEPT !.status = req[t].decision])
     /\ Goto(t, "insert_audit")
     /\ UNCHANGED <<req, count>>

UpdateApprovalRequestStatus(t) ==
  LET q == req[t].request
  IN /\ At(t, "update_status")
     /\ dirty.approval_requests[q].status = "pending"
     /\ Write(t, "approval_requests", q,
              [dirty.approval_requests[q] EXCEPT !.status = req[t].decision])
     /\ Goto(t, "insert_audit")
     /\ UNCHANGED <<req, count>>

-----------------------------------------------------------------------------
(***************************************************************************)
(* CancelApprovalRequest: by the requester only.                           *)
(***************************************************************************)
CancelApprovalRequest(t, u, q) ==
  /\ db.approval_requests[q].status # "none"
  /\ db.approval_requests[q].requested_by = u
  /\ Begin(t, [op |-> "cancel", request |-> q], "cancel")

CancelUpdate_Unguarded(t) ==   \* without AND status IN ('draft', 'pending')
  LET q == req[t].request
  IN /\ At(t, "cancel")
     /\ Write(t, "approval_requests", q,
              [dirty.approval_requests[q] EXCEPT !.status = "cancelled"])
     /\ Goto(t, "insert_audit")
     /\ UNCHANGED <<req, count>>

CancelUpdate_Unaudited(t) ==   \* returns before InsertAuditLog
  LET q == req[t].request
  IN /\ At(t, "cancel")
     /\ dirty.approval_requests[q].status \in {"draft", "pending"}
     /\ Write(t, "approval_requests", q,
              [dirty.approval_requests[q] EXCEPT !.status = "cancelled"])
     /\ Goto(t, "commit")
     /\ UNCHANGED <<req, count>>

CancelUpdate(t) ==
  LET q == req[t].request
  IN /\ At(t, "cancel")
     /\ dirty.approval_requests[q].status \in {"draft", "pending"}
     /\ Write(t, "approval_requests", q,
              [dirty.approval_requests[q] EXCEPT !.status = "cancelled"])
     /\ Goto(t, "insert_audit")
     /\ UNCHANGED <<req, count>>

(***************************************************************************)
(* AddApprovalRequestApprover: check that the request is pending, insert   *)
(* the approver.  It leaves no audit entry.                                *)
(***************************************************************************)
AddApprovalRequestApprover(t, u, q) ==
  /\ db.approval_requests[q].status = "pending"
  /\ Begin(t, [op |-> "add_approver", user |-> u, request |-> q],
           "create_approver")

CreateApprovalRequestApprover(t) ==
  LET key == <<req[t].request, req[t].user>>
  IN /\ At(t, "create_approver")
     /\ dirty.approvers[key] = "none"
     /\ Write(t, "approvers", key, "waiting")
     /\ Goto(t, "commit")
     /\ UNCHANGED <<req, count>>

-----------------------------------------------------------------------------
InsertAuditLog(t) ==
  LET event == IF req[t].op = "cancel" THEN "cancelled" ELSE req[t].user
  IN /\ At(t, "insert_audit")
     /\ Write(t, "audit_logs", <<req[t].request, event>>, TRUE)
     /\ Goto(t, "commit")
     /\ UNCHANGED <<req, count>>

EndRequest(t) ==
  /\ Goto(t, "idle")
  /\ req' = [req EXCEPT ![t] = Nil]
  /\ count' = [count EXCEPT ![t] = 0]

Commit(t)   == At(t, "commit") /\ CommitTx(t) /\ EndRequest(t)
Rollback(t) == ~At(t, "idle") /\ RollbackTx(t) /\ EndRequest(t)

SingleStep ==
  \/ \E p \in Policies, row \in PolicyRow : UpdateApprovalPolicy(p, row)
  \/ \E q \in Requests, u \in Users, p \in Policies \cup {Nil}, s \in Status,
        assigned \in {{}} \cup {{a} : a \in Users} :
       CreateApprovalRequest(q, u, p, s, assigned)

Start(t) ==
  \E u \in Users, q \in Requests :
    \/ \E d \in {"approved", "rejected"} : DecideApprovalRequest(t, u, q, d)
    \/ CancelApprovalRequest(t, u, q)
    \/ AddApprovalRequestApprover(t, u, q)

Step(t) ==
  \/ DecideGetPolicy(t)
  \/ RecordApproverDecision(t)
  \/ CountApprovedDecisions(t)
  \/ DecideGetMin(t)
  \/ UpdateApprovalRequestStatus(t)
  \/ CancelUpdate(t)
  \/ CreateApprovalRequestApprover(t)
  \/ InsertAuditLog(t)
  \/ Commit(t)
  \/ Rollback(t)

Next == SingleStep \/ \E t \in Tx : Start(t) \/ Step(t)

Spec == Init /\ [][Next]_vars

-----------------------------------------------------------------------------
\* The tables, the locks and the requests are of their types.
TypeOK ==
  LET Tables == [approval_policies : [Policies -> PolicyRow],
                 approval_requests : [Requests -> RequestRow],
                 approvers : [Requests \X Users -> Vote],
                 audit_logs : [Requests \X Event -> BOOLEAN]]
  IN /\ db \in Tables
     /\ dirty \in Tables
     /\ DOMAIN owner = DOMAIN Rows
     /\ \A tab \in DOMAIN Rows : owner[tab] \in [Rows[tab] -> Tx \cup {Nil}]
     /\ pc \in [Tx -> Statement]
     /\ req \in [Tx -> HttpRequest \cup {Nil}]
     /\ count \in [Tx -> Nat]

StatusOf(q) == db.approval_requests[q].status
Voters(q, vote) == {u \in Users : db.approvers[<<q, u>>] = vote}

\* A vote to reject is recorded only together with the rejection: a racing
\* approval, cancellation or second rejection leaves either of them, not a
\* mixture.  So an approved request has no vote against it.
RejectionDecides ==
  \A q \in Requests :
    /\ Voters(q, "rejected") # {} => StatusOf(q) = "rejected"
    /\ Cardinality(Voters(q, "rejected")) <= 1

\* A decided or cancelled request stays so, and so does a vote.
DecisionIsFinal ==
  [][/\ \A q \in Requests :
          StatusOf(q) \notin {"none", "draft", "pending"}
            => StatusOf(q)' = StatusOf(q)
     /\ \A q \in Requests, vote \in {"approved", "rejected"} :
          Voters(q, vote) \subseteq Voters(q, vote)']_vars

\* DecideApprovalRequest approves a request only with the approvals its
\* policy asks for (while policies keep their min_approvers).
ApprovedByEnough ==
  [][\A q \in Requests :
       StatusOf(q) = "pending" /\ StatusOf(q)' = "approved" =>
         Cardinality(Voters(q, "approved"))' >=
           IF db.approval_requests[q].policy = Nil
             THEN 1 ELSE PolicyOf(q).min_approvers]_vars

\* The audit log tells of the votes there are, and of no cancellation but of
\* requests that are cancelled.
AuditLogFits ==
  \A q \in Requests :
    /\ \A u \in Users :
         db.audit_logs[<<q, u>>] <=>
           db.approvers[<<q, u>>] \in {"approved", "rejected"}
    /\ db.audit_logs[<<q, "cancelled">>] => StatusOf(q) = "cancelled"

\* The audit log has an entry for every vote and every cancellation, from the
\* commit that records it, and none for one that was rolled back.  (A request
\* may also be created as cancelled, which no entry tells of.)
AuditTrail ==
  /\ []AuditLogFits
  /\ [][\A q \in Requests :
          StatusOf(q) \in {"draft", "pending"} /\ StatusOf(q)' = "cancelled" =>
            db'.audit_logs[<<q, "cancelled">>]]_vars

\* A request with all the approvals its policy asks for does not stay
\* pending (while policies keep their min_approvers and requests are handled
\* one at a time).
EnoughApprovalsDecide ==
  \A q \in Requests :
    StatusOf(q) = "pending" =>
      Cardinality(Voters(q, "approved")) <
        IF db.approval_requests[q].policy = Nil
          THEN 1 ELSE PolicyOf(q).min_approvers
==============================================================================
