------------------------------- MODULE MCLeases -------------------------------
(***************************************************************************)
(* Leases for TLC.  A behaviour has a workload, chosen at its start: how   *)
(* many requests are handled at a time, which ones, on how many leases of  *)
(* how many periods.  Leases, units and transactions are alike.            *)
(***************************************************************************)
EXTENDS Leases, TLC

VARIABLE load

Loads ==
  { [clients |-> 2, leases |-> 3, periods |-> 1, approvals |-> 2,
     ops |-> {"create", "activate", "terminate", "renew"}],
    [clients |-> 2, leases |-> 2, periods |-> 1, approvals |-> 2,
     ops |-> {"create", "activate", "terminate", "submit_approval", "update_unit"}],
    [clients |-> 2, leases |-> 1, periods |-> 2, approvals |-> 1,
     ops |-> {"create", "update", "activate", "generate", "terminate", "deposit_refund"}],
    [clients |-> 1, leases |-> 2, periods |-> 1, approvals |-> 2,
     ops |-> {"create", "activate", "generate", "terminate", "renew"}] }

\* What is requested and entered stays within the workload.
Within ==
  /\ Cardinality({t \in Tx : pc[t] # "idle"}) <= load.clients
  /\ \A t \in Tx : req[t] # Nil => req[t].op \in load.ops
  /\ Cardinality({l \in LeaseIds : dirty.lease_contracts[l] # NoLease}) <= load.leases
  /\ \A l \in LeaseIds : dirty.lease_contracts[l].periods <= load.periods
  /\ \A a \in ApprovalIds :
       dirty.approval_requests[a] # NoApproval => a <= load.approvals

\* An approval request that no transaction has inserted is a client's.
Submitted ==
  \E a \in ApprovalIds : /\ dirty.approval_requests[a] = NoApproval
                         /\ db.approval_requests[a]' # NoApproval

\* A client sets a unit's status: the one step that changes it, or what is
\* known of it, and ends no transaction.
UnitUpdated == pc' = pc /\ <<db.units, byHand>>' # <<db.units, byHand>>

MCInit ==
  /\ Init
  /\ load \in Loads
  /\ "update_unit" \notin load.ops => db.units = [u \in Units |-> "vacant"]

MCNext ==
  /\ Next
  /\ load' = load
  /\ Within'
  /\ Submitted => "submit_approval" \in load.ops
  /\ UnitUpdated => "update_unit" \in load.ops

MCSpec == MCInit /\ [][MCNext]_<<vars, load>>

Symmetry == Permutations(LeaseIds) \cup Permutations(Units) \cup Permutations(Tx)

-----------------------------------------------------------------------------
OneAtATime == load.clients = 1

\* While one request is handled at a time, a lease has one pending request to
\* terminate it at most (but for those clients enter).
SeriallyOnePendingTermination ==
  OneAtATime /\ "submit_approval" \notin load.ops => OnePendingTermination
=============================================================================
