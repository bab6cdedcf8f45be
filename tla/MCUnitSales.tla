----------------------------- MODULE MCUnitSales -----------------------------
(***************************************************************************)
(* UnitSales for TLC.  A behaviour has a workload, chosen at its start:    *)
(* how many requests are handled at a time, which ones, and on how many    *)
(* reservations, contracts, schedule lines and approval requests.  With    *)
(* one request at a time the checks of a handler hold when it writes.      *)
(***************************************************************************)
EXTENDS UnitSales, TLC

CONSTANT Loads

VARIABLE load

Holders ==   \* who gets the unit
  { [clients |-> 2, reservations |-> 2, contracts |-> 2, lines |-> 1, principals |-> 1,
     approvals |-> 1,
     ops |-> {"reserve", "convert", "create", "cancel_reservation", "activate"}],
    [clients |-> 2, reservations |-> 1, contracts |-> 2, lines |-> 1, principals |-> 1,
     approvals |-> 1,
     ops |-> {"reserve", "convert", "create", "activate", "cancel", "name_source"}],
    [clients |-> 2, reservations |-> 0, contracts |-> 2, lines |-> 1, principals |-> 1,
     approvals |-> 1,
     ops |-> {"create", "activate", "cancel", "update_unit"}] }

Courses ==   \* the course of a contract
  { [clients |-> 2, reservations |-> 0, contracts |-> 2, lines |-> 1, principals |-> 1,
     approvals |-> 1,
     ops |-> {"create", "activate", "cancel", "default"}],
    [clients |-> 2, reservations |-> 0, contracts |-> 1, lines |-> 1, principals |-> 1,
     approvals |-> 2,
     ops |-> {"create", "activate", "cancel", "terminate"}],
    [clients |-> 2, reservations |-> 0, contracts |-> 1, lines |-> 1, principals |-> 1,
     approvals |-> 1,
     ops |-> {"create", "activate", "cancel", "terminate", "complete", "submit_approval"}],
    [clients |-> 3, reservations |-> 0, contracts |-> 1, lines |-> 2, principals |-> 1,
     approvals |-> 0,
     ops |-> {"create", "generate", "activate", "update_line"}],
    [clients |-> 1, reservations |-> 0, contracts |-> 1, lines |-> 2, principals |-> 2,
     approvals |-> 1,
     ops |-> {"create", "update", "activate", "complete", "default", "generate",
              "update_line"}],
    [clients |-> 1, reservations |-> 1, contracts |-> 1, lines |-> 1, principals |-> 1,
     approvals |-> 3,
     ops |-> {"reserve", "convert", "create", "cancel_reservation", "activate",
              "terminate", "update_unit"}] }

\* What is requested and entered stays within the workload.
Within ==
  /\ Cardinality({t \in Tx : pc[t] # "idle"}) <= load.clients
  /\ \A t \in Tx : req[t] # Nil =>
       /\ req[t].op \in load.ops
       /\ req[t].op = "create" /\ req[t].reservation # Nil => "name_source" \in load.ops
  /\ Cardinality({r \in Reservations : dirty.reservations[r] # NoReservation})
       <= load.reservations
  /\ Cardinality({c \in Contracts : dirty.sales_contracts[c] # NoContract})
       <= load.contracts
  /\ \A l \in Lines : dirty.installment_schedule_lines[l] # NoLine =>
       /\ l[2] <= load.lines
       /\ dirty.installment_schedule_lines[l].principal <= load.principals
  /\ \A a \in ApprovalIds : dirty.approval_requests[a] # NoApproval =>
       a <= load.approvals

\* An approval request that no transaction has inserted is a client's.
Submitted ==
  \E a \in ApprovalIds : /\ dirty.approval_requests[a] = NoApproval
                         /\ db.approval_requests[a]' # NoApproval

\* A client sets a unit's status: the one step that changes it, or what is
\* known of it, and ends no transaction.
UnitUpdated == pc' = pc /\ <<db.units, byHand>>' # <<db.units, byHand>>

MCInit ==
  /\ Init
  /\ load \in Loads
  /\ "update_unit" \notin load.ops => db.units = [u \in Units |-> "available"]

MCNext ==
  /\ Next
  /\ load' = load
  /\ Within'
  /\ Submitted => "submit_approval" \in load.ops
  /\ UnitUpdated => "update_unit" \in load.ops

MCSpec == MCInit /\ [][MCNext]_<<vars, load>>

Symmetry == Permutations(Tx) \cup Permutations(Reservations)
              \cup Permutations(Contracts) \cup Permutations(Units)

-----------------------------------------------------------------------------
OneAtATime == load.clients = 1

\* While one request is handled at a time: the receivable of a line is for
\* the line's principal, however the line is edited before and after; no unit
\* of an active contract is made available (but by cancelling a draft for the
\* same unit); and a contract has one pending request to end it at most (but
\* for those clients enter).
SeriallySound ==
  OneAtATime =>
    /\ BilledAsScheduled
    /\ "cancel" \notin load.ops => ActiveNotAvailable
    /\ "submit_approval" \notin load.ops => NoDuplicatePending
=============================================================================
