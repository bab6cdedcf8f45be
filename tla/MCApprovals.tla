----------------------------- MODULE MCApprovals -----------------------------
(***************************************************************************)
(* Approvals for TLC, with the most requests that are handled at a time    *)
(* chosen at the start of a behaviour.                                     *)
(***************************************************************************)
EXTENDS Approvals, TLC

VARIABLE clients

MCInit == Init /\ clients \in {1, Cardinality(Tx)}

MCNext ==
  /\ Next
  /\ clients' = clients
  /\ Cardinality({t \in Tx : pc'[t] # "idle"}) <= clients

MCSpec == MCInit /\ [][MCNext]_<<vars, clients>>

UserSymmetry == Permutations(Tx) \cup Permutations(Users)

-----------------------------------------------------------------------------
\* While one request is handled at a time, a request that has the approvals
\* it needs is approved: the vote that completes them decides.
SeriallyEnoughApprovalsDecide == clients = 1 => EnoughApprovalsDecide
=============================================================================
