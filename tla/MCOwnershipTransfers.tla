------------------------- MODULE MCOwnershipTransfers -------------------------
(***************************************************************************)
(* OwnershipTransfers for TLC.  A behaviour has a workload, chosen at its  *)
(* start: how many requests are handled at a time, on how many transfers   *)
(* among how many parties, and whether clients enter ownerships by hand    *)
(* meanwhile, or close them.                                               *)
(***************************************************************************)
EXTENDS OwnershipTransfers, TLC

VARIABLE load

Loads ==
  { [clients |-> 2, parties |-> 3, transfers |-> 2, byHand |-> "close"],
    [clients |-> 1, parties |-> 2, transfers |-> 1, byHand |-> "create"] }

\* What is requested and entered stays within the workload.
Within ==
  LET known == {f \in Transfers : dirty.ownership_transfers[f] # Nil}
      owned == {r \in RowIds : dirty.unit_ownerships[r] # Nil}
  IN /\ Cardinality({t \in Tx : pc[t] # "idle"}) <= load.clients
     /\ Cardinality(known) <= load.transfers
     /\ Cardinality({db.sales_contracts[c].buyer : c \in Contracts}
                      \cup {dirty.ownership_transfers[f].from : f \in known}
                      \cup {dirty.ownership_transfers[f].to : f \in known}
                      \cup {dirty.unit_ownerships[r].party : r \in owned})
          <= load.parties

\* No request has the row locked: the step is a client's, not a transfer's.
ByHand ==
  \A r \in RowIds :
    LET row == db.unit_ownerships[r]
    IN row' # row /\ owner.unit_ownerships[r] = Nil =>
         load.byHand = IF row = Nil THEN "create" ELSE "close"

MCInit == Init /\ load \in Loads
MCNext == Next /\ load' = load /\ Within' /\ ByHand
MCSpec == MCInit /\ [][MCNext]_<<vars, load>>

Symmetry ==
  Permutations(Tx) \cup Permutations(Parties) \cup Permutations(Transfers)

-----------------------------------------------------------------------------
\* While clients do not close ownerships by hand, a transfer passes on the
\* share it takes from the old owner, or all of the unit if that one has none.
TransfersPassSharesOn ==
  [][load.byHand = "create" => SharePassed]_<<vars, load>>
=============================================================================
