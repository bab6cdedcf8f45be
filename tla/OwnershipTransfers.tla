-------------------------- MODULE OwnershipTransfers --------------------------
(***************************************************************************)
(* Replacing the buyer of an active sales contract: a transfer is          *)
(* requested with an approval request of its own, and when that is         *)
(* approved the transfer is completed.  Completing closes the row of the   *)
(* old buyer in sales_contract_parties, inserts one for the new buyer,     *)
(* sets the contract's primary_buyer_id, and moves the share of the unit.  *)
(*                                                                         *)
(* The k-th row of contract c in sales_contract_parties is <<c, k>>, and   *)
(* unit_ownerships has the row <<c, k>> for the unit of contract c, each   *)
(* contract selling a unit of its own.  An approval request has the id of  *)
(* the transfer it was made for.                                           *)
(***************************************************************************)
EXTENDS ReadCommitted, Integers, FiniteSets

CONSTANTS
  Parties,
  Contracts,
  Transfers,
  MaxRows,       \* rows a contract, or its unit, has at most in each table
  Shares         \* percentages clients give to CreateUnitOwnership

ASSUME TransferAssumption ==
  /\ Nil \notin Parties \cup Contracts \cup Transfers
  /\ MaxRows \in Nat \ {0}
  /\ Shares \subseteq 1..100

VARIABLES
  pc,      \* the next statement of each transaction, "idle" if there is none
  req      \* what its request is about, Nil if there is none

vars == <<db, dirty, owner, pc, req>>

RowIds == Contracts \X (1..MaxRows)

ContractRow  == [status : {"draft", "active", "ended"}, buyer : Parties]
PartyRow     == [party : Parties, open : BOOLEAN]
OwnershipRow == [party : Parties, share : 1..100, active : BOOLEAN, open : BOOLEAN]
TransferRow  == [status : {"pending", "completed"}, contract : Contracts,
                 from : Parties, to : Parties]
ApprovalStatus == {"pending", "approved", "rejected", "cancelled"}

ASSUME NilIsNoRow ==
  Nil \notin PartyRow \cup OwnershipRow \cup TransferRow \cup ApprovalStatus

Rows == [sales_contracts |-> Contracts,
         sales_contract_parties |-> RowIds,
         unit_ownerships |-> RowIds,
         ownership_transfers |-> Transfers,
         approval_requests |-> Transfers]

\* Every contract was made with its buyer and the buyer's row; the buyer of a
\* contract may already be entered as the owner of its unit.
Init ==
  /\ \E buyer \in [Contracts -> Parties], owns \in BOOLEAN :
       db = [sales_contracts |->
               [c \in Contracts |-> [status |-> "draft", buyer |-> buyer[c]]],
             sales_contract_parties |->
               [r \in RowIds |-> IF r[2] = 1 THEN [party |-> buyer[r[1]], open |-> TRUE]
                                             ELSE Nil],
             unit_ownerships |->
               [r \in RowIds |->
                  IF owns /\ r[2] = 1
                    THEN [party |-> buyer[r[1]], share |-> 100,
                          active |-> TRUE, open |-> TRUE]
                    ELSE Nil],
             ownership_transfers |-> [f \in Transfers |-> Nil],
             approval_requests |-> [f \in Transfers |-> Nil]]
  /\ dirty = db
  /\ owner = [tab \in DOMAIN Rows |-> [id \in Rows[tab] |-> Nil]]
  /\ pc = [t \in Tx |-> "idle"]
  /\ req = [t \in Tx |-> Nil]

At(t, stmt)    == pc[t] = stmt
Goto(t, stmt)  == pc' = [pc EXCEPT ![t] = stmt]
Next_(t, stmt) == Goto(t, stmt) /\ req' = req

Begin(t, request, stmt) ==
  /\ At(t, "idle")
  /\ req' = [req EXCEPT ![t] = request]
  /\ Goto(t, stmt)

\* The id an INSERT gives to the next row of contract c.
NewRow(tab, c) ==
  LET unused == {k \in 1..MaxRows : dirty[tab][<<c, k>>] = Nil}
  IN {<<c, k>> : k \in {k \in unused : \A n \in unused : k <= n}}

ActivePartyRows(t, c, p) ==
  {r \in RowIds : /\ r[1] = c
                  /\ Sees(t, "sales_contract_parties", r) = [party |-> p, open |-> TRUE]}

ActiveOwnerships(t, c, p) ==
  {r \in RowIds :
     LET row == Sees(t, "unit_ownerships", r)
     IN r[1] = c /\ row # Nil /\ row.party = p /\ row.active /\ row.open}

-----------------------------------------------------------------------------
(***************************************************************************)
(* Requesting a transfer.                                                  *)
(***************************************************************************)
RequestOwnershipTransfer(t, c, from, to) ==
  /\ Sees(t, "sales_contracts", c).status = "active"
  /\ ActivePartyRows(t, c, from) # {}
  /\ from # to
  /\ Begin(t, [status |-> "pending", contract |-> c,
                          from |-> from, to |-> to], "insert_transfer")
  /\ UNCHANGED storage

\* The transfer, its approval request and the link between them: rows that
\* nobody else sees before the commit.
InsertTransfer(t) ==
  /\ At(t, "insert_transfer")
  /\ \E f \in Transfers :
       /\ dirty.ownership_transfers[f] = Nil
       /\ WriteAll(t, {<<"ownership_transfers", f, req[t]>>,
                       <<"approval_requests", f, "pending">>})
  /\ Next_(t, "commit")

-----------------------------------------------------------------------------
(***************************************************************************)
(* Completing a transfer.                                                  *)
(***************************************************************************)
CompleteOwnershipTransfer_Unapproved(t, f) ==   \* refuses only a rejected request
  LET transfer == Sees(t, "ownership_transfers", f)
  IN /\ transfer # Nil /\ transfer.status = "pending"
     /\ Sees(t, "approval_requests", f) # "rejected"
     /\ Sees(t, "sales_contracts", transfer.contract).status = "active"
     /\ \E row \in ActivePartyRows(t, transfer.contract, transfer.from) :
          Begin(t,
                [transfer |-> f, contract |-> transfer.contract, from |-> transfer.from,
                 to |-> transfer.to, row |-> row, ownership |-> Nil, share |-> 100],
                "close_party")
     /\ UNCHANGED storage

CompleteOwnershipTransfer(t, f) ==
  LET transfer == Sees(t, "ownership_transfers", f)
  IN /\ transfer # Nil /\ transfer.status = "pending"
     /\ Sees(t, "approval_requests", f) = "approved"
     /\ Sees(t, "sales_contracts", transfer.contract).status = "active"
     /\ \E row \in ActivePartyRows(t, transfer.contract, transfer.from) :
          Begin(t,
                [transfer |-> f, contract |-> transfer.contract, from |-> transfer.from,
                 to |-> transfer.to, row |-> row, ownership |-> Nil, share |-> 100],
                "close_party")
     /\ UNCHANGED storage

CloseSalesContractParty(t) ==
  /\ At(t, "close_party")
  /\ dirty.sales_contract_parties[req[t].row].open
  /\ Write(t, "sales_contract_parties", req[t].row,
           [dirty.sales_contract_parties[req[t].row] EXCEPT !.open = FALSE])
  /\ Next_(t, "insert_party")

\* One open row of a primary buyer for each contract.
CreateSalesContractParty(t) ==
  /\ At(t, "insert_party")
  /\ \E id \in NewRow("sales_contract_parties", req[t].contract) :
       /\ \A other \in RowIds :
            /\ other[1] = req[t].contract
            /\ dirty.sales_contract_parties[other] # Nil
            => ~dirty.sales_contract_parties[other].open
       /\ Write(t, "sales_contract_parties", id, [party |-> req[t].to, open |-> TRUE])
  /\ Next_(t, "set_buyer")

UpdateSalesContractPrimaryBuyer_From(t) ==   \* sets the party it replaces
  /\ At(t, "set_buyer")
  /\ Write(t, "sales_contracts", req[t].contract,
           [dirty.sales_contracts[req[t].contract] EXCEPT !.buyer = req[t].from])
  /\ Next_(t, "find_ownership")

\* Whatever the contract's status is by now.
UpdateSalesContractPrimaryBuyer(t) ==
  /\ At(t, "set_buyer")
  /\ Write(t, "sales_contracts", req[t].contract,
           [dirty.sales_contracts[req[t].contract] EXCEPT !.buyer = req[t].to])
  /\ Next_(t, "find_ownership")

FindOwnership(t) ==
  LET found == ActiveOwnerships(t, req[t].contract, req[t].from)
  IN /\ At(t, "find_ownership")
     /\ IF found = {}
          THEN Next_(t, "create_ownership")
          ELSE \E r \in found :
                 /\ req' = [req EXCEPT ![t].ownership = r,
                              ![t].share = Sees(t, "unit_ownerships", r).share]
                 /\ Goto(t, "close_ownership")
     /\ UNCHANGED storage

CloseOwnership_Reopened(t) ==   \* sets effective_to and not the status
  /\ At(t, "close_ownership")
  /\ Write(t, "unit_ownerships", req[t].ownership,
           [dirty.unit_ownerships[req[t].ownership] EXCEPT !.open = FALSE])
  /\ Next_(t, "create_ownership")

\* The share found is given to the new owner, also if somebody closes the
\* row before this does.
CloseOwnership(t) ==
  /\ At(t, "close_ownership")
  /\ Write(t, "unit_ownerships", req[t].ownership,
           [dirty.unit_ownerships[req[t].ownership] EXCEPT
              !.active = FALSE, !.open = FALSE])
  /\ Next_(t, "create_ownership")

CreateOwnership(t) ==
  /\ At(t, "create_ownership")
  /\ \E id \in NewRow("unit_ownerships", req[t].contract) :
       Write(t, "unit_ownerships", id,
             [party |-> req[t].to, share |-> req[t].share,
              active |-> TRUE, open |-> TRUE])
  /\ Next_(t, "set_completion")

SetOwnershipTransferCompletion(t) ==
  /\ At(t, "set_completion")
  /\ Write(t, "ownership_transfers", req[t].transfer,
           [dirty.ownership_transfers[req[t].transfer] EXCEPT !.status = "completed"])
  /\ Next_(t, "commit")

Commit(t) ==
  /\ At(t, "commit") /\ CommitTx(t)
  /\ Goto(t, "idle") /\ req' = [req EXCEPT ![t] = Nil]

Rollback(t) ==
  /\ ~At(t, "idle") /\ RollbackTx(t)
  /\ Goto(t, "idle") /\ req' = [req EXCEPT ![t] = Nil]

-----------------------------------------------------------------------------
(***************************************************************************)
(* Requests of one statement, and what others do to the rows read here.    *)
(***************************************************************************)
CreateUnitOwnership(c, p, share, active, open) ==
  /\ \E id \in NewRow("unit_ownerships", c) :
       WriteAndCommit("unit_ownerships", id,
         [party |-> p, share |-> share, active |-> active, open |-> open])
  /\ UNCHANGED <<pc, req>>

CloseUnitOwnership(r) ==
  /\ db.unit_ownerships[r] # Nil
  /\ WriteAndCommit("unit_ownerships", r,
       [db.unit_ownerships[r] EXCEPT !.active = FALSE, !.open = FALSE])
  /\ UNCHANGED <<pc, req>>

ChangeContractStatus(c, from, to) ==
  /\ db.sales_contracts[c].status = from
  /\ WriteAndCommit("sales_contracts", c, [db.sales_contracts[c] EXCEPT !.status = to])
  /\ UNCHANGED <<pc, req>>

DecideApproval(f, status) ==
  /\ db.approval_requests[f] = "pending"
  /\ WriteAndCommit("approval_requests", f, status)
  /\ UNCHANGED <<pc, req>>

Others ==
  \/ \E c \in Contracts :
       \/ \E p \in Parties, s \in Shares, a, o \in BOOLEAN : CreateUnitOwnership(c, p, s, a, o)
       \/ ChangeContractStatus(c, "draft", "active")
       \/ \E s \in {"draft", "active"} : ChangeContractStatus(c, s, "ended")
  \/ \E r \in RowIds : CloseUnitOwnership(r)
  \/ \E f \in Transfers, s \in ApprovalStatus \ {"pending"} : DecideApproval(f, s)

Start(t) ==
  \/ \E c \in Contracts, from, to \in Parties : RequestOwnershipTransfer(t, c, from, to)
  \/ \E f \in Transfers : CompleteOwnershipTransfer(t, f)

Step(t) ==
  \/ InsertTransfer(t)
  \/ CloseSalesContractParty(t)
  \/ CreateSalesContractParty(t)
  \/ UpdateSalesContractPrimaryBuyer(t)
  \/ FindOwnership(t)
  \/ CloseOwnership(t)
  \/ CreateOwnership(t)
  \/ SetOwnershipTransferCompletion(t)
  \/ Commit(t)
  \/ Rollback(t)

Next == Others \/ \E t \in Tx : Start(t) \/ Step(t)

Spec == Init /\ [][Next]_vars

-----------------------------------------------------------------------------
\* The tables, committed and dirty, are of their types.
TypeOK ==
  LET Tables == [sales_contracts : [Contracts -> ContractRow],
                 sales_contract_parties : [RowIds -> PartyRow \cup {Nil}],
                 unit_ownerships : [RowIds -> OwnershipRow \cup {Nil}],
                 ownership_transfers : [Transfers -> TransferRow \cup {Nil}],
                 approval_requests : [Transfers -> ApprovalStatus \cup {Nil}]]
  IN db \in Tables /\ dirty \in Tables

BuyerOf(c) == db.sales_contracts[c].buyer

OpenRows(c) ==
  {r \in RowIds : /\ r[1] = c /\ db.sales_contract_parties[r] # Nil
                  /\ db.sales_contract_parties[r].open}

\* A contract has one open row for its primary buyer, and that row names the
\* party in primary_buyer_id, whichever transfers of it race.
OneOpenBuyer ==
  \A c \in Contracts :
    /\ Cardinality(OpenRows(c)) = 1
    /\ \A r \in OpenRows(c) : db.sales_contract_parties[r].party = BuyerOf(c)

\* The buyer changes only by a transfer from just that buyer, approved and not
\* completed before, which is completed by the same step: none is completed
\* twice, and none replaces a buyer it was not made for.
TransferredByApproval ==
  [][\A c \in Contracts :
       BuyerOf(c)' # BuyerOf(c) =>
         \E f \in Transfers :
           /\ db.ownership_transfers[f] =
                [status |-> "pending", contract |-> c,
                 from |-> BuyerOf(c), to |-> BuyerOf(c)']
           /\ db.ownership_transfers[f].status' = "completed"
           /\ db.approval_requests[f] = "approved"]_vars

ActiveRows(c) ==
  {r \in RowIds : /\ r[1] = c /\ db.unit_ownerships[r] # Nil
                  /\ db.unit_ownerships[r].active}

ShareOf(r) == db.unit_ownerships[r].share

\* Completing a transfer gives the new owner the share it takes from the old
\* one, or all of the unit if the old one has none, whatever ownerships
\* clients enter meanwhile (unless they also close them).
SharePassed ==
  \A c \in Contracts :
    BuyerOf(c)' # BuyerOf(c) =>
      LET closed == ActiveRows(c) \ ActiveRows(c)'
          opened == ActiveRows(c)' \ ActiveRows(c)
      IN /\ Cardinality(opened) = 1 /\ Cardinality(closed) <= 1
         /\ \A r \in opened :
              ShareOf(r)' = IF closed = {} THEN 100
                            ELSE ShareOf(CHOOSE o \in closed : TRUE)
==============================================================================
