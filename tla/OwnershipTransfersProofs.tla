----------------------- MODULE OwnershipTransfersProofs -----------------------
(***************************************************************************)
(* Proofs about OwnershipTransfers, for any number of parties, contracts,  *)
(* transfers and concurrent transactions.  What is committed is right      *)
(* because of what an open transaction has locked and what it will commit, *)
(* so the invariant says, of every row that is locked, who has locked it   *)
(* and what its new version is.  At the end the shares that are passed on  *)
(* while nobody closes an ownership by hand.                               *)
(***************************************************************************)
EXTENDS MCOwnershipTransfers, ReadCommittedProofs

RowType == [sales_contracts |-> ContractRow,
            sales_contract_parties |-> PartyRow \cup {Nil},
            unit_ownerships |-> OwnershipRow \cup {Nil},
            ownership_transfers |-> TransferRow \cup {Nil},
            approval_requests |-> ApprovalStatus \cup {Nil}]

TableName == {"sales_contracts", "sales_contract_parties", "unit_ownerships",
              "ownership_transfers", "approval_requests"}

\* What is committed.
Con(c)      == db.sales_contracts[c]
Party(r)    == db.sales_contract_parties[r]
Transfer(f) == db.ownership_transfers[f]
Approval(f) == db.approval_requests[f]

\* Who has locked it, and what it will be.
ConLocker(c)      == owner.sales_contracts[c]
PartyLocker(r)    == owner.sales_contract_parties[r]
TransferLocker(f) == owner.ownership_transfers[f]
ApprovalLocker(f) == owner.approval_requests[f]
NewCon(c)         == dirty.sales_contracts[c]
NewParty(r)       == dirty.sales_contract_parties[r]
NewTransfer(f)    == dirty.ownership_transfers[f]

-----------------------------------------------------------------------------
(***************************************************************************)
(* What a transaction remembers at each of its statements.                 *)
(***************************************************************************)
\* The statements of a completion, from those on that close the row of the
\* old buyer, insert that of the new one, and set the buyer.
PastBuyer  == {"find_ownership", "close_ownership", "create_ownership",
               "set_completion", "commit"}
PastInsert == {"set_buyer"} \cup PastBuyer
PastClose  == {"insert_party"} \cup PastInsert
Statement  == {"idle", "insert_transfer", "close_party"} \cup PastClose

Completion == [transfer : Transfers, contract : Contracts, from : Parties,
               to : Parties, row : RowIds, ownership : RowIds \cup {Nil},
               share : 1..100]

Completes(t) == pc[t] # "idle" /\ req[t] \in Completion
Replacing(t) == Completes(t) /\ pc[t] \in PastClose

ControlTypeOK ==
  /\ pc \in [Tx -> Statement]
  /\ req \in [Tx -> Completion \cup TransferRow \cup {Nil}]

RequestOK(t) ==
  /\ pc[t] = "idle" => req[t] = Nil
  /\ pc[t] = "insert_transfer" => req[t] \in TransferRow /\ req[t].status = "pending"
  /\ pc[t] \in ({"close_party"} \cup PastClose) \ {"commit"} => Completes(t)
  /\ Completes(t) => req[t].row[1] = req[t].contract
  /\ pc[t] = "close_ownership" =>
       /\ req[t].ownership \in RowIds
       /\ Sees(t, "unit_ownerships", req[t].ownership) # Nil

\* No row of unit_ownerships is ever deleted.
OwnershipsStay ==
  \A r \in RowIds : db.unit_ownerships[r] # Nil => dirty.unit_ownerships[r] # Nil

-----------------------------------------------------------------------------
(***************************************************************************)
(* What its reads still tell it, and what it has locked.                   *)
(***************************************************************************)
\* The row of the old buyer stays that party's, the transfer stays approved,
\* and a transfer somebody else has completed has closed the row.
Remembers(t) ==
  Completes(t) =>
    LET q == req[t]
    IN /\ Party(q.row) # Nil /\ Party(q.row).party = q.from
       /\ Transfer(q.transfer) \in
            [status : {"pending", "completed"}, contract : {q.contract},
             from : {q.from}, to : {q.to}]
       /\ Approval(q.transfer) = "approved"
       /\ Transfer(q.transfer).status = "completed" => ~Party(q.row).open

Closes(t) ==
  /\ PartyLocker(req[t].row) = t
  /\ Party(req[t].row) = [party |-> req[t].from, open |-> TRUE]
  /\ NewParty(req[t].row) = [party |-> req[t].from, open |-> FALSE]

Opens(t, r) ==
  /\ r[1] = req[t].contract /\ PartyLocker(r) = t
  /\ Party(r) = Nil
  /\ NewParty(r) = [party |-> req[t].to, open |-> TRUE]

\* A transaction has locked the rows it closes and opens, and no other.
PartyLocks(t) ==
  /\ Replacing(t) => Closes(t)
  /\ Replacing(t) /\ pc[t] \in PastInsert =>
       \E r \in RowIds : /\ Opens(t, r)
                         /\ \A s \in RowIds : PartyLocker(s) = t => s \in {req[t].row, r}
  /\ \A r \in RowIds : PartyLocker(r) = t =>
       /\ Replacing(t)
       /\ pc[t] = "insert_party" => r = req[t].row

\* It has locked the contract it has given a new buyer.
ContractLocks(t) ==
  /\ Replacing(t) /\ pc[t] \in PastBuyer => ConLocker(req[t].contract) = t
  /\ \A c \in Contracts : ConLocker(c) = t =>
       /\ Replacing(t) /\ c = req[t].contract
       /\ NewCon(c).buyer = req[t].to

\* A transaction about to commit has locked the transfer it has made, or the
\* one it completes.
TransferLocks(t) ==
  /\ Completes(t) /\ pc[t] = "commit" => TransferLocker(req[t].transfer) = t
  /\ \A f \in Transfers : TransferLocker(f) = t =>
       /\ pc[t] = "commit"
       /\ IF Completes(t)
            THEN /\ f = req[t].transfer
                 /\ NewTransfer(f) = [Transfer(f) EXCEPT !.status = "completed"]
            ELSE /\ Transfer(f) = Nil
                 /\ NewTransfer(f) \in TransferRow
                 /\ NewTransfer(f).status = "pending"

\* The only approval requests locked are those of transfers being made.
ApprovalLocks(t) ==
  \A f \in Transfers : ApprovalLocker(f) = t =>
    Transfer(f) = Nil /\ TransferLocker(f) = t

LocksSound(t) ==
  PartyLocks(t) /\ ContractLocks(t) /\ TransferLocks(t) /\ ApprovalLocks(t)

-----------------------------------------------------------------------------
\* OneOpenBuyer, without Cardinality.
IsOpenRow(r, c) ==
  /\ r[1] = c
  /\ Party(r) = [party |-> BuyerOf(c), open |-> TRUE]
  /\ \A s \in RowIds : s[1] = c /\ Party(s) # Nil /\ Party(s).open => s = r

OneOpen == \A c \in Contracts : \E r \in RowIds : IsOpenRow(r, c)

Typed ==
  /\ TablesTyped(Rows, RowType) /\ DirtyIsCommitted /\ OwnershipsStay
  /\ ControlTypeOK /\ \A t \in Tx : RequestOK(t)

IInv ==
  /\ Typed /\ OneOpen
  /\ \A t \in Tx : Remembers(t) /\ LocksSound(t)

-----------------------------------------------------------------------------
(***************************************************************************)
(* The tables and their rows.                                              *)
(***************************************************************************)
\* Which rows each table has.
LEMMA TableRows ==
  /\ DOMAIN Rows = TableName
  /\ Rows["sales_contracts"] = Contracts /\ Rows["sales_contract_parties"] = RowIds
  /\ Rows["unit_ownerships"] = RowIds /\ Rows["ownership_transfers"] = Transfers
  /\ Rows["approval_requests"] = Transfers
BY DEF Rows, TableName

\* The types of the rows.
LEMMA RowTypes ==
  ASSUME TablesTyped(Rows, RowType)
  PROVE  /\ \A c \in Contracts : /\ Con(c) \in ContractRow /\ NewCon(c) \in ContractRow
                                 /\ ConLocker(c) \in Tx \cup {Nil}
         /\ \A r \in RowIds : /\ Party(r) \in PartyRow \cup {Nil}
                              /\ NewParty(r) \in PartyRow \cup {Nil}
                              /\ PartyLocker(r) \in Tx \cup {Nil}
                              /\ db.unit_ownerships[r] \in OwnershipRow \cup {Nil}
                              /\ dirty.unit_ownerships[r] \in OwnershipRow \cup {Nil}
         /\ \A f \in Transfers : /\ Transfer(f) \in TransferRow \cup {Nil}
                                 /\ NewTransfer(f) \in TransferRow \cup {Nil}
                                 /\ TransferLocker(f) \in Tx \cup {Nil}
                                 /\ Approval(f) \in ApprovalStatus \cup {Nil}
<1>1. \A tab \in TableName : \A id \in Rows[tab] :
        /\ db[tab][id] \in RowType[tab] /\ dirty[tab][id] \in RowType[tab]
        /\ owner[tab][id] \in Tx \cup {Nil}
  BY TableRows DEF TablesTyped
<1>2. /\ RowType["sales_contracts"] = ContractRow
      /\ RowType["sales_contract_parties"] = PartyRow \cup {Nil}
      /\ RowType["unit_ownerships"] = OwnershipRow \cup {Nil}
      /\ RowType["ownership_transfers"] = TransferRow \cup {Nil}
      /\ RowType["approval_requests"] = ApprovalStatus \cup {Nil}
  BY DEF RowType
<1>3. "sales_contracts" \in TableName /\ "sales_contract_parties" \in TableName
      /\ "unit_ownerships" \in TableName /\ "ownership_transfers" \in TableName
      /\ "approval_requests" \in TableName
  BY DEF TableName
<1>4. \A c \in Contracts : /\ Con(c) \in ContractRow /\ NewCon(c) \in ContractRow
                           /\ ConLocker(c) \in Tx \cup {Nil}
  BY <1>1, <1>2, <1>3, TableRows DEF Con, NewCon, ConLocker
<1>5. \A r \in RowIds : /\ Party(r) \in PartyRow \cup {Nil}
                        /\ NewParty(r) \in PartyRow \cup {Nil}
                        /\ PartyLocker(r) \in Tx \cup {Nil}
  BY <1>1, <1>2, <1>3, TableRows DEF Party, NewParty, PartyLocker
<1>6. \A r \in RowIds : /\ db.unit_ownerships[r] \in OwnershipRow \cup {Nil}
                        /\ dirty.unit_ownerships[r] \in OwnershipRow \cup {Nil}
  BY <1>1, <1>2, <1>3, TableRows
<1>7. \A f \in Transfers : /\ Transfer(f) \in TransferRow \cup {Nil}
                           /\ NewTransfer(f) \in TransferRow \cup {Nil}
                           /\ TransferLocker(f) \in Tx \cup {Nil}
                           /\ Approval(f) \in ApprovalStatus \cup {Nil}
  BY <1>1, <1>2, <1>3, TableRows DEF Transfer, NewTransfer, TransferLocker, Approval
<1> QED BY <1>4, <1>5, <1>6, <1>7

\* The requests for a transfer and for its completion are told apart.
LEMMA Kinds ==
  TransferRow \cap Completion = {} /\ Nil \notin TransferRow
<1>1. ASSUME NEW q, q \in TransferRow, q \in Completion PROVE FALSE
  <2>1. DOMAIN q = {"status", "contract", "from", "to"}
    BY <1>1 DEF TransferRow
  <2>2. DOMAIN q = {"transfer", "contract", "from", "to", "row", "ownership", "share"}
    BY <1>1 DEF Completion
  <2> QED BY <2>1, <2>2
<1> QED BY <1>1, NilIsNoRow

-----------------------------------------------------------------------------
(***************************************************************************)
(* What each statement does, to which rows.                                *)
(***************************************************************************)
WritesRow(t, tab, id, row) == RowWritten(t, tab, id, row) /\ RowsStayBut(tab, id, Rows)
ReplacesRow(tab, id, row)  == RowReplaced(tab, id, row) /\ RowsStayBut(tab, id, Rows)

OthersStay(t) ==
  /\ \A x \in Tx \ {t} : pc'[x] = pc[x] /\ req'[x] = req[x]
  /\ pc' = [x \in Tx |-> pc'[x]] /\ req' = [x \in Tx |-> req'[x]]

Goes(t, stmt) == pc'[t] = stmt /\ req'[t] = req[t] /\ OthersStay(t)

Starts(t) ==
  /\ pc[t] = "idle" /\ OthersStay(t) /\ UNCHANGED storage
  /\ \/ /\ pc'[t] = "insert_transfer" /\ req'[t] \in TransferRow
        /\ req'[t].status = "pending"
     \/ /\ pc'[t] = "close_party" /\ req'[t] \in Completion
        /\ req'[t].row[1] = req'[t].contract /\ req'[t].share = 100
        /\ Party(req'[t].row) = [party |-> req'[t].from, open |-> TRUE]
        /\ Approval(req'[t].transfer) = "approved"
        /\ Transfer(req'[t].transfer) =
             [status |-> "pending", contract |-> req'[t].contract,
              from |-> req'[t].from, to |-> req'[t].to]

InsertsTransfer(t) ==
  /\ pc[t] = "insert_transfer" /\ Goes(t, "commit")
  /\ req[t] \in TransferRow /\ req[t].status = "pending"
  /\ \E f \in Transfers :
       /\ Transfer(f) = Nil
       /\ RowWritten(t, "ownership_transfers", f, req[t])
       /\ RowWritten(t, "approval_requests", f, "pending")
       /\ \A g \in Transfers \ {f} : /\ RowStays("ownership_transfers", g)
                                     /\ RowStays("approval_requests", g)
       /\ \A c \in Contracts : RowStays("sales_contracts", c)
       /\ \A r \in RowIds : /\ RowStays("sales_contract_parties", r)
                            /\ RowStays("unit_ownerships", r)

ClosesParty(t) ==
  /\ pc[t] = "close_party" /\ Completes(t) /\ Goes(t, "insert_party")
  /\ Party(req[t].row) = [party |-> req[t].from, open |-> TRUE]
  /\ WritesRow(t, "sales_contract_parties", req[t].row,
               [party |-> req[t].from, open |-> FALSE])

OpensParty(t) ==
  /\ pc[t] = "insert_party" /\ Completes(t) /\ Goes(t, "set_buyer")
  /\ \E r \in RowIds :
       /\ r[1] = req[t].contract /\ Party(r) = Nil
       /\ WritesRow(t, "sales_contract_parties", r, [party |-> req[t].to, open |-> TRUE])

SetsBuyer(t) ==
  /\ pc[t] = "set_buyer" /\ Completes(t) /\ Goes(t, "find_ownership")
  /\ WritesRow(t, "sales_contracts", req[t].contract,
               [NewCon(req[t].contract) EXCEPT !.buyer = req[t].to])

FindsOwnership(t) ==
  /\ pc[t] = "find_ownership" /\ Completes(t) /\ OthersStay(t)
  /\ UNCHANGED storage
  /\ \/ pc'[t] = "create_ownership" /\ req'[t] = req[t]
     \/ /\ pc'[t] = "close_ownership"
        /\ \E r \in RowIds, s \in 1..100 :
             /\ Sees(t, "unit_ownerships", r) # Nil
             /\ req'[t] = [req[t] EXCEPT !.ownership = r, !.share = s]

ChangesOwnership(t) ==
  /\ \/ pc[t] = "close_ownership" /\ Goes(t, "create_ownership")
     \/ pc[t] = "create_ownership" /\ Goes(t, "set_completion")
  /\ Completes(t)
  /\ \E r \in RowIds : \E row \in OwnershipRow : WritesRow(t, "unit_ownerships", r, row)

CompletesTransfer(t) ==
  /\ pc[t] = "set_completion" /\ Completes(t) /\ Goes(t, "commit")
  /\ WritesRow(t, "ownership_transfers", req[t].transfer,
               [Transfer(req[t].transfer) EXCEPT !.status = "completed"])

Ends(t) ==
  /\ pc[t] # "idle" /\ pc'[t] = "idle" /\ req'[t] = Nil /\ OthersStay(t)
  /\ (CommitTx(t) /\ pc[t] = "commit") \/ RollbackTx(t)
  /\ \A tab \in TableName : \A id \in Rows[tab] : RowReleased(t, tab, id)

\* What a client does by hand, to one row.
ByClient ==
  /\ pc' = pc /\ req' = req
  /\ \/ \E c \in Contracts : \E row \in ContractRow :
          /\ row.buyer = Con(c).buyer /\ ReplacesRow("sales_contracts", c, row)
     \/ \E r \in RowIds : \E row \in OwnershipRow : ReplacesRow("unit_ownerships", r, row)
     \/ \E f \in Transfers : \E s \in ApprovalStatus :
          Approval(f) = "pending" /\ ReplacesRow("approval_requests", f, s)

Does(t) ==
  \/ Starts(t) \/ InsertsTransfer(t) \/ ClosesParty(t) \/ OpensParty(t) \/ SetsBuyer(t)
  \/ FindsOwnership(t) \/ ChangesOwnership(t) \/ CompletesTransfer(t) \/ Ends(t)

-----------------------------------------------------------------------------
\* A statement that writes one row.
LEMMA Writing ==
  ASSUME TablesTyped(Rows, RowType), DirtyIsCommitted, NEW t \in Tx,
         NEW tab \in TableName, NEW id \in Rows[tab], NEW row \in RowType[tab],
         Write(t, tab, id, row)
  PROVE  WritesRow(t, tab, id, row) /\ TablesTyped(Rows, RowType)' /\ DirtyIsCommitted'
<1>1. /\ RowWritten(t, tab, id, row) /\ RowsStayBut(tab, id, Rows)
      /\ TablesTyped(Rows, RowType)' /\ DirtyIsCommitted'
  <2>1. tab \in DOMAIN Rows
    BY TableRows
  <2> QED BY <2>1, TypedWrite
<1> QED BY <1>1 DEF WritesRow

\* And one that is a whole transaction.
LEMMA ReplacingByClient ==
  ASSUME TablesTyped(Rows, RowType), DirtyIsCommitted,
         NEW tab \in TableName, NEW id \in Rows[tab], NEW row \in RowType[tab],
         WriteAndCommit(tab, id, row)
  PROVE  ReplacesRow(tab, id, row) /\ TablesTyped(Rows, RowType)' /\ DirtyIsCommitted'
<1>1. /\ RowReplaced(tab, id, row) /\ RowsStayBut(tab, id, Rows)
      /\ TablesTyped(Rows, RowType)' /\ DirtyIsCommitted'
  <2>1. tab \in DOMAIN Rows
    BY TableRows
  <2> QED BY <2>1, TypedReplace
<1> QED BY <1>1 DEF ReplacesRow

\* A statement that changes no table.
LEMMA NothingWritten ==
  ASSUME UNCHANGED storage, TablesTyped(Rows, RowType), DirtyIsCommitted
  PROVE  TablesTyped(Rows, RowType)' /\ DirtyIsCommitted'
BY DEF storage, TablesTyped, HasRows, DirtyIsCommitted

\* The request a transaction has begun, and what it does to it.
LEMMA Requesting ==
  ASSUME ControlTypeOK, NEW t \in Tx
  PROVE  /\ \A stmt : Next_(t, stmt) => Goes(t, stmt)
         /\ \A q, stmt : Begin(t, q, stmt) =>
              pc[t] = "idle" /\ pc'[t] = stmt /\ req'[t] = q /\ OthersStay(t)
         /\ \A q, stmt : Goto(t, stmt) /\ req' = [req EXCEPT ![t] = q] =>
              pc'[t] = stmt /\ req'[t] = q /\ OthersStay(t)
BY DEF ControlTypeOK, Next_, Goto, Begin, At, Goes, OthersStay

\* A transaction that has not begun has nothing locked: it reads what is
\* committed.
LEMMA IdleSees ==
  ASSUME NEW t \in Tx, LocksSound(t), pc[t] = "idle"
  PROVE  /\ \A r \in RowIds : Sees(t, "sales_contract_parties", r) = Party(r)
         /\ \A f \in Transfers : /\ Sees(t, "ownership_transfers", f) = Transfer(f)
                                 /\ Sees(t, "approval_requests", f) = Approval(f)
<1>1. \A r \in RowIds : PartyLocker(r) # t
  BY DEF LocksSound, PartyLocks, Replacing, PastClose, PastInsert, PastBuyer
<1>2. \A f \in Transfers : TransferLocker(f) # t /\ ApprovalLocker(f) # t
  BY DEF LocksSound, TransferLocks, ApprovalLocks
<1> QED BY <1>1, <1>2 DEF Sees, PartyLocker, TransferLocker, ApprovalLocker,
                         Party, Transfer, Approval

\* A request begins as is said above.
LEMMA StartEffect ==
  ASSUME Typed, NEW t \in Tx, LocksSound(t), Start(t)
  PROVE  Starts(t) /\ TablesTyped(Rows, RowType)' /\ DirtyIsCommitted'
<1> USE DEF Typed
<1>1. UNCHANGED storage
  BY DEF Start, RequestOwnershipTransfer, CompleteOwnershipTransfer
<1>2. TablesTyped(Rows, RowType)' /\ DirtyIsCommitted'
  BY <1>1, NothingWritten
<1>3. ASSUME NEW c \in Contracts, NEW from \in Parties, NEW to \in Parties,
             RequestOwnershipTransfer(t, c, from, to)
      PROVE  Starts(t)
  <2> DEFINE q == [status |-> "pending", contract |-> c, from |-> from, to |-> to]
  <2>1. q \in TransferRow /\ q.status = "pending"
    BY DEF TransferRow
  <2>2. Begin(t, q, "insert_transfer")
    BY <1>3 DEF RequestOwnershipTransfer
  <2> HIDE DEF q
  <2>3. pc[t] = "idle" /\ pc'[t] = "insert_transfer" /\ req'[t] = q /\ OthersStay(t)
    BY <2>2, Requesting
  <2> QED BY <1>1, <2>1, <2>3 DEF Starts
<1>4. ASSUME NEW f \in Transfers, CompleteOwnershipTransfer(t, f) PROVE Starts(t)
  <2> DEFINE tr == Sees(t, "ownership_transfers", f)
             q(row) == [transfer |-> f, contract |-> tr.contract, from |-> tr.from,
                        to |-> tr.to, row |-> row, ownership |-> Nil, share |-> 100]
  <2>1. /\ tr # Nil /\ tr.status = "pending"
        /\ Sees(t, "approval_requests", f) = "approved"
        /\ \E row \in ActivePartyRows(t, tr.contract, tr.from) :
             Begin(t, q(row), "close_party")
    BY <1>4 DEF CompleteOwnershipTransfer
  <2>2. PICK row \in ActivePartyRows(t, tr.contract, tr.from) :
          Begin(t, q(row), "close_party")
    BY <2>1
  <2>3. /\ pc[t] = "idle" /\ pc'[t] = "close_party" /\ req'[t] = q(row)
        /\ OthersStay(t)
    <3> HIDE DEF q
    <3> QED BY <2>2, Requesting
  <2>4. /\ tr = Transfer(f) /\ Approval(f) = "approved"
        /\ tr \in TransferRow
    BY <2>1, <2>3, IdleSees, RowTypes
  <2>5. row \in RowIds /\ row[1] = tr.contract
        /\ Party(row) = [party |-> tr.from, open |-> TRUE]
    BY <2>3, IdleSees DEF ActivePartyRows
  <2> HIDE DEF tr
  <2>6. tr = [status |-> "pending", contract |-> tr.contract,
              from |-> tr.from, to |-> tr.to]
        /\ tr.contract \in Contracts /\ tr.from \in Parties /\ tr.to \in Parties
    BY <2>1, <2>4 DEF TransferRow, tr
  <2>7. q(row) \in Completion
    BY <2>5, <2>6 DEF Completion
  <2>8. /\ q(row).row = row /\ q(row).contract = tr.contract /\ q(row).from = tr.from
        /\ q(row).to = tr.to /\ q(row).transfer = f /\ q(row).share = 100
    OBVIOUS
  <2> HIDE DEF q
  <2>9. /\ req'[t] \in Completion
        /\ req'[t].row[1] = req'[t].contract /\ req'[t].share = 100
        /\ Party(req'[t].row) = [party |-> req'[t].from, open |-> TRUE]
        /\ Approval(req'[t].transfer) = "approved"
        /\ Transfer(req'[t].transfer) =
             [status |-> "pending", contract |-> req'[t].contract,
              from |-> req'[t].from, to |-> req'[t].to]
    BY <2>3, <2>4, <2>5, <2>6, <2>7, <2>8
  <2> QED BY <1>1, <2>3, <2>9 DEF Starts
<1> QED BY <1>1, <1>2, <1>3, <1>4 DEF Start

\* A row nobody has locked is the committed one.
LEMMA CommittedUnlessLocked ==
  ASSUME TablesTyped(Rows, RowType), DirtyIsCommitted
  PROVE  /\ \A r \in RowIds : PartyLocker(r) = Nil => NewParty(r) = Party(r)
         /\ \A f \in Transfers : TransferLocker(f) = Nil => NewTransfer(f) = Transfer(f)
<1>1. \A tab \in TableName : \A id \in Rows[tab] :
        owner[tab][id] = Nil => dirty[tab][id] = db[tab][id]
  BY TableRows, TypedTabular DEF DirtyIsCommitted, Tabular
<1> QED BY <1>1, TableRows DEF TableName, PartyLocker, NewParty, Party, TransferLocker,
                              NewTransfer, Transfer

\* Each statement does what is said above, and keeps the types of the tables.
\* A new transfer is inserted with its approval request.
LEMMA InsertTransferEffect ==
  ASSUME Typed, NEW t \in Tx, LocksSound(t), InsertTransfer(t)
  PROVE  InsertsTransfer(t) /\ TablesTyped(Rows, RowType)' /\ DirtyIsCommitted'
<1> USE DEF Typed
<1>1. /\ pc[t] = "insert_transfer" /\ Goes(t, "commit")
      /\ req[t] \in TransferRow /\ req[t].status = "pending"
  BY Requesting DEF InsertTransfer, At, RequestOK
<1>2. PICK f \in Transfers :
        /\ Transfer(f) = Nil
        /\ WriteAll(t, {<<"ownership_transfers", f, req[t]>>,
                        <<"approval_requests", f, "pending">>})
  <2>1. PICK f \in Transfers :
          /\ NewTransfer(f) = Nil
          /\ WriteAll(t, {<<"ownership_transfers", f, req[t]>>,
                          <<"approval_requests", f, "pending">>})
    BY DEF InsertTransfer, NewTransfer
  <2>2. TransferLocker(f) \in {Nil, t}
    BY <2>1 DEF WriteAll, Free, TransferLocker
  <2>3. TransferLocker(f) # t
    BY <1>1 DEF LocksSound, TransferLocks
  <2> QED BY <2>1, <2>2, <2>3, CommittedUnlessLocked
<1> DEFINE writes == {<<"ownership_transfers", f, req[t]>>,
                      <<"approval_requests", f, "pending">>}
<1>3. /\ \A w \in writes : w[1] \in DOMAIN Rows /\ w[2] \in Rows[w[1]]
      /\ \A w, v \in writes : w[1] = v[1] /\ w[2] = v[2] => w = v
  BY TableRows DEF TableName
<1>4. \A w \in writes : w[3] \in RowType[w[1]]
  BY <1>1 DEF RowType, ApprovalStatus
<1>5. /\ <<"ownership_transfers", f, req[t]>> \in writes
      /\ <<"approval_requests", f, "pending">> \in writes
      /\ \A w \in writes : w[1] \in {"ownership_transfers", "approval_requests"} /\ w[2] = f
  OBVIOUS
<1>6. WriteAll(t, writes)
  BY <1>2
<1> HIDE DEF writes
<1>7. /\ \A tab \in DOMAIN Rows : \A id \in Rows[tab] :
           /\ \A w \in writes : w[1] = tab /\ w[2] = id => RowWritten(t, tab, id, w[3])
           /\ (\A w \in writes : ~(w[1] = tab /\ w[2] = id)) => RowStays(tab, id)
      /\ TablesTyped(Rows, RowType)' /\ DirtyIsCommitted'
  BY <1>3, <1>4, <1>6, TypedWriteAll
<1>8. /\ RowWritten(t, "ownership_transfers", f, req[t])
      /\ RowWritten(t, "approval_requests", f, "pending")
  BY <1>5, <1>7, TableRows DEF TableName
<1>9. \A tab \in TableName : \A id \in Rows[tab] :
        tab \notin {"ownership_transfers", "approval_requests"} \/ id # f =>
          RowStays(tab, id)
  BY <1>5, <1>7, TableRows
<1>10. /\ \A g \in Transfers \ {f} : /\ RowStays("ownership_transfers", g)
                                     /\ RowStays("approval_requests", g)
       /\ \A c \in Contracts : RowStays("sales_contracts", c)
       /\ \A r \in RowIds : /\ RowStays("sales_contract_parties", r)
                            /\ RowStays("unit_ownerships", r)
  BY <1>9, TableRows DEF TableName
<1> QED BY <1>1, <1>2, <1>7, <1>8, <1>10 DEF InsertsTransfer

\* The UPDATE that closes the row of the old buyer waits for who has locked it, and
\* then finds it open: what it writes is the row read before, closed.
LEMMA ClosePartyEffect ==
  ASSUME Typed, NEW t \in Tx, Remembers(t), LocksSound(t), CloseSalesContractParty(t)
  PROVE  ClosesParty(t) /\ TablesTyped(Rows, RowType)' /\ DirtyIsCommitted'
<1> USE DEF Typed
<1> DEFINE r == req[t].row
           row == [party |-> req[t].from, open |-> FALSE]
<1>1. pc[t] = "close_party" /\ Completes(t) /\ Goes(t, "insert_party")
  BY Requesting DEF CloseSalesContractParty, At, RequestOK
<1>2. r \in RowIds /\ req[t].from \in Parties
  BY <1>1 DEF Completes, Completion
<1>3. /\ NewParty(r).open /\ PartyLocker(r) \in {Nil, t}
      /\ Write(t, "sales_contract_parties", r, [NewParty(r) EXCEPT !.open = FALSE])
  BY DEF CloseSalesContractParty, NewParty, Write, Free, PartyLocker
<1>4. NewParty(r) = Party(r)
  <2>1. PartyLocker(r) # t
    BY <1>1, <1>2 DEF LocksSound, PartyLocks, Replacing, PastClose, PastInsert, PastBuyer
  <2> QED BY <1>2, <1>3, <2>1, CommittedUnlessLocked
<1>5. Party(r) = [party |-> req[t].from, open |-> TRUE]
  <2>1. Party(r) # Nil /\ Party(r).party = req[t].from
    BY <1>1 DEF Remembers
  <2>2. Party(r) \in PartyRow /\ Party(r).open
    BY <1>2, <1>3, <1>4, <2>1, RowTypes
  <2> QED BY <2>1, <2>2 DEF PartyRow
<1>6. [NewParty(r) EXCEPT !.open = FALSE] = row
  <2>1. \A p, a, b : [[party |-> p, open |-> a] EXCEPT !.open = b] =
                     [party |-> p, open |-> b]
    OBVIOUS
  <2>2. NewParty(r) = [party |-> req[t].from, open |-> TRUE]
    BY <1>4, <1>5
  <2>3. [[party |-> req[t].from, open |-> TRUE] EXCEPT !.open = FALSE] = row
    BY <2>1, Zenon
  <2> HIDE DEF row
  <2> QED BY <2>2, <2>3, Zenon
<1>7. row \in RowType["sales_contract_parties"] /\ "sales_contract_parties" \in TableName
  BY <1>2 DEF RowType, PartyRow, TableName
<1> HIDE DEF row, r
<1>8. WritesRow(t, "sales_contract_parties", r, row)
      /\ TablesTyped(Rows, RowType)' /\ DirtyIsCommitted'
  BY <1>2, <1>3, <1>6, <1>7, Writing, TableRows
<1> QED BY <1>1, <1>5, <1>8 DEF ClosesParty, row, r

\* The row an INSERT gives a contract.
LEMMA NewRowIsFree ==
  ASSUME NEW tab, NEW c \in Contracts, NEW id \in NewRow(tab, c)
  PROVE  id \in RowIds /\ id[1] = c /\ dirty[tab][id] = Nil
<1>1. PICK k \in 1..MaxRows : id = <<c, k>> /\ dirty[tab][<<c, k>>] = Nil
  BY DEF NewRow
<1>2. <<c, k>> \in RowIds /\ <<c, k>>[1] = c
  BY DEF RowIds
<1> QED BY <1>1, <1>2

\* The row for the new buyer was nobody's before.
LEMMA OpenPartyEffect ==
  ASSUME Typed, NEW t \in Tx, LocksSound(t), CreateSalesContractParty(t)
  PROVE  OpensParty(t) /\ TablesTyped(Rows, RowType)' /\ DirtyIsCommitted'
<1> USE DEF Typed
<1> DEFINE row == [party |-> req[t].to, open |-> TRUE]
<1>1. pc[t] = "insert_party" /\ Completes(t) /\ Goes(t, "set_buyer")
  BY Requesting DEF CreateSalesContractParty, At, RequestOK, PastClose
<1>2. req[t].to \in Parties /\ req[t].contract \in Contracts
  BY <1>1 DEF Completes, Completion
<1>3. PICK r \in NewRow("sales_contract_parties", req[t].contract) :
        Write(t, "sales_contract_parties", r, row)
  BY DEF CreateSalesContractParty
<1>4. r \in RowIds /\ r[1] = req[t].contract /\ NewParty(r) = Nil
      /\ PartyLocker(r) \in {Nil, t}
  BY <1>2, <1>3, NewRowIsFree DEF NewParty, Write, Free, PartyLocker
<1>5. Party(r) = Nil
  <2>1. ASSUME PartyLocker(r) = t PROVE FALSE
    <3>1. r = req[t].row /\ Closes(t)
      BY <1>1, <1>4, <2>1 DEF LocksSound, PartyLocks
    <3>2. NewParty(r) \in PartyRow
      BY <1>1, <3>1 DEF Closes, PartyRow, Completes, Completion
    <3> QED BY <1>4, <3>2, NilIsNoRow
  <2> QED BY <1>4, <2>1, CommittedUnlessLocked
<1>6. row \in RowType["sales_contract_parties"] /\ "sales_contract_parties" \in TableName
  BY <1>2 DEF RowType, PartyRow, TableName
<1> HIDE DEF row
<1>7. WritesRow(t, "sales_contract_parties", r, row)
      /\ TablesTyped(Rows, RowType)' /\ DirtyIsCommitted'
  BY <1>3, <1>4, <1>6, Writing, TableRows
<1> QED BY <1>1, <1>4, <1>5, <1>7 DEF OpensParty, row

\* The contract gets its new buyer, whatever else others have changed in it.
LEMMA SetBuyerEffect ==
  ASSUME Typed, NEW t \in Tx, UpdateSalesContractPrimaryBuyer(t)
  PROVE  SetsBuyer(t) /\ TablesTyped(Rows, RowType)' /\ DirtyIsCommitted'
<1> USE DEF Typed
<1> DEFINE c == req[t].contract
           row == [NewCon(c) EXCEPT !.buyer = req[t].to]
<1>1. pc[t] = "set_buyer" /\ Completes(t) /\ Goes(t, "find_ownership")
  BY Requesting DEF UpdateSalesContractPrimaryBuyer, At, RequestOK, PastClose, PastInsert
<1>2. req[t].to \in Parties /\ c \in Contracts
  BY <1>1 DEF Completes, Completion
<1>3. Write(t, "sales_contracts", c, row)
  BY DEF UpdateSalesContractPrimaryBuyer, NewCon
<1>4. row \in RowType["sales_contracts"] /\ "sales_contracts" \in TableName
  <2>1. NewCon(c) \in ContractRow
    BY <1>2, RowTypes
  <2> QED BY <1>2, <2>1 DEF RowType, ContractRow, TableName
<1> HIDE DEF row, c
<1>5. WritesRow(t, "sales_contracts", c, row)
      /\ TablesTyped(Rows, RowType)' /\ DirtyIsCommitted'
  BY <1>2, <1>3, <1>4, Writing, TableRows
<1> QED BY <1>1, <1>5 DEF SetsBuyer, row, c

\* The transfer is completed.
LEMMA CompleteTransferEffect ==
  ASSUME Typed, NEW t \in Tx, Remembers(t), LocksSound(t),
         SetOwnershipTransferCompletion(t)
  PROVE  CompletesTransfer(t) /\ TablesTyped(Rows, RowType)' /\ DirtyIsCommitted'
<1> USE DEF Typed
<1> DEFINE f == req[t].transfer
           row == [Transfer(f) EXCEPT !.status = "completed"]
<1>1. pc[t] = "set_completion" /\ Completes(t) /\ Goes(t, "commit")
  BY Requesting DEF SetOwnershipTransferCompletion, At, RequestOK, PastClose, PastInsert,
                    PastBuyer
<1>2. f \in Transfers /\ Transfer(f) # Nil
  <2>1. f \in Transfers /\ req[t].contract \in Contracts /\ req[t].from \in Parties
        /\ req[t].to \in Parties
    BY <1>1 DEF Completes, Completion
  <2>2. Transfer(f) \in [status : {"pending", "completed"}, contract : {req[t].contract},
             from : {req[t].from}, to : {req[t].to}]
    BY <1>1 DEF Remembers
  <2>3. Transfer(f) \in TransferRow
    BY <2>1, <2>2 DEF TransferRow
  <2> QED BY <2>1, <2>3, NilIsNoRow
<1>3. /\ TransferLocker(f) \in {Nil, t}
      /\ Write(t, "ownership_transfers", f, [NewTransfer(f) EXCEPT !.status = "completed"])
  BY DEF SetOwnershipTransferCompletion, NewTransfer, Write, Free, TransferLocker
<1>4. NewTransfer(f) = Transfer(f)
  <2>1. TransferLocker(f) # t
    BY <1>1, <1>2 DEF LocksSound, TransferLocks
  <2> QED BY <1>2, <1>3, <2>1, CommittedUnlessLocked
<1>5. row \in RowType["ownership_transfers"] /\ "ownership_transfers" \in TableName
  <2>1. Transfer(f) \in TransferRow
    BY <1>2, RowTypes
  <2>2. row \in TransferRow
    BY <2>1 DEF TransferRow
  <2> QED BY <2>2 DEF RowType, TableName
<1>6. Write(t, "ownership_transfers", f, row)
  BY <1>3, <1>4
<1> HIDE DEF row, f
<1>7. WritesRow(t, "ownership_transfers", f, row)
      /\ TablesTyped(Rows, RowType)' /\ DirtyIsCommitted'
  BY <1>2, <1>5, <1>6, Writing, TableRows
<1> QED BY <1>1, <1>7 DEF CompletesTransfer, row, f

\* The ownership of the old buyer is looked for.
LEMMA FindOwnershipEffect ==
  ASSUME Typed, NEW t \in Tx, FindOwnership(t)
  PROVE  FindsOwnership(t) /\ TablesTyped(Rows, RowType)' /\ DirtyIsCommitted'
<1> USE DEF Typed
<1>1. pc[t] = "find_ownership" /\ Completes(t) /\ UNCHANGED storage
  BY DEF FindOwnership, At, RequestOK, PastClose, PastInsert, PastBuyer
<1>2. TablesTyped(Rows, RowType)' /\ DirtyIsCommitted'
  BY <1>1, NothingWritten
<1>3. CASE Next_(t, "create_ownership")
  BY <1>1, <1>2, <1>3, Requesting DEF FindsOwnership, Goes
<1>4. CASE \E r \in ActiveOwnerships(t, req[t].contract, req[t].from) :
             /\ req' = [req EXCEPT ![t].ownership = r,
                          ![t].share = Sees(t, "unit_ownerships", r).share]
             /\ Goto(t, "close_ownership")
  <2>1. PICK r \in ActiveOwnerships(t, req[t].contract, req[t].from) :
             /\ req' = [req EXCEPT ![t].ownership = r,
                          ![t].share = Sees(t, "unit_ownerships", r).share]
             /\ Goto(t, "close_ownership")
    BY <1>4
  <2>2. r \in RowIds /\ Sees(t, "unit_ownerships", r) # Nil
    BY DEF ActiveOwnerships
  <2>3. Sees(t, "unit_ownerships", r).share \in 1..100
    <3>1. Sees(t, "unit_ownerships", r) \in OwnershipRow
      BY <2>2, RowTypes DEF Sees
    <3> QED BY <3>1 DEF OwnershipRow
  <2> DEFINE q == [req[t] EXCEPT !.ownership = r,
                                 !.share = Sees(t, "unit_ownerships", r).share]
  <2>4. req' = [req EXCEPT ![t] = q]
    BY <2>1
  <2>5. pc'[t] = "close_ownership" /\ req'[t] = q /\ OthersStay(t)
    <3> HIDE DEF q
    <3> QED BY <2>1, <2>4, Requesting
  <2> QED BY <1>1, <1>2, <2>2, <2>3, <2>5 DEF FindsOwnership
<1> QED BY <1>1, <1>2, <1>3, <1>4 DEF FindOwnership

\* An ownership is closed, and one is inserted.
LEMMA ChangeOwnershipEffect ==
  ASSUME Typed, NEW t \in Tx, CloseOwnership(t) \/ CreateOwnership(t)
  PROVE  ChangesOwnership(t) /\ TablesTyped(Rows, RowType)' /\ DirtyIsCommitted'
<1> USE DEF Typed
<1>1. /\ \/ pc[t] = "close_ownership" /\ Goes(t, "create_ownership")
         \/ pc[t] = "create_ownership" /\ Goes(t, "set_completion")
      /\ Completes(t)
  BY Requesting DEF CloseOwnership, CreateOwnership, At, RequestOK, PastClose, PastInsert,
                    PastBuyer
<1>2. \E r \in RowIds : \E row \in OwnershipRow : Write(t, "unit_ownerships", r, row)
  <2>1. CASE CloseOwnership(t)
    <3> DEFINE r == req[t].ownership
               row == [dirty.unit_ownerships[r] EXCEPT !.active = FALSE, !.open = FALSE]
    <3>1. pc[t] = "close_ownership" /\ Write(t, "unit_ownerships", r, row)
      BY <2>1 DEF CloseOwnership, At
    <3>2. r \in RowIds /\ Sees(t, "unit_ownerships", r) # Nil
      BY <3>1 DEF RequestOK
    <3>3. dirty.unit_ownerships[r] # Nil
      BY <3>2 DEF Sees, OwnershipsStay
    <3>4. dirty.unit_ownerships[r] \in OwnershipRow
      BY <3>2, <3>3, RowTypes
    <3>5. row \in OwnershipRow
      BY <3>4 DEF OwnershipRow
    <3> HIDE DEF row
    <3> QED BY <3>1, <3>2, <3>5
  <2>2. CASE CreateOwnership(t)
    <3> DEFINE row == [party |-> req[t].to, share |-> req[t].share,
                       active |-> TRUE, open |-> TRUE]
    <3>1. PICK r \in NewRow("unit_ownerships", req[t].contract) :
            Write(t, "unit_ownerships", r, row)
      BY <2>2 DEF CreateOwnership
    <3>2. req[t].to \in Parties /\ req[t].share \in 1..100 /\ req[t].contract \in Contracts
      BY <1>1 DEF Completes, Completion
    <3>3. row \in OwnershipRow /\ r \in RowIds
      BY <3>1, <3>2, NewRowIsFree DEF OwnershipRow
    <3> HIDE DEF row
    <3> QED BY <3>1, <3>3
  <2> QED BY <2>1, <2>2
<1>3. PICK r \in RowIds, row \in OwnershipRow : Write(t, "unit_ownerships", r, row)
  BY <1>2
<1>4. row \in RowType["unit_ownerships"] /\ "unit_ownerships" \in TableName
  BY DEF RowType, TableName
<1>5. WritesRow(t, "unit_ownerships", r, row)
      /\ TablesTyped(Rows, RowType)' /\ DirtyIsCommitted'
  BY <1>3, <1>4, Writing, TableRows
<1> QED BY <1>1, <1>5 DEF ChangesOwnership

\* The transaction commits or is rolled back.
LEMMA EndEffect ==
  ASSUME Typed, NEW t \in Tx, Commit(t) \/ Rollback(t)
  PROVE  Ends(t) /\ TablesTyped(Rows, RowType)' /\ DirtyIsCommitted'
<1> USE DEF Typed
<1>1. /\ (CommitTx(t) /\ pc[t] = "commit") \/ RollbackTx(t)
      /\ pc[t] # "idle"
      /\ Goto(t, "idle") /\ req' = [req EXCEPT ![t] = Nil]
  BY DEF Commit, Rollback, At
<1>2. pc'[t] = "idle" /\ req'[t] = Nil /\ OthersStay(t)
  BY <1>1, Requesting
<1>3. /\ \A tab \in DOMAIN Rows : \A id \in Rows[tab] : RowReleased(t, tab, id)
      /\ TablesTyped(Rows, RowType)' /\ DirtyIsCommitted'
  BY <1>1, TypedEnd
<1> QED BY <1>1, <1>2, <1>3, TableRows DEF Ends

\* Every step of a transaction.
LEMMA StepEffect ==
  ASSUME Typed, NEW t \in Tx, Remembers(t), LocksSound(t), Start(t) \/ Step(t)
  PROVE  Does(t) /\ TablesTyped(Rows, RowType)' /\ DirtyIsCommitted'
BY StartEffect, InsertTransferEffect, ClosePartyEffect, OpenPartyEffect, SetBuyerEffect,
   FindOwnershipEffect, ChangeOwnershipEffect, CompleteTransferEffect, EndEffect
   DEF Step, Does

\* And every step of a client.
LEMMA ClientEffect ==
  ASSUME Typed, Others
  PROVE  ByClient /\ TablesTyped(Rows, RowType)' /\ DirtyIsCommitted'
<1> USE DEF Typed
<1>1. ASSUME NEW c \in Contracts, NEW from, NEW to \in {"active", "ended"},
             ChangeContractStatus(c, from, to)
      PROVE  ByClient /\ TablesTyped(Rows, RowType)' /\ DirtyIsCommitted'
  <2> DEFINE row == [Con(c) EXCEPT !.status = to]
  <2>1. WriteAndCommit("sales_contracts", c, row) /\ pc' = pc /\ req' = req
    BY <1>1 DEF ChangeContractStatus, Con
  <2>2. row \in ContractRow /\ row.buyer = Con(c).buyer
    BY RowTypes DEF ContractRow
  <2>3. row \in RowType["sales_contracts"] /\ "sales_contracts" \in TableName
    BY <2>2 DEF RowType, TableName
  <2> HIDE DEF row
  <2>4. ReplacesRow("sales_contracts", c, row)
        /\ TablesTyped(Rows, RowType)' /\ DirtyIsCommitted'
    BY <2>1, <2>3, ReplacingByClient, TableRows
  <2> QED BY <2>1, <2>2, <2>4 DEF ByClient
<1>2. ASSUME NEW r \in RowIds, NEW row \in OwnershipRow,
             WriteAndCommit("unit_ownerships", r, row), pc' = pc, req' = req
      PROVE  ByClient /\ TablesTyped(Rows, RowType)' /\ DirtyIsCommitted'
  <2>1. row \in RowType["unit_ownerships"] /\ "unit_ownerships" \in TableName
    BY DEF RowType, TableName
  <2>2. ReplacesRow("unit_ownerships", r, row)
        /\ TablesTyped(Rows, RowType)' /\ DirtyIsCommitted'
    BY <1>2, <2>1, ReplacingByClient, TableRows
  <2> QED BY <1>2, <2>2 DEF ByClient
<1>3. ASSUME NEW c \in Contracts, NEW p \in Parties, NEW s \in Shares,
             NEW a \in BOOLEAN, NEW o \in BOOLEAN, CreateUnitOwnership(c, p, s, a, o)
      PROVE  ByClient /\ TablesTyped(Rows, RowType)' /\ DirtyIsCommitted'
  <2> DEFINE row == [party |-> p, share |-> s, active |-> a, open |-> o]
  <2>1. PICK r \in NewRow("unit_ownerships", c) :
          WriteAndCommit("unit_ownerships", r, row) /\ pc' = pc /\ req' = req
    BY <1>3 DEF CreateUnitOwnership
  <2>2. row \in OwnershipRow /\ r \in RowIds
    BY NewRowIsFree, TransferAssumption DEF OwnershipRow
  <2> HIDE DEF row
  <2> QED BY <1>2, <2>1, <2>2
<1>4. ASSUME NEW r \in RowIds, CloseUnitOwnership(r)
      PROVE  ByClient /\ TablesTyped(Rows, RowType)' /\ DirtyIsCommitted'
  <2> DEFINE row == [db.unit_ownerships[r] EXCEPT !.active = FALSE, !.open = FALSE]
  <2>1. /\ db.unit_ownerships[r] # Nil
        /\ WriteAndCommit("unit_ownerships", r, row) /\ pc' = pc /\ req' = req
    BY <1>4 DEF CloseUnitOwnership
  <2>2. db.unit_ownerships[r] \in OwnershipRow
    BY <2>1, RowTypes
  <2>3. row \in OwnershipRow
    BY <2>2 DEF OwnershipRow
  <2> HIDE DEF row
  <2> QED BY <1>2, <2>1, <2>3
<1>5. ASSUME NEW f \in Transfers, NEW s \in ApprovalStatus, DecideApproval(f, s)
      PROVE  ByClient /\ TablesTyped(Rows, RowType)' /\ DirtyIsCommitted'
  <2>1. /\ Approval(f) = "pending" /\ pc' = pc /\ req' = req
        /\ WriteAndCommit("approval_requests", f, s)
    BY <1>5 DEF DecideApproval, Approval
  <2>2. s \in RowType["approval_requests"] /\ "approval_requests" \in TableName
    BY DEF RowType, TableName
  <2>3. ReplacesRow("approval_requests", f, s)
        /\ TablesTyped(Rows, RowType)' /\ DirtyIsCommitted'
    BY <2>1, <2>2, ReplacingByClient, TableRows
  <2> QED BY <2>1, <2>3 DEF ByClient
<1> QED BY <1>1, <1>3, <1>4, <1>5 DEF Others

-----------------------------------------------------------------------------
(***************************************************************************)
(* What a step leaves to the others: the rows they have locked.            *)
(***************************************************************************)
Touches(t, tab, id) ==
  \/ RowStays(tab, id)
  \/ Ends(t) /\ RowReleased(t, tab, id)
  \/ \E row : RowWritten(t, tab, id, row)

Undisturbed(x) ==
  \A tab \in TableName : \A id \in Rows[tab] :
    /\ owner[tab][id] = x => RowStays(tab, id)
    /\ owner'[tab][id] = x => owner[tab][id] = x

\* A transaction touches rows as a statement or the end of it does.
LEMMA RowsTouched ==
  ASSUME NEW t \in Tx, Does(t), NEW tab \in TableName, NEW id \in Rows[tab]
  PROVE  Touches(t, tab, id)
<1>1. ASSUME NEW x \in TableName, NEW i \in Rows[x], NEW row, WritesRow(t, x, i, row)
      PROVE  Touches(t, tab, id)
  BY <1>1, TableRows DEF WritesRow, RowsStayBut, Touches
<1>2. UNCHANGED storage => Touches(t, tab, id)
  BY DEF storage, Touches, RowStays
<1>3. CASE InsertsTransfer(t)
  <2>1. PICK f \in Transfers :
          /\ \E row : RowWritten(t, "ownership_transfers", f, row)
          /\ \E row : RowWritten(t, "approval_requests", f, row)
          /\ \A g \in Transfers \ {f} : /\ RowStays("ownership_transfers", g)
                                        /\ RowStays("approval_requests", g)
          /\ \A c \in Contracts : RowStays("sales_contracts", c)
          /\ \A r \in RowIds : /\ RowStays("sales_contract_parties", r)
                               /\ RowStays("unit_ownerships", r)
    BY <1>3 DEF InsertsTransfer
  <2> QED BY <2>1, TableRows DEF TableName, Touches
<1>4. CASE ClosesParty(t) \/ OpensParty(t) \/ SetsBuyer(t) \/ ChangesOwnership(t)
           \/ CompletesTransfer(t)
  <2>1. \E x \in TableName : \E i \in Rows[x] : \E row : WritesRow(t, x, i, row)
    BY <1>4, TableRows DEF ClosesParty, OpensParty, SetsBuyer, ChangesOwnership,
         CompletesTransfer, TableName, Completes, Completion
  <2> QED BY <1>1, <2>1
<1>5. CASE Starts(t) \/ FindsOwnership(t)
  BY <1>2, <1>5 DEF Starts, FindsOwnership
<1>6. CASE Ends(t)
  BY <1>6 DEF Ends, Touches
<1> QED BY <1>3, <1>4, <1>5, <1>6 DEF Does

\* So a transaction leaves the rows another one has locked, and locks none for it.
LEMMA OthersUndisturbed ==
  ASSUME NEW t \in Tx, Does(t), NEW x \in Tx \ {t}
  PROVE  Undisturbed(x)
<1> SUFFICES ASSUME NEW tab \in TableName, NEW id \in Rows[tab]
             PROVE  /\ owner[tab][id] = x => RowStays(tab, id)
                    /\ owner'[tab][id] = x => owner[tab][id] = x
  BY DEF Undisturbed
<1>1. Touches(t, tab, id) /\ x # t /\ x # Nil
  BY RowsTouched, NilAssumption
<1> QED BY <1>1 DEF Touches, RowStays, RowReleased, RowWritten

\* And so does a client, whose UPDATE waits for a locked row.
LEMMA ClientDisturbsNobody ==
  ASSUME ByClient, NEW x \in Tx
  PROVE  Undisturbed(x)
<1>1. PICK u \in TableName : \E i \in Rows[u] : \E row : ReplacesRow(u, i, row)
  BY TableRows DEF ByClient, TableName
<1>2. PICK i \in Rows[u] : \E row : ReplacesRow(u, i, row)
  BY <1>1
<1>3. ASSUME NEW tab \in TableName, NEW id \in Rows[tab]
      PROVE  RowStays(tab, id) \/ \E row : RowReplaced(tab, id, row)
  BY <1>2, TableRows DEF ReplacesRow, RowsStayBut
<1> QED BY <1>3, NilAssumption DEF Undisturbed, RowStays, RowReplaced

\* What others have locked stays as it is.
LEMMA LockedRows ==
  ASSUME NEW x, Undisturbed(x)
  PROVE  /\ \A c \in Contracts :
              /\ ConLocker(c) = x => ConLocker(c)' = x /\ NewCon(c)' = NewCon(c)
              /\ ConLocker(c)' = x => ConLocker(c) = x
         /\ \A r \in RowIds :
              /\ PartyLocker(r) = x => /\ PartyLocker(r)' = x /\ Party(r)' = Party(r)
                                       /\ NewParty(r)' = NewParty(r)
              /\ PartyLocker(r)' = x => PartyLocker(r) = x
         /\ \A f \in Transfers :
              /\ TransferLocker(f) = x => /\ TransferLocker(f)' = x
                                          /\ Transfer(f)' = Transfer(f)
                                          /\ NewTransfer(f)' = NewTransfer(f)
              /\ TransferLocker(f)' = x => TransferLocker(f) = x
              /\ ApprovalLocker(f)' = x => ApprovalLocker(f) = x
         /\ \A r \in RowIds :
              /\ owner.unit_ownerships[r] = x => RowStays("unit_ownerships", r)
              /\ owner'.unit_ownerships[r] = x => owner.unit_ownerships[r] = x
BY TableRows DEF Undisturbed, RowStays, TableName, ConLocker, NewCon, PartyLocker, Party,
   NewParty, TransferLocker, Transfer, NewTransfer, ApprovalLocker

\* What is said of a transaction's locks stays true when others take a step.
LEMMA LocksStaySound ==
  ASSUME ControlTypeOK, NEW x \in Tx, LocksSound(x), Undisturbed(x),
         pc'[x] = pc[x], req'[x] = req[x]
  PROVE  LocksSound(x)'
<1>0. /\ Completes(x)' <=> Completes(x)
      /\ Replacing(x)' <=> Replacing(x)
      /\ Completes(x) => /\ req[x].row \in RowIds /\ req[x].contract \in Contracts
                         /\ req[x].transfer \in Transfers
      /\ Replacing(x) => Completes(x)
  BY DEF Completes, Replacing, Completion
<1>1. PartyLocks(x)'
  <2>1. ASSUME Replacing(x) PROVE Closes(x)'
    BY <1>0, <2>1, LockedRows DEF LocksSound, PartyLocks, Closes
  <2>2. ASSUME Replacing(x), pc[x] \in PastInsert
        PROVE  \E r \in RowIds :
                 /\ Opens(x, r)'
                 /\ \A s \in RowIds : PartyLocker(s)' = x => s \in {req[x].row, r}
    <3>1. PICK r \in RowIds :
            Opens(x, r) /\ \A s \in RowIds : PartyLocker(s) = x => s \in {req[x].row, r}
      BY <2>2 DEF LocksSound, PartyLocks
    <3>2. Opens(x, r)'
      BY <3>1, LockedRows DEF Opens
    <3> QED BY <3>1, <3>2, LockedRows
  <2>3. \A r \in RowIds : PartyLocker(r)' = x =>
          Replacing(x) /\ (pc[x] = "insert_party" => r = req[x].row)
    BY LockedRows DEF LocksSound, PartyLocks
  <2> QED BY <1>0, <2>1, <2>2, <2>3 DEF PartyLocks
<1>2. ContractLocks(x)'
  BY <1>0, LockedRows DEF LocksSound, ContractLocks
<1>3. TransferLocks(x)'
  BY <1>0, LockedRows DEF LocksSound, TransferLocks
<1>4. ApprovalLocks(x)'
  BY LockedRows DEF LocksSound, ApprovalLocks
<1> QED BY <1>1, <1>2, <1>3, <1>4 DEF LocksSound

-----------------------------------------------------------------------------
(***************************************************************************)
(* What is committed.  Of all steps, only the commit of a completion       *)
(* changes a buyer, the rows of the buyers, or a transfer already made.    *)
(***************************************************************************)
BooksStay ==
  /\ \A c \in Contracts : BuyerOf(c)' = BuyerOf(c)
  /\ \A r \in RowIds : Party(r)' = Party(r)
  /\ \A f \in Transfers : Transfer(f) # Nil =>
       /\ Transfer(f)' = Transfer(f)
       /\ Approval(f) = "approved" => Approval(f)' = "approved"

\* The commit of the completion q, which opens the row r.
Replaces(q, r) ==
  /\ r[1] = q.contract
  /\ Party(q.row) = [party |-> q.from, open |-> TRUE]
  /\ Party(q.row)' = [party |-> q.from, open |-> FALSE]
  /\ Party(r) = Nil /\ Party(r)' = [party |-> q.to, open |-> TRUE]
  /\ \A s \in RowIds \ {q.row, r} : Party(s)' = Party(s)
  /\ BuyerOf(q.contract)' = q.to
  /\ \A c \in Contracts \ {q.contract} : BuyerOf(c)' = BuyerOf(c)
  /\ Transfer(q.transfer)' = [Transfer(q.transfer) EXCEPT !.status = "completed"]
  /\ \A f \in Transfers : Transfer(f) # Nil =>
       /\ f # q.transfer => Transfer(f)' = Transfer(f)
       /\ Approval(f)' = Approval(f)

\* What a commit makes of each row.
LEMMA CommittedRows ==
  ASSUME TablesTyped(Rows, RowType), NEW t \in Tx, CommitTx(t)
  PROVE  /\ \A c \in Contracts : Con(c)' = IF ConLocker(c) = t THEN NewCon(c) ELSE Con(c)
         /\ \A r \in RowIds :
              Party(r)' = IF PartyLocker(r) = t THEN NewParty(r) ELSE Party(r)
         /\ \A f \in Transfers :
              /\ Transfer(f)' = IF TransferLocker(f) = t THEN NewTransfer(f)
                                                        ELSE Transfer(f)
              /\ ApprovalLocker(f) # t => Approval(f)' = Approval(f)
<1>1. ASSUME NEW tab \in TableName, NEW id \in Rows[tab]
      PROVE  db'[tab][id] = IF owner[tab][id] = t THEN dirty[tab][id] ELSE db[tab][id]
  <2>1. /\ Tabular /\ DOMAIN db = TableName
        /\ \A x \in TableName : DOMAIN db[x] = Rows[x]
    BY TypedTabular, TableRows
  <2> QED BY <2>1, EndChanges
<1> QED BY <1>1, TableRows DEF TableName, Con, ConLocker, NewCon, Party, PartyLocker,
           NewParty, Transfer, TransferLocker, NewTransfer, Approval, ApprovalLocker

\* A completion that commits replaces the buyer as its request says.
LEMMA CommitReplaces ==
  ASSUME Typed, NEW t \in Tx, Remembers(t), LocksSound(t), CommitTx(t), pc[t] = "commit",
         Completes(t)
  PROVE  \E q \in Completion, r \in RowIds : q = req[t] /\ Replaces(q, r)
<1>0. PICK q \in Completion : q = req[t]
  BY DEF Completes
<1>1. /\ q.row \in RowIds /\ q.contract \in Contracts /\ q.from \in Parties
      /\ q.to \in Parties /\ q.transfer \in Transfers
      /\ q.row[1] = q.contract
  BY <1>0 DEF Completes, Completion, Typed, RequestOK
<1>2. Replacing(t) /\ pc[t] \in PastInsert /\ pc[t] \in PastBuyer
  BY DEF Replacing, PastClose, PastInsert, PastBuyer
<1>3. PICK r \in RowIds :
        Opens(t, r) /\ \A s \in RowIds : PartyLocker(s) = t => s \in {q.row, r}
  BY <1>0, <1>2 DEF LocksSound, PartyLocks
<1>4. Closes(t)
  BY <1>2 DEF LocksSound, PartyLocks
<1>5. /\ \A c \in Contracts : Con(c)' = IF ConLocker(c) = t THEN NewCon(c) ELSE Con(c)
      /\ \A s \in RowIds : Party(s)' = IF PartyLocker(s) = t THEN NewParty(s) ELSE Party(s)
      /\ \A f \in Transfers :
           /\ Transfer(f)' = IF TransferLocker(f) = t THEN NewTransfer(f) ELSE Transfer(f)
           /\ ApprovalLocker(f) # t => Approval(f)' = Approval(f)
  BY CommittedRows DEF Typed
<1>6. /\ Party(q.row) = [party |-> q.from, open |-> TRUE]
      /\ Party(q.row)' = [party |-> q.from, open |-> FALSE]
  BY <1>0, <1>1, <1>4, <1>5 DEF Closes
<1>7. /\ r[1] = q.contract /\ Party(r) = Nil
      /\ Party(r)' = [party |-> q.to, open |-> TRUE]
      /\ \A s \in RowIds \ {q.row, r} : Party(s)' = Party(s)
  BY <1>0, <1>3, <1>5 DEF Opens
<1>8. \A c \in Contracts :
        BuyerOf(c)' = IF c = q.contract THEN q.to ELSE BuyerOf(c)
  <2>1. ConLocker(q.contract) = t
    BY <1>0, <1>2 DEF LocksSound, ContractLocks
  <2>2. \A c \in Contracts : ConLocker(c) = t => c = q.contract /\ NewCon(c).buyer = q.to
    BY <1>0 DEF LocksSound, ContractLocks
  <2> QED BY <1>1, <1>5, <2>1, <2>2 DEF BuyerOf, Con
<1>9. /\ TransferLocker(q.transfer) = t
      /\ \A f \in Transfers : TransferLocker(f) = t =>
           /\ f = q.transfer
           /\ NewTransfer(f) = [Transfer(f) EXCEPT !.status = "completed"]
  BY <1>0 DEF LocksSound, TransferLocks
<1>10. /\ Transfer(q.transfer)' = [Transfer(q.transfer) EXCEPT !.status = "completed"]
       /\ \A f \in Transfers : f # q.transfer => Transfer(f)' = Transfer(f)
  BY <1>1, <1>5, <1>9
<1>11. \A f \in Transfers : Transfer(f) # Nil => Approval(f)' = Approval(f)
  BY <1>5 DEF LocksSound, ApprovalLocks
<1> QED BY <1>0, <1>1, <1>6, <1>7, <1>8, <1>10, <1>11 DEF Replaces

\* Another commit inserts a transfer at most.
LEMMA OtherCommits ==
  ASSUME Typed, NEW t \in Tx, LocksSound(t), CommitTx(t), ~Completes(t)
  PROVE  BooksStay
<1>1. /\ \A c \in Contracts : ConLocker(c) # t
      /\ \A r \in RowIds : PartyLocker(r) # t
      /\ \A f \in Transfers :
           TransferLocker(f) = t \/ ApprovalLocker(f) = t => Transfer(f) = Nil
  BY DEF LocksSound, ContractLocks, PartyLocks, TransferLocks, ApprovalLocks, Replacing
<1>2. /\ \A c \in Contracts : Con(c)' = IF ConLocker(c) = t THEN NewCon(c) ELSE Con(c)
      /\ \A s \in RowIds : Party(s)' = IF PartyLocker(s) = t THEN NewParty(s) ELSE Party(s)
      /\ \A f \in Transfers :
           /\ Transfer(f)' = IF TransferLocker(f) = t THEN NewTransfer(f) ELSE Transfer(f)
           /\ ApprovalLocker(f) # t => Approval(f)' = Approval(f)
  BY CommittedRows DEF Typed
<1> QED BY <1>1, <1>2 DEF BooksStay, BuyerOf, Con

\* What clients do by hand.
LEMMA ClientKeepsBooks ==
  ASSUME Typed, ByClient
  PROVE  BooksStay
<1>1. \A u, tab, i, id : (\E row : ReplacesRow(u, i, row)) /\ u \in TableName
         /\ tab \in TableName /\ id \in Rows[tab] /\ (u # tab \/ i # id)
         => db'[tab][id] = db[tab][id]
  BY TableRows DEF ReplacesRow, RowsStayBut, RowStays
<1>2. CASE \E c \in Contracts : \E row \in ContractRow :
             row.buyer = Con(c).buyer /\ ReplacesRow("sales_contracts", c, row)
  <2>1. PICK c \in Contracts, row \in ContractRow :
             row.buyer = Con(c).buyer /\ ReplacesRow("sales_contracts", c, row)
    BY <1>2
  <2>2. Con(c)' = row /\ \A d \in Contracts \ {c} : Con(d)' = Con(d)
    BY <1>1, <2>1, TableRows DEF TableName, Con, ReplacesRow, RowReplaced
  <2>3. \A r \in RowIds : Party(r)' = Party(r)
    BY <1>1, <2>1, TableRows DEF TableName, Party
  <2>4. \A f \in Transfers : Transfer(f)' = Transfer(f) /\ Approval(f)' = Approval(f)
    BY <1>1, <2>1, TableRows DEF TableName, Transfer, Approval
  <2> QED BY <2>1, <2>2, <2>3, <2>4 DEF BooksStay, BuyerOf, Con
<1>3. CASE \E r \in RowIds : \E row \in OwnershipRow :
             ReplacesRow("unit_ownerships", r, row)
  <2>1. \A c \in Contracts : Con(c)' = Con(c)
    BY <1>1, <1>3, TableRows DEF TableName, Con
  <2>2. \A r \in RowIds : Party(r)' = Party(r)
    BY <1>1, <1>3, TableRows DEF TableName, Party
  <2>3. \A f \in Transfers : Transfer(f)' = Transfer(f) /\ Approval(f)' = Approval(f)
    BY <1>1, <1>3, TableRows DEF TableName, Transfer, Approval
  <2> QED BY <2>1, <2>2, <2>3 DEF BooksStay, BuyerOf, Con
<1>4. CASE \E f \in Transfers : \E s \in ApprovalStatus :
             Approval(f) = "pending" /\ ReplacesRow("approval_requests", f, s)
  <2>1. \A c \in Contracts : Con(c)' = Con(c)
    BY <1>1, <1>4, TableRows DEF TableName, Con
  <2>2. \A r \in RowIds : Party(r)' = Party(r)
    BY <1>1, <1>4, TableRows DEF TableName, Party
  <2>3. \A f \in Transfers : Transfer(f)' = Transfer(f)
    BY <1>1, <1>4, TableRows DEF TableName, Transfer
  <2>4. \A f \in Transfers : Approval(f)' = Approval(f) \/ Approval(f) = "pending"
    BY <1>1, <1>4, TableRows DEF TableName, Approval
  <2> QED BY <2>1, <2>2, <2>3, <2>4 DEF BooksStay, BuyerOf, Con
<1> QED BY <1>2, <1>3, <1>4 DEF ByClient

\* A step that is not the commit of a completion leaves the books as they are.
LEMMA BooksChangeByCompletion ==
  ASSUME Typed, NEW t \in Tx, Remembers(t), LocksSound(t), Does(t)
  PROVE  \/ BooksStay
         \/ /\ Completes(t) /\ Ends(t)
            /\ \E q \in Completion, r \in RowIds : q = req[t] /\ Replaces(q, r)
<1>1. CASE \A tab \in TableName : \A id \in Rows[tab] : db'[tab][id] = db[tab][id]
  BY <1>1, TableRows DEF BooksStay, TableName, BuyerOf, Party, Transfer, Approval
<1>2. CASE Ends(t) /\ CommitTx(t) /\ pc[t] = "commit"
  BY <1>2, CommitReplaces, OtherCommits
<1>3. CASE Ends(t) /\ RollbackTx(t)
  BY <1>1, <1>3 DEF RollbackTx
<1>4. CASE ~Ends(t)
  BY <1>1, <1>4, RowsTouched DEF Touches, RowStays, RowWritten
<1> QED BY <1>2, <1>3, <1>4 DEF Ends

\* While the books stay, every contract keeps its open row.
LEMMA OneOpenStays ==
  ASSUME OneOpen, BooksStay
  PROVE  OneOpen'
<1> SUFFICES ASSUME NEW c \in Contracts PROVE \E r \in RowIds : IsOpenRow(r, c)'
  BY DEF OneOpen
<1>1. PICK r \in RowIds : IsOpenRow(r, c)
  BY DEF OneOpen
<1>2. IsOpenRow(r, c)'
  BY <1>1 DEF IsOpenRow, BooksStay
<1> QED BY <1>2

\* The only open row of its contract is the one a completion closes.
LEMMA ClosedRowIsTheOpenOne ==
  ASSUME OneOpen, NEW q \in Completion, NEW r \in RowIds, Replaces(q, r),
         q.row[1] = q.contract
  PROVE  IsOpenRow(q.row, q.contract) /\ BuyerOf(q.contract) = q.from
<1>1. q.row \in RowIds /\ q.contract \in Contracts
  BY DEF Completion
<1>2. PICK o \in RowIds : IsOpenRow(o, q.contract)
  BY <1>1 DEF OneOpen
<1>3. Party(q.row) # Nil /\ Party(q.row).open
  <2>1. Party(q.row) = [party |-> q.from, open |-> TRUE]
    BY DEF Replaces
  <2>2. Party(q.row) \in PartyRow
    BY <2>1 DEF PartyRow, Completion
  <2>3. [party |-> q.from, open |-> TRUE].open
    OBVIOUS
  <2>4. Party(q.row).open
    BY <2>1, <2>3, Zenon
  <2> QED BY <2>2, <2>4, NilIsNoRow
<1>4. o = q.row
  BY <1>1, <1>2, <1>3 DEF IsOpenRow
<1>5. Party(q.row) = [party |-> BuyerOf(q.contract), open |-> TRUE]
      /\ Party(q.row) = [party |-> q.from, open |-> TRUE]
  BY <1>2, <1>4 DEF IsOpenRow, Replaces
<1>6. BuyerOf(q.contract) = q.from
  <2>1. \A a, b : [party |-> a, open |-> TRUE] = [party |-> b, open |-> TRUE] => a = b
    <3> SUFFICES ASSUME NEW a, NEW b,
                        [party |-> a, open |-> TRUE] = [party |-> b, open |-> TRUE]
                 PROVE  a = b
      OBVIOUS
    <3>1. [party |-> a, open |-> TRUE].party = [party |-> b, open |-> TRUE].party
      OBVIOUS
    <3> QED BY <3>1
  <2> QED BY <1>5, <2>1
<1> QED BY <1>2, <1>4, <1>6

\* Completing a transfer leaves each contract one open row.
LEMMA OneOpenAfterReplacing ==
  ASSUME OneOpen, NEW q \in Completion, NEW r \in RowIds, Replaces(q, r),
         q.row[1] = q.contract
  PROVE  OneOpen'
<1> SUFFICES ASSUME NEW c \in Contracts PROVE \E o \in RowIds : IsOpenRow(o, c)'
  BY DEF OneOpen
<1>1. q.row \in RowIds /\ q.row[1] = q.contract /\ r[1] = q.contract
  BY DEF Completion, Replaces
<1>2. CASE c = q.contract
  <2>1. Party(r)' = [party |-> BuyerOf(c)', open |-> TRUE]
    BY <1>2 DEF Replaces
  <2>2. ASSUME NEW s \in RowIds, s[1] = c, Party(s)' # Nil, Party(s)'.open
        PROVE  s = r
    <3>1. CASE s = q.row
      <4>1. Party(s)' = [party |-> q.from, open |-> FALSE]
        BY <3>1 DEF Replaces
      <4>2. ~[party |-> q.from, open |-> FALSE].open
        OBVIOUS
      <4>3. ~Party(s)'.open
        BY <4>1, <4>2, Zenon
      <4> QED BY <2>2, <4>3
    <3>2. CASE s # q.row /\ s # r
      <4>1. Party(s)' = Party(s)
        BY <3>2 DEF Replaces
      <4>2. Party(s) # Nil /\ Party(s).open
        BY <2>2, <4>1
      <4>3. s = q.row
        BY <1>2, <2>2, <4>2, ClosedRowIsTheOpenOne DEF IsOpenRow
      <4> QED BY <3>2, <4>3
    <3> QED BY <3>1, <3>2
  <2>3. IsOpenRow(r, c)'
    BY <1>1, <1>2, <2>1, <2>2 DEF IsOpenRow
  <2> QED BY <2>3
<1>3. CASE c # q.contract
  <2>1. PICK o \in RowIds : IsOpenRow(o, c)
    BY DEF OneOpen
  <2>2. BuyerOf(c)' = BuyerOf(c) /\ \A s \in RowIds : s[1] = c => Party(s)' = Party(s)
    BY <1>1, <1>3 DEF Replaces
  <2>3. IsOpenRow(o, c)'
    BY <2>1, <2>2 DEF IsOpenRow
  <2> QED BY <2>3
<1> QED BY <1>2, <1>3

\* A completion changes the buyer as TransferredByApproval says.
LEMMA ReplacesByApproval ==
  ASSUME Typed, OneOpen, NEW t \in Tx, Remembers(t), Completes(t),
         NEW q \in Completion, q = req[t],
         NEW r \in RowIds, Replaces(q, r)
  PROVE  /\ Transfer(q.transfer) =
              [status |-> "pending", contract |-> q.contract,
               from |-> BuyerOf(q.contract), to |-> BuyerOf(q.contract)']
         /\ Transfer(q.transfer)'.status = "completed"
         /\ Approval(q.transfer) = "approved"
<1>1. q.row[1] = q.contract
  BY DEF Typed, RequestOK, Completes
<1>2. BuyerOf(q.contract) = q.from /\ BuyerOf(q.contract)' = q.to
  BY <1>1, ClosedRowIsTheOpenOne DEF Replaces
<1>3. /\ Transfer(q.transfer) \in [status : {"pending", "completed"},
              contract : {q.contract}, from : {q.from}, to : {q.to}]
      /\ Approval(q.transfer) = "approved"
      /\ Transfer(q.transfer).status = "completed" => ~Party(q.row).open
  BY DEF Remembers, Completes
<1>4. Transfer(q.transfer).status = "pending"
  <2>1. Party(q.row) = [party |-> q.from, open |-> TRUE]
    BY DEF Replaces
  <2>2. [party |-> q.from, open |-> TRUE].open
    OBVIOUS
  <2>3. Party(q.row).open
    BY <2>1, <2>2, Zenon
  <2> QED BY <1>3, <2>3
<1>5. Transfer(q.transfer) =
        [status |-> "pending", contract |-> q.contract, from |-> q.from, to |-> q.to]
  BY <1>3, <1>4
<1>6. Transfer(q.transfer)'.status = "completed"
  BY <1>3 DEF Replaces
<1> QED BY <1>2, <1>3, <1>5, <1>6

\* What a transaction remembers stays true while the books stay.
LEMMA RemembersStays ==
  ASSUME BooksStay, NEW x \in Tx, Remembers(x), NEW q \in Completion, req'[x] = q,
         Completes(x),
         /\ req[x].transfer = q.transfer /\ req[x].contract = q.contract
         /\ req[x].from = q.from /\ req[x].to = q.to /\ req[x].row = q.row
  PROVE  Remembers(x)'
<1>1. /\ Party(q.row) # Nil /\ Party(q.row).party = q.from
      /\ Transfer(q.transfer) \in
           [status : {"pending", "completed"}, contract : {q.contract},
            from : {q.from}, to : {q.to}]
      /\ Approval(q.transfer) = "approved"
      /\ Transfer(q.transfer).status = "completed" => ~Party(q.row).open
  BY DEF Remembers
<1>2. /\ q.row \in RowIds /\ q.transfer \in Transfers
      /\ Transfer(q.transfer) # Nil
  <2>1. /\ q.row \in RowIds /\ q.transfer \in Transfers /\ q.contract \in Contracts
        /\ q.from \in Parties /\ q.to \in Parties
    BY DEF Completion
  <2>2. Transfer(q.transfer) \in TransferRow
    BY <1>1, <2>1 DEF TransferRow
  <2> QED BY <2>1, <2>2, NilIsNoRow
<1>3. /\ Party(q.row)' = Party(q.row) /\ Transfer(q.transfer)' = Transfer(q.transfer)
      /\ Approval(q.transfer)' = "approved"
  BY <1>1, <1>2 DEF BooksStay
<1> QED BY <1>1, <1>3 DEF Remembers

\* And when another transaction completes its transfer, if it is the same too.
LEMMA RemembersAfterReplacing ==
  ASSUME Typed, OneOpen, NEW t \in Tx, Remembers(t), Completes(t),
         NEW p \in Completion, p = req[t], NEW r \in RowIds, Replaces(p, r),
         NEW x \in Tx \ {t}, Remembers(x), Completes(x),
         NEW q \in Completion, req[x] = q, req'[x] = q
  PROVE  Remembers(x)'
<1>1. /\ Party(q.row) # Nil /\ Party(q.row).party = q.from
      /\ Transfer(q.transfer) \in
           [status : {"pending", "completed"}, contract : {q.contract},
            from : {q.from}, to : {q.to}]
      /\ Approval(q.transfer) = "approved"
      /\ Transfer(q.transfer).status = "completed" => ~Party(q.row).open
  BY DEF Remembers, Completes
<1>2. /\ q.row \in RowIds /\ q.transfer \in Transfers
      /\ q.row[1] = q.contract /\ p.row[1] = p.contract
      /\ Transfer(q.transfer) # Nil
  <2>1. /\ q.row \in RowIds /\ q.transfer \in Transfers /\ q.contract \in Contracts
        /\ q.from \in Parties /\ q.to \in Parties
    BY DEF Completion
  <2>2. Transfer(q.transfer) \in TransferRow
    BY <1>1, <2>1 DEF TransferRow
  <2>3. q.row[1] = q.contract /\ p.row[1] = p.contract
    BY DEF Typed, RequestOK, Completes
  <2> QED BY <2>1, <2>2, <2>3, NilIsNoRow
<1>3. Approval(q.transfer)' = "approved"
  BY <1>1, <1>2 DEF Replaces
<1>4. /\ Party(q.row)' # Nil /\ Party(q.row)'.party = q.from
      /\ Party(q.row)' = Party(q.row) \/ ~Party(q.row)'.open
  <2>1. CASE q.row = p.row
    <3>1. /\ Party(q.row) = [party |-> p.from, open |-> TRUE]
          /\ Party(q.row)' = [party |-> p.from, open |-> FALSE]
      BY <2>1 DEF Replaces
    <3>2. p.from = q.from
      <4>1. [party |-> p.from, open |-> TRUE].party = p.from
        OBVIOUS
      <4> QED BY <1>1, <3>1, <4>1, Zenon
    <3>3. /\ [party |-> p.from, open |-> FALSE] \in PartyRow
          /\ [party |-> p.from, open |-> FALSE].party = p.from
          /\ ~[party |-> p.from, open |-> FALSE].open
      BY DEF PartyRow, Completion
    <3>4. [party |-> p.from, open |-> FALSE] # Nil
      BY <3>3, NilIsNoRow
    <3> QED BY <3>1, <3>2, <3>3, <3>4, Zenon
  <2>2. CASE q.row # p.row
    <3>1. q.row # r
      BY <1>1 DEF Replaces
    <3>2. Party(q.row)' = Party(q.row)
      BY <1>2, <2>2, <3>1 DEF Replaces
    <3> QED BY <1>1, <3>2
  <2> QED BY <2>1, <2>2
<1>5. /\ Transfer(q.transfer)' \in
           [status : {"pending", "completed"}, contract : {q.contract},
            from : {q.from}, to : {q.to}]
      /\ Transfer(q.transfer)'.status = "completed" => ~Party(q.row)'.open
  <2>1. CASE q.transfer # p.transfer
    <3>1. Transfer(q.transfer)' = Transfer(q.transfer)
      BY <1>2, <2>1 DEF Replaces
    <3> QED BY <1>1, <1>4, <3>1
  <2>2. CASE q.transfer = p.transfer
    <3>1. Transfer(q.transfer)' = [Transfer(q.transfer) EXCEPT !.status = "completed"]
      BY <2>2 DEF Replaces
    <3>2. q.contract = p.contract
      <4>1. Transfer(p.transfer) \in
              [status : {"pending", "completed"}, contract : {p.contract},
               from : {p.from}, to : {p.to}]
        BY DEF Remembers, Completes
      <4> QED BY <1>1, <2>2, <4>1
    <3>3. ~Party(q.row)'.open
      <4>1. ASSUME Party(q.row)'.open PROVE FALSE
        <5>1. Party(q.row)' = Party(q.row)
          BY <1>4, <4>1
        <5>2. Party(q.row) # Nil /\ Party(q.row).open
          BY <1>1, <4>1, <5>1
        <5>3. q.row = p.row
          BY <1>2, <3>2, <5>2, ClosedRowIsTheOpenOne DEF IsOpenRow
        <5>4. Party(q.row)' = [party |-> p.from, open |-> FALSE]
          BY <5>3 DEF Replaces
        <5>5. ~[party |-> p.from, open |-> FALSE].open
          OBVIOUS
        <5>6. ~Party(q.row)'.open
          BY <5>4, <5>5, Zenon
        <5> QED BY <4>1, <5>6
      <4> QED BY <4>1
    <3> QED BY <1>1, <3>1, <3>3
  <2> QED BY <2>1, <2>2
<1> QED BY <1>3, <1>4, <1>5 DEF Remembers

-----------------------------------------------------------------------------
(***************************************************************************)
(* What a transaction has locked after each of its own statements.         *)
(***************************************************************************)
PartiesStay ==
  \A r \in RowIds : /\ Party(r)' = Party(r) /\ NewParty(r)' = NewParty(r)
                    /\ PartyLocker(r)' = PartyLocker(r)
ContractsStay ==
  \A c \in Contracts : /\ NewCon(c)' = NewCon(c) /\ ConLocker(c)' = ConLocker(c)
TransfersStay ==
  \A f \in Transfers : /\ Transfer(f)' = Transfer(f) /\ NewTransfer(f)' = NewTransfer(f)
                       /\ TransferLocker(f)' = TransferLocker(f)
                       /\ ApprovalLocker(f)' = ApprovalLocker(f)

\* A statement leaves the tables it does not write.
LEMMA TablesStay ==
  ASSUME NEW t, NEW tab \in TableName, NEW id \in Rows[tab], NEW row,
         WritesRow(t, tab, id, row)
  PROVE  /\ tab # "sales_contract_parties" => PartiesStay
         /\ tab # "sales_contracts" => ContractsStay
         /\ tab \notin {"ownership_transfers", "approval_requests"} => TransfersStay
<1>1. \A x \in TableName : \A i \in Rows[x] : x # tab => RowStays(x, i)
  BY TableRows DEF WritesRow, RowsStayBut
<1>2. tab # "sales_contract_parties" => PartiesStay
  BY <1>1, TableRows DEF TableName, RowStays, PartiesStay, Party, NewParty, PartyLocker
<1>3. tab # "sales_contracts" => ContractsStay
  BY <1>1, TableRows DEF TableName, RowStays, ContractsStay, NewCon, ConLocker
<1>4. tab \notin {"ownership_transfers", "approval_requests"} => TransfersStay
  BY <1>1, TableRows DEF TableName, RowStays, TransfersStay, Transfer, NewTransfer,
                         TransferLocker, ApprovalLocker
<1> QED BY <1>2, <1>3, <1>4

\* Nor does one that writes nothing change any.
LEMMA NothingWrittenStays ==
  UNCHANGED storage => PartiesStay /\ ContractsStay /\ TransfersStay
BY DEF storage, PartiesStay, ContractsStay, TransfersStay, Party, NewParty, PartyLocker,
       NewCon, ConLocker, Transfer, NewTransfer, TransferLocker, ApprovalLocker

\* What a statement makes of the row it writes.
LEMMA RowsLocked ==
  ASSUME NEW t
  PROVE  /\ \A r \in RowIds : \A row : WritesRow(t, "sales_contract_parties", r, row) =>
              /\ Party(r)' = Party(r) /\ NewParty(r)' = row /\ PartyLocker(r)' = t
              /\ \A s \in RowIds \ {r} :
                   /\ Party(s)' = Party(s) /\ NewParty(s)' = NewParty(s)
                   /\ PartyLocker(s)' = PartyLocker(s)
         /\ \A c \in Contracts : \A row : WritesRow(t, "sales_contracts", c, row) =>
              /\ NewCon(c)' = row /\ ConLocker(c)' = t
              /\ \A d \in Contracts \ {c} :
                   NewCon(d)' = NewCon(d) /\ ConLocker(d)' = ConLocker(d)
         /\ \A f \in Transfers : \A row : WritesRow(t, "ownership_transfers", f, row) =>
              /\ Transfer(f)' = Transfer(f) /\ NewTransfer(f)' = row
              /\ TransferLocker(f)' = t
              /\ \A g \in Transfers \ {f} : TransferLocker(g)' = TransferLocker(g)
              /\ \A g \in Transfers : ApprovalLocker(g)' = ApprovalLocker(g)
<1>1. ASSUME NEW r \in RowIds, NEW row, WritesRow(t, "sales_contract_parties", r, row)
      PROVE  /\ Party(r)' = Party(r) /\ NewParty(r)' = row /\ PartyLocker(r)' = t
             /\ \A s \in RowIds \ {r} :
                  /\ Party(s)' = Party(s) /\ NewParty(s)' = NewParty(s)
                  /\ PartyLocker(s)' = PartyLocker(s)
  BY <1>1, TableRows DEF WritesRow, RowWritten, RowsStayBut, RowStays, Party, NewParty,
                         PartyLocker
<1>2. ASSUME NEW c \in Contracts, NEW row, WritesRow(t, "sales_contracts", c, row)
      PROVE  /\ NewCon(c)' = row /\ ConLocker(c)' = t
             /\ \A d \in Contracts \ {c} :
                  NewCon(d)' = NewCon(d) /\ ConLocker(d)' = ConLocker(d)
  BY <1>2, TableRows DEF WritesRow, RowWritten, RowsStayBut, RowStays, NewCon, ConLocker
<1>3. ASSUME NEW f \in Transfers, NEW row, WritesRow(t, "ownership_transfers", f, row)
      PROVE  /\ Transfer(f)' = Transfer(f) /\ NewTransfer(f)' = row
             /\ TransferLocker(f)' = t
             /\ \A g \in Transfers \ {f} : TransferLocker(g)' = TransferLocker(g)
             /\ \A g \in Transfers : ApprovalLocker(g)' = ApprovalLocker(g)
  BY <1>3, TableRows DEF TableName, WritesRow, RowWritten, RowsStayBut, RowStays, Transfer,
                         NewTransfer, TransferLocker, ApprovalLocker
<1> QED BY <1>1, <1>2, <1>3

\* Before it writes anything that matters, a transaction has locked nothing.
NothingLocked(t) ==
  /\ \A r \in RowIds : PartyLocker(r) # t
  /\ \A c \in Contracts : ConLocker(c) # t
  /\ \A f \in Transfers : TransferLocker(f) # t /\ ApprovalLocker(f) # t

\* Transfers and their approval requests are locked by the last statement only.
LEMMA EarlyLocks ==
  ASSUME NEW t, LocksSound(t)
  PROVE  /\ pc[t] \in {"idle", "insert_transfer", "close_party"} => NothingLocked(t)
         /\ pc[t] # "commit" =>
              \A f \in Transfers : TransferLocker(f) # t /\ ApprovalLocker(f) # t
<1>1. pc[t] # "commit" =>
        \A f \in Transfers : TransferLocker(f) # t /\ ApprovalLocker(f) # t
  BY DEF LocksSound, TransferLocks, ApprovalLocks
<1>2. pc[t] \in {"idle", "insert_transfer", "close_party"} => ~Replacing(t)
  BY DEF Replacing, PastClose, PastInsert, PastBuyer
<1> QED BY <1>1, <1>2 DEF NothingLocked, LocksSound, PartyLocks, ContractLocks

\* Nothing locked is sound before the first such statement and after the end.
LEMMA NothingLockedIsSound ==
  ASSUME NEW t, NothingLocked(t)', pc'[t] \in {"idle", "insert_transfer", "close_party"}
  PROVE  LocksSound(t)'
<1>1. ~Replacing(t)' /\ pc'[t] # "commit"
  BY DEF Replacing, PastClose, PastInsert, PastBuyer
<1> QED BY <1>1 DEF NothingLocked, LocksSound, PartyLocks, ContractLocks, TransferLocks,
                    ApprovalLocks

\* A request that begins has locked nothing.
LEMMA StartLocks ==
  ASSUME NEW t \in Tx, LocksSound(t), Starts(t)
  PROVE  LocksSound(t)'
<1>1. NothingLocked(t) /\ PartiesStay /\ ContractsStay /\ TransfersStay
  BY EarlyLocks, NothingWrittenStays DEF Starts
<1>2. NothingLocked(t)'
  BY <1>1 DEF NothingLocked, PartiesStay, ContractsStay, TransfersStay
<1> QED BY <1>2, NothingLockedIsSound DEF Starts

\* The end of a transaction releases everything.
LEMMA EndLocks ==
  ASSUME NEW t \in Tx, Ends(t)
  PROVE  LocksSound(t)'
<1>1. \A tab \in TableName : \A id \in Rows[tab] : owner'[tab][id] # t
  BY NilAssumption DEF Ends, RowReleased
<1>2. NothingLocked(t)'
  BY <1>1, TableRows DEF TableName, NothingLocked, PartyLocker, ConLocker, TransferLocker,
                         ApprovalLocker
<1> QED BY <1>2, NothingLockedIsSound DEF Ends

\* A new transfer is locked together with its approval request.
LEMMA InsertTransferLocks ==
  ASSUME NEW t \in Tx, LocksSound(t), InsertsTransfer(t)
  PROVE  LocksSound(t)'
<1>1. NothingLocked(t)
  BY EarlyLocks DEF InsertsTransfer
<1>2. PICK q \in TransferRow : q = req[t] /\ req'[t] = q /\ q.status = "pending"
  BY DEF InsertsTransfer, Goes
<1>3. pc'[t] = "commit" /\ ~Completes(t)' /\ ~Replacing(t)'
  BY <1>2, Kinds DEF InsertsTransfer, Goes, Completes, Replacing
<1>4. PICK f \in Transfers :
        /\ Transfer(f) = Nil
        /\ RowWritten(t, "ownership_transfers", f, q)
        /\ RowWritten(t, "approval_requests", f, "pending")
        /\ \A g \in Transfers \ {f} : /\ RowStays("ownership_transfers", g)
                                      /\ RowStays("approval_requests", g)
        /\ \A c \in Contracts : RowStays("sales_contracts", c)
        /\ \A r \in RowIds : RowStays("sales_contract_parties", r)
  BY <1>2 DEF InsertsTransfer
<1>5. /\ \A r \in RowIds : PartyLocker(r)' # t
      /\ \A c \in Contracts : ConLocker(c)' # t
      /\ \A g \in Transfers \ {f} : TransferLocker(g)' # t /\ ApprovalLocker(g)' # t
      /\ Transfer(f)' = Nil /\ TransferLocker(f)' = t /\ NewTransfer(f)' = q
  BY <1>1, <1>4 DEF NothingLocked, RowStays, RowWritten, PartyLocker, ConLocker,
                    TransferLocker, ApprovalLocker, Transfer, NewTransfer
<1>6. PartyLocks(t)' /\ ContractLocks(t)'
  BY <1>3, <1>5 DEF PartyLocks, ContractLocks
<1>7. TransferLocks(t)' /\ ApprovalLocks(t)'
  BY <1>2, <1>3, <1>5 DEF TransferLocks, ApprovalLocks
<1> QED BY <1>6, <1>7 DEF LocksSound

\* Closing the row of the old buyer locks it.
LEMMA ClosePartyLocks ==
  ASSUME NEW t \in Tx, LocksSound(t), ClosesParty(t)
  PROVE  LocksSound(t)'
<1>1. NothingLocked(t)
  BY EarlyLocks DEF ClosesParty
<1>2. PICK q \in Completion : q = req[t] /\ req'[t] = q
  BY DEF ClosesParty, Goes, Completes
<1>3. /\ pc'[t] = "insert_party" /\ Completes(t)' /\ Replacing(t)'
      /\ pc'[t] \notin PastInsert /\ pc'[t] \notin PastBuyer
  BY <1>2 DEF ClosesParty, Goes, Completes, Replacing, PastClose, PastInsert, PastBuyer
<1>4. /\ q.row \in RowIds /\ Party(q.row) = [party |-> q.from, open |-> TRUE]
      /\ WritesRow(t, "sales_contract_parties", q.row, [party |-> q.from, open |-> FALSE])
  BY <1>2 DEF ClosesParty, Completion
<1>5. ContractsStay /\ TransfersStay
  BY <1>4, TablesStay, TableRows DEF TableName
<1>6. /\ Party(q.row)' = [party |-> q.from, open |-> TRUE]
      /\ NewParty(q.row)' = [party |-> q.from, open |-> FALSE]
      /\ PartyLocker(q.row)' = t
      /\ \A s \in RowIds \ {q.row} : PartyLocker(s)' # t
  BY <1>1, <1>4, RowsLocked DEF NothingLocked
<1>7. Closes(t)'
  BY <1>2, <1>6 DEF Closes
<1>8. PartyLocks(t)'
  BY <1>2, <1>3, <1>6, <1>7 DEF PartyLocks
<1>9. ContractLocks(t)' /\ TransferLocks(t)' /\ ApprovalLocks(t)'
  BY <1>1, <1>3, <1>5 DEF ContractsStay, TransfersStay, NothingLocked, ContractLocks,
                          TransferLocks, ApprovalLocks
<1> QED BY <1>8, <1>9 DEF LocksSound

\* From there on the rows it has closed and opened stay as they are.
LEMMA ReplacementStays ==
  ASSUME NEW t \in Tx, LocksSound(t), Replacing(t), PartiesStay,
         NEW q \in Completion, q = req[t], NEW p \in Completion, req'[t] = p,
         p.row = q.row /\ p.contract = q.contract /\ p.from = q.from /\ p.to = q.to,
         pc[t] \in PastInsert, pc'[t] \in PastInsert
  PROVE  PartyLocks(t)'
<1>1. q.row \in RowIds
  BY DEF Completion
<1>2. Closes(t)'
  BY <1>1 DEF LocksSound, PartyLocks, Closes, PartiesStay
<1>3. PICK r \in RowIds :
        Opens(t, r) /\ \A s \in RowIds : PartyLocker(s) = t => s \in {q.row, r}
  BY DEF LocksSound, PartyLocks
<1>4. Opens(t, r)' /\ \A s \in RowIds : PartyLocker(s)' = t => s \in {q.row, r}
  BY <1>3 DEF Opens, PartiesStay
<1>5. Replacing(t)' /\ pc'[t] # "insert_party"
  BY DEF Replacing, Completes, PastClose, PastInsert, PastBuyer
<1> QED BY <1>2, <1>4, <1>5 DEF PartyLocks

\* The row of the new buyer is locked as well.
LEMMA OpenPartyLocks ==
  ASSUME NEW t \in Tx, LocksSound(t), OpensParty(t)
  PROVE  LocksSound(t)'
<1>1. PICK q \in Completion : q = req[t] /\ req'[t] = q
  BY DEF OpensParty, Goes, Completes
<1>2. /\ pc[t] = "insert_party" /\ pc'[t] = "set_buyer"
      /\ Replacing(t) /\ Completes(t)' /\ Replacing(t)'
      /\ pc'[t] \in PastInsert /\ pc'[t] \notin PastBuyer /\ pc[t] \notin PastBuyer
  BY <1>1 DEF OpensParty, Goes, Completes, Replacing, PastClose, PastInsert, PastBuyer
<1>3. PICK r \in RowIds :
        /\ r[1] = q.contract /\ Party(r) = Nil
        /\ WritesRow(t, "sales_contract_parties", r, [party |-> q.to, open |-> TRUE])
  BY <1>1 DEF OpensParty
<1>4. ContractsStay /\ TransfersStay
  BY <1>3, TablesStay, TableRows DEF TableName
<1>5. /\ PartyLocker(q.row) = t /\ Party(q.row) = [party |-> q.from, open |-> TRUE]
      /\ NewParty(q.row) = [party |-> q.from, open |-> FALSE] /\ q.row \in RowIds
  BY <1>1, <1>2 DEF LocksSound, PartyLocks, Closes, Completion
<1>6. q.row # r
  <2>1. [party |-> q.from, open |-> TRUE] \in PartyRow
    BY DEF PartyRow, Completion
  <2> QED BY <1>3, <1>5, <2>1, NilIsNoRow
<1>7. /\ PartyLocker(q.row)' = t /\ Party(q.row)' = [party |-> q.from, open |-> TRUE]
      /\ NewParty(q.row)' = [party |-> q.from, open |-> FALSE]
      /\ PartyLocker(r)' = t /\ Party(r)' = Nil
      /\ NewParty(r)' = [party |-> q.to, open |-> TRUE]
      /\ \A s \in RowIds \ {r} : PartyLocker(s)' = PartyLocker(s)
  BY <1>3, <1>5, <1>6, RowsLocked
<1>8. Closes(t)' /\ Opens(t, r)'
  BY <1>1, <1>3, <1>7 DEF Closes, Opens
<1>9. \A s \in RowIds : PartyLocker(s)' = t => s \in {q.row, r}
  BY <1>1, <1>2, <1>7 DEF LocksSound, PartyLocks
<1>10. PartyLocks(t)'
  BY <1>1, <1>2, <1>8, <1>9 DEF PartyLocks
<1>11. ContractLocks(t)'
  BY <1>1, <1>2, <1>4 DEF ContractsStay, LocksSound, ContractLocks
<1>12. TransferLocks(t)' /\ ApprovalLocks(t)'
  BY <1>2, <1>4, EarlyLocks DEF TransfersStay, TransferLocks, ApprovalLocks
<1> QED BY <1>10, <1>11, <1>12 DEF LocksSound

\* The contract is locked with its new buyer.
LEMMA SetBuyerLocks ==
  ASSUME Typed, NEW t \in Tx, LocksSound(t), SetsBuyer(t)
  PROVE  LocksSound(t)'
<1>1. PICK q \in Completion : q = req[t] /\ req'[t] = q
  BY DEF SetsBuyer, Goes, Completes
<1>2. /\ pc[t] = "set_buyer" /\ pc'[t] = "find_ownership"
      /\ Replacing(t) /\ Replacing(t)' /\ pc[t] \in PastInsert /\ pc'[t] \in PastInsert
  BY <1>1 DEF SetsBuyer, Goes, Completes, Replacing, PastClose, PastInsert, PastBuyer
<1>3. q.contract \in Contracts /\ q.to \in Parties
  BY DEF Completion
<1> DEFINE row == [NewCon(q.contract) EXCEPT !.buyer = q.to]
<1>4. row.buyer = q.to
  BY <1>3, RowTypes DEF Typed, ContractRow
<1>5. WritesRow(t, "sales_contracts", q.contract, row)
  BY <1>1 DEF SetsBuyer
<1>6. PICK new : new = row
  OBVIOUS
<1> HIDE DEF row
<1>7. PartiesStay /\ TransfersStay
  BY <1>3, <1>5, TablesStay, TableRows DEF TableName
<1>8. /\ NewCon(q.contract)' = new /\ ConLocker(q.contract)' = t
      /\ \A d \in Contracts \ {q.contract} : ConLocker(d)' = ConLocker(d)
  BY <1>3, <1>5, <1>6, RowsLocked
<1>9. PartyLocks(t)'
  BY <1>1, <1>2, <1>7, ReplacementStays
<1>10. ContractLocks(t)'
  BY <1>1, <1>2, <1>4, <1>6, <1>8 DEF LocksSound, ContractLocks
<1>11. TransferLocks(t)' /\ ApprovalLocks(t)'
  BY <1>2, <1>7, EarlyLocks DEF TransfersStay, TransferLocks, ApprovalLocks
<1> QED BY <1>9, <1>10, <1>11 DEF LocksSound

\* The statements about ownerships leave all of that as it is.
LEMMA OwnershipLocks ==
  ASSUME NEW t \in Tx, LocksSound(t), FindsOwnership(t) \/ ChangesOwnership(t)
  PROVE  LocksSound(t)'
<1>1. /\ Completes(t)
      /\ pc[t] \in PastBuyer \ {"commit"} /\ pc'[t] \in PastBuyer \ {"commit"}
  BY DEF FindsOwnership, ChangesOwnership, Goes, PastBuyer
<1>2. PICK q \in Completion : q = req[t]
  BY <1>1 DEF Completes
<1>3. \E p \in Completion :
        /\ req'[t] = p
        /\ p.row = q.row /\ p.contract = q.contract /\ p.from = q.from /\ p.to = q.to
  <2>1. CASE req'[t] = req[t]
    BY <1>2, <2>1
  <2>2. CASE \E r \in RowIds, s \in 1..100 :
               req'[t] = [req[t] EXCEPT !.ownership = r, !.share = s]
    <3>1. PICK r \in RowIds, s \in 1..100 :
            req'[t] = [req[t] EXCEPT !.ownership = r, !.share = s]
      BY <2>2
    <3> DEFINE p == [q EXCEPT !.ownership = r, !.share = s]
    <3>2. /\ p \in Completion
          /\ p.row = q.row /\ p.contract = q.contract /\ p.from = q.from /\ p.to = q.to
      BY DEF Completion
    <3> HIDE DEF p
    <3>3. req'[t] = p
      BY <1>2, <3>1 DEF p
    <3> QED BY <3>2, <3>3
  <2> QED BY <2>1, <2>2 DEF FindsOwnership, ChangesOwnership, Goes
<1>4. PICK p \in Completion :
        /\ req'[t] = p
        /\ p.row = q.row /\ p.contract = q.contract /\ p.from = q.from /\ p.to = q.to
  BY <1>3
<1>5. PartiesStay /\ ContractsStay /\ TransfersStay
  <2>1. CASE FindsOwnership(t)
    BY <2>1, NothingWrittenStays DEF FindsOwnership
  <2>2. CASE ChangesOwnership(t)
    <3>1. PICK r \in RowIds : \E row : WritesRow(t, "unit_ownerships", r, row)
      BY <2>2 DEF ChangesOwnership
    <3> QED BY <3>1, TablesStay, TableRows DEF TableName
  <2> QED BY <2>1, <2>2
<1>6. /\ pc[t] \in PastInsert /\ pc'[t] \in PastInsert
      /\ pc[t] # "commit" /\ pc'[t] # "commit"
      /\ Replacing(t) /\ Replacing(t)' /\ pc[t] \in PastBuyer
  BY <1>1, <1>4 DEF Replacing, Completes, PastClose, PastInsert, PastBuyer
<1>7. PartyLocks(t)'
  BY <1>2, <1>4, <1>5, <1>6, ReplacementStays
<1>8. ContractLocks(t)'
  <2>1. q.contract \in Contracts
    BY DEF Completion
  <2> QED BY <1>2, <1>4, <1>5, <1>6, <2>1 DEF ContractsStay, LocksSound, ContractLocks
<1>9. TransferLocks(t)' /\ ApprovalLocks(t)'
  BY <1>5, <1>6, EarlyLocks DEF TransfersStay, TransferLocks, ApprovalLocks
<1> QED BY <1>7, <1>8, <1>9 DEF LocksSound

\* The last statement locks the transfer it completes.
LEMMA CompleteTransferLocks ==
  ASSUME NEW t \in Tx, LocksSound(t), CompletesTransfer(t)
  PROVE  LocksSound(t)'
<1>1. PICK q \in Completion : q = req[t] /\ req'[t] = q
  BY DEF CompletesTransfer, Goes, Completes
<1>2. /\ pc[t] = "set_completion" /\ pc'[t] = "commit"
      /\ Completes(t)' /\ Replacing(t) /\ Replacing(t)'
      /\ pc[t] \in PastInsert /\ pc'[t] \in PastInsert
      /\ pc[t] \in PastBuyer /\ pc'[t] \in PastBuyer
  BY <1>1 DEF CompletesTransfer, Goes, Completes, Replacing, PastClose, PastInsert,
              PastBuyer
<1>3. /\ q.transfer \in Transfers /\ q.contract \in Contracts
      /\ WritesRow(t, "ownership_transfers", q.transfer,
                   [Transfer(q.transfer) EXCEPT !.status = "completed"])
  BY <1>1 DEF CompletesTransfer, Completion
<1>4. PartiesStay /\ ContractsStay
  BY <1>3, TablesStay, TableRows DEF TableName
<1>5. /\ Transfer(q.transfer)' = Transfer(q.transfer) /\ TransferLocker(q.transfer)' = t
      /\ NewTransfer(q.transfer)' = [Transfer(q.transfer) EXCEPT !.status = "completed"]
      /\ \A g \in Transfers \ {q.transfer} : TransferLocker(g)' = TransferLocker(g)
      /\ \A g \in Transfers : ApprovalLocker(g)' = ApprovalLocker(g)
  BY <1>3, RowsLocked
<1>6. \A g \in Transfers : TransferLocker(g) # t /\ ApprovalLocker(g) # t
  BY <1>2, EarlyLocks
<1>7. PartyLocks(t)'
  BY <1>1, <1>2, <1>4, ReplacementStays
<1>8. ContractLocks(t)'
  BY <1>1, <1>2, <1>3, <1>4 DEF ContractsStay, LocksSound, ContractLocks
<1>9. TransferLocks(t)' /\ ApprovalLocks(t)'
  BY <1>1, <1>2, <1>5, <1>6 DEF TransferLocks, ApprovalLocks
<1> QED BY <1>7, <1>8, <1>9 DEF LocksSound

\* Every statement leaves its transaction's locks as they must be.
LEMMA OwnLocks ==
  ASSUME Typed, NEW t \in Tx, LocksSound(t), Does(t)
  PROVE  LocksSound(t)'
BY StartLocks, InsertTransferLocks, ClosePartyLocks, OpenPartyLocks, SetBuyerLocks,
   OwnershipLocks, CompleteTransferLocks, EndLocks DEF Does

-----------------------------------------------------------------------------
(***************************************************************************)
(* The control state, and the rows of unit_ownerships.                     *)
(***************************************************************************)
\* A row of unit_ownerships is only ever written as a row.
LEMMA OwnershipsTouched ==
  /\ \A t \in Tx : Does(t) => \A r \in RowIds :
       \/ RowStays("unit_ownerships", r) \/ RowReleased(t, "unit_ownerships", r)
       \/ \E row \in OwnershipRow : RowWritten(t, "unit_ownerships", r, row)
  /\ ByClient => \A r \in RowIds :
       \/ RowStays("unit_ownerships", r)
       \/ \E row \in OwnershipRow : RowReplaced("unit_ownerships", r, row)
<1>1. ASSUME NEW t \in Tx, Does(t), NEW r \in RowIds
      PROVE  \/ RowStays("unit_ownerships", r) \/ RowReleased(t, "unit_ownerships", r)
             \/ \E row \in OwnershipRow : RowWritten(t, "unit_ownerships", r, row)
  <2>1. ASSUME NEW tab \in TableName \ {"unit_ownerships"}, NEW id \in Rows[tab], NEW row,
               WritesRow(t, tab, id, row)
        PROVE  RowStays("unit_ownerships", r)
    BY <2>1, TableRows DEF TableName, WritesRow, RowsStayBut
  <2>2. CASE ChangesOwnership(t)
    <3>1. PICK s \in RowIds, row \in OwnershipRow : WritesRow(t, "unit_ownerships", s, row)
      BY <2>2 DEF ChangesOwnership
    <3> QED BY <3>1, TableRows DEF WritesRow, RowsStayBut
  <2>3. CASE ClosesParty(t) \/ OpensParty(t) \/ SetsBuyer(t) \/ CompletesTransfer(t)
    <3>1. \E tab \in TableName \ {"unit_ownerships"} : \E id \in Rows[tab] : \E row :
            WritesRow(t, tab, id, row)
      BY <2>3, TableRows DEF ClosesParty, OpensParty, SetsBuyer, CompletesTransfer,
           TableName, Completes, Completion
    <3> QED BY <2>1, <3>1
  <2>4. CASE Starts(t) \/ FindsOwnership(t)
    BY <2>4 DEF Starts, FindsOwnership, storage, RowStays
  <2>5. CASE Ends(t)
    BY <2>5, TableRows DEF Ends, TableName
  <2>6. CASE InsertsTransfer(t)
    BY <2>6 DEF InsertsTransfer
  <2> QED BY <1>1, <2>2, <2>3, <2>4, <2>5, <2>6 DEF Does
<1>2. ASSUME ByClient, NEW r \in RowIds
      PROVE  \/ RowStays("unit_ownerships", r)
             \/ \E row \in OwnershipRow : RowReplaced("unit_ownerships", r, row)
  <2>1. ASSUME NEW tab \in TableName \ {"unit_ownerships"}, NEW id \in Rows[tab], NEW row,
               ReplacesRow(tab, id, row)
        PROVE  RowStays("unit_ownerships", r)
    BY <2>1, TableRows DEF TableName, ReplacesRow, RowsStayBut
  <2>2. CASE \E s \in RowIds : \E row \in OwnershipRow :
               ReplacesRow("unit_ownerships", s, row)
    <3>1. PICK s \in RowIds, row \in OwnershipRow : ReplacesRow("unit_ownerships", s, row)
      BY <2>2
    <3> QED BY <3>1, TableRows DEF ReplacesRow, RowsStayBut
  <2>3. CASE \E tab \in TableName \ {"unit_ownerships"} : \E id \in Rows[tab] : \E row :
               ReplacesRow(tab, id, row)
    BY <2>1, <2>3
  <2> QED BY <1>2, <2>2, <2>3, TableRows DEF ByClient, TableName
<1> QED BY <1>1, <1>2

\* So none is deleted, and one that a transaction has seen stays there for it.
LEMMA OwnershipsKept ==
  ASSUME Typed, (\E t \in Tx : Does(t)) \/ ByClient
  PROVE  OwnershipsStay'
<1> SUFFICES ASSUME NEW r \in RowIds, db'.unit_ownerships[r] # Nil
             PROVE  dirty'.unit_ownerships[r] # Nil
  BY DEF OwnershipsStay
<1>1. db.unit_ownerships[r] # Nil => dirty.unit_ownerships[r] # Nil
  BY DEF Typed, OwnershipsStay
<1>2. \/ RowStays("unit_ownerships", r)
      \/ \E t \in Tx : RowReleased(t, "unit_ownerships", r)
      \/ \E t \in Tx : \E row \in OwnershipRow : RowWritten(t, "unit_ownerships", r, row)
      \/ \E row \in OwnershipRow : RowReplaced("unit_ownerships", r, row)
  BY OwnershipsTouched
<1> QED BY <1>1, <1>2, NilIsNoRow DEF RowStays, RowReleased, RowWritten, RowReplaced

\* What a transaction has seen stays there for it when others take a step.
LEMMA SeenOwnershipStays ==
  ASSUME Typed, NEW x \in Tx, (\E t \in Tx \ {x} : Does(t)) \/ ByClient,
         NEW r \in RowIds, Sees(x, "unit_ownerships", r) # Nil
  PROVE  Sees(x, "unit_ownerships", r)' # Nil
<1>1. db.unit_ownerships[r] # Nil => dirty.unit_ownerships[r] # Nil
  BY DEF Typed, OwnershipsStay
<1>2. \/ RowStays("unit_ownerships", r)
      \/ \E t \in Tx \ {x} : RowReleased(t, "unit_ownerships", r)
      \/ \E t \in Tx \ {x} : \E row \in OwnershipRow :
           RowWritten(t, "unit_ownerships", r, row)
      \/ \E row \in OwnershipRow : RowReplaced("unit_ownerships", r, row)
  BY OwnershipsTouched
<1> QED BY <1>1, <1>2, NilIsNoRow, NilAssumption
        DEF Sees, RowStays, RowReleased, RowWritten, RowReplaced

\* A request that is waiting stays as it is.
LEMMA OthersRequestsOK ==
  ASSUME Typed, NEW x \in Tx, (\E t \in Tx \ {x} : Does(t)) \/ ByClient,
         pc'[x] = pc[x], req'[x] = req[x]
  PROVE  RequestOK(x)'
<1>1. PICK q : q = req[x] /\ req'[x] = q
  OBVIOUS
<1>2. /\ pc[x] = "idle" => q = Nil
      /\ pc[x] = "insert_transfer" => q \in TransferRow /\ q.status = "pending"
      /\ pc[x] \in ({"close_party"} \cup PastClose) \ {"commit"} => q \in Completion
      /\ pc[x] # "idle" /\ q \in Completion => q.row[1] = q.contract
      /\ pc[x] = "close_ownership" =>
           q.ownership \in RowIds /\ Sees(x, "unit_ownerships", q.ownership) # Nil
  BY <1>1 DEF Typed, RequestOK, Completes
<1>3. pc[x] = "close_ownership" => Sees(x, "unit_ownerships", q.ownership)' # Nil
  BY <1>2, SeenOwnershipStays
<1> QED BY <1>1, <1>2, <1>3 DEF RequestOK, Completes, PastClose, PastInsert, PastBuyer

\* And the request of the transaction that takes a step.
LEMMA OwnRequestOK ==
  ASSUME Typed, NEW t \in Tx, Does(t)
  PROVE  RequestOK(t)' /\ pc'[t] \in Statement
         /\ req'[t] \in Completion \cup TransferRow \cup {Nil}
<1> USE DEF Statement, PastClose, PastInsert, PastBuyer, RequestOK, Completes
<1>1. CASE Starts(t)
  BY <1>1, Kinds DEF Starts
<1>2. CASE InsertsTransfer(t)
  BY <1>2, Kinds DEF InsertsTransfer, Goes
<1>3. CASE ClosesParty(t) \/ OpensParty(t) \/ SetsBuyer(t) \/ CompletesTransfer(t)
           \/ ChangesOwnership(t)
  <2>1. PICK q \in Completion : q = req[t] /\ req'[t] = q /\ pc[t] # "idle"
    BY <1>3 DEF ClosesParty, OpensParty, SetsBuyer, CompletesTransfer, ChangesOwnership,
                Goes
  <2>2. q.row[1] = q.contract
    BY <2>1 DEF Typed
  <2>3. pc'[t] \in PastClose /\ pc'[t] # "close_ownership"
    BY <1>3 DEF ClosesParty, OpensParty, SetsBuyer, CompletesTransfer, ChangesOwnership,
                Goes
  <2> QED BY <2>1, <2>2, <2>3
<1>4. CASE FindsOwnership(t)
  <2>1. PICK q \in Completion : q = req[t]
    BY <1>4 DEF FindsOwnership
  <2>2. pc[t] = "find_ownership" /\ q.row[1] = q.contract
    BY <1>4, <2>1 DEF Typed, FindsOwnership
  <2>3. CASE pc'[t] = "create_ownership" /\ req'[t] = req[t]
    BY <2>1, <2>2, <2>3
  <2>4. CASE /\ pc'[t] = "close_ownership"
             /\ \E r \in RowIds, s \in 1..100 :
                  /\ Sees(t, "unit_ownerships", r) # Nil
                  /\ req'[t] = [req[t] EXCEPT !.ownership = r, !.share = s]
    <3>1. PICK r \in RowIds, s \in 1..100 :
            /\ Sees(t, "unit_ownerships", r) # Nil
            /\ req'[t] = [req[t] EXCEPT !.ownership = r, !.share = s]
      BY <2>4
    <3> DEFINE p == [q EXCEPT !.ownership = r, !.share = s]
    <3>2. /\ p \in Completion /\ p.ownership = r
          /\ p.row = q.row /\ p.contract = q.contract
      BY DEF Completion
    <3>3. req'[t] = p
      BY <2>1, <3>1
    <3> HIDE DEF p
    <3>4. Sees(t, "unit_ownerships", r)' # Nil
      BY <1>4, <3>1 DEF FindsOwnership, storage, Sees
    <3>5. PICK new : new = p
      OBVIOUS
    <3> QED BY <2>2, <2>4, <3>2, <3>3, <3>4, <3>5
  <2> QED BY <1>4, <2>3, <2>4 DEF FindsOwnership
<1>5. CASE Ends(t)
  BY <1>5 DEF Ends
<1> QED BY <1>1, <1>2, <1>3, <1>4, <1>5 DEF Does

-----------------------------------------------------------------------------
(***************************************************************************)
(* The invariant is inductive.                                             *)
(***************************************************************************)
LEMMA TypedKept ==
  ASSUME IInv, Next
  PROVE  Typed' /\ (ByClient \/ \E t \in Tx : Does(t))
<1>1. /\ Typed /\ ControlTypeOK
      /\ \A t \in Tx : Remembers(t) /\ LocksSound(t) /\ RequestOK(t)
  BY DEF IInv, Typed
<1>2. CASE Others
  <2>1. ByClient /\ TablesTyped(Rows, RowType)' /\ DirtyIsCommitted'
    BY <1>1, <1>2, ClientEffect
  <2>2. ControlTypeOK'
    BY <1>1, <2>1 DEF ControlTypeOK, ByClient
  <2>3. \A x \in Tx : RequestOK(x)'
    BY <1>1, <2>1, OthersRequestsOK DEF ByClient
  <2> QED BY <1>1, <2>1, <2>2, <2>3, OwnershipsKept DEF Typed
<1>3. CASE \E t \in Tx : Start(t) \/ Step(t)
  <2>1. PICK t \in Tx : Start(t) \/ Step(t)
    BY <1>3
  <2>2. Does(t) /\ TablesTyped(Rows, RowType)' /\ DirtyIsCommitted'
    BY <1>1, <2>1, StepEffect
  <2>3. OthersStay(t)
    BY <2>2 DEF Does, Starts, InsertsTransfer, ClosesParty, OpensParty, SetsBuyer,
                FindsOwnership, ChangesOwnership, CompletesTransfer, Ends, Goes
  <2>4. RequestOK(t)' /\ pc'[t] \in Statement
        /\ req'[t] \in Completion \cup TransferRow \cup {Nil}
    BY <1>1, <2>2, OwnRequestOK
  <2>5. \A x \in Tx \ {t} : RequestOK(x)'
    BY <1>1, <2>2, <2>3, OthersRequestsOK DEF OthersStay
  <2>6. pc' \in [Tx -> Statement] /\ req' \in [Tx -> Completion \cup TransferRow \cup {Nil}]
    <3>1. \A x \in Tx : /\ pc'[x] \in Statement
                        /\ req'[x] \in Completion \cup TransferRow \cup {Nil}
      BY <1>1, <2>3, <2>4 DEF OthersStay, ControlTypeOK
    <3>2. pc' = [x \in Tx |-> pc'[x]] /\ req' = [x \in Tx |-> req'[x]]
      BY <2>3 DEF OthersStay
    <3> QED BY <3>1, <3>2
  <2>7. ControlTypeOK'
    BY <2>6 DEF ControlTypeOK
  <2> QED BY <1>1, <2>2, <2>4, <2>5, <2>7, OwnershipsKept DEF Typed
<1> QED BY <1>2, <1>3 DEF Next

\* What a transaction remembers of its own reads.
LEMMA OwnRemembers ==
  ASSUME Typed, NEW t \in Tx, Remembers(t), Does(t), BooksStay
  PROVE  Remembers(t)'
<1>1. CASE Starts(t) /\ Completes(t)'
  <2>1. PICK q \in Completion : req'[t] = q
    BY <1>1 DEF Completes
  <2>2. /\ Party(q.row) = [party |-> q.from, open |-> TRUE]
        /\ Approval(q.transfer) = "approved"
        /\ Transfer(q.transfer) = [status |-> "pending", contract |-> q.contract,
                                   from |-> q.from, to |-> q.to]
    BY <1>1, <2>1, Kinds DEF Starts
  <2>3. /\ Party(q.row)' = Party(q.row) /\ Approval(q.transfer)' = Approval(q.transfer)
        /\ Transfer(q.transfer)' = Transfer(q.transfer)
    BY <1>1 DEF Starts, storage, Party, Approval, Transfer
  <2>4. Party(q.row) # Nil /\ Party(q.row).party = q.from
    <3>1. [party |-> q.from, open |-> TRUE] \in PartyRow
      BY DEF PartyRow, Completion
    <3>2. [party |-> q.from, open |-> TRUE].party = q.from
      OBVIOUS
    <3> QED BY <2>2, <3>1, <3>2, NilIsNoRow, Zenon
  <2>5. /\ Transfer(q.transfer) \in [status : {"pending", "completed"},
              contract : {q.contract}, from : {q.from}, to : {q.to}]
        /\ Transfer(q.transfer).status # "completed"
    BY <2>2
  <2> QED BY <2>1, <2>2, <2>3, <2>4, <2>5 DEF Remembers
<1>2. CASE \E p \in Completion :
             /\ Completes(t) /\ req'[t] = p
             /\ req[t].transfer = p.transfer /\ req[t].contract = p.contract
             /\ req[t].from = p.from /\ req[t].to = p.to /\ req[t].row = p.row
  BY <1>2, RemembersStays
<1>3. CASE ~Completes(t)'
  BY <1>3 DEF Remembers
<1>4. CASE FindsOwnership(t)
  <2>1. PICK q \in Completion : q = req[t]
    BY <1>4 DEF FindsOwnership, Completes
  <2>2. CASE req'[t] = req[t]
    BY <1>2, <1>4, <2>1, <2>2 DEF FindsOwnership
  <2>3. CASE \E r \in RowIds, s \in 1..100 :
               req'[t] = [req[t] EXCEPT !.ownership = r, !.share = s]
    <3>1. PICK r \in RowIds, s \in 1..100 :
            req'[t] = [req[t] EXCEPT !.ownership = r, !.share = s]
      BY <2>3
    <3> DEFINE p == [q EXCEPT !.ownership = r, !.share = s]
    <3>2. /\ p \in Completion
          /\ q.transfer = p.transfer /\ q.contract = p.contract
          /\ q.from = p.from /\ q.to = p.to /\ q.row = p.row
      BY DEF Completion
    <3>3. req'[t] = p
      BY <2>1, <3>1
    <3> HIDE DEF p
    <3> QED BY <1>2, <1>4, <2>1, <3>2, <3>3 DEF FindsOwnership
  <2> QED BY <1>4, <2>2, <2>3 DEF FindsOwnership
<1>5. CASE ClosesParty(t) \/ OpensParty(t) \/ SetsBuyer(t) \/ CompletesTransfer(t)
           \/ ChangesOwnership(t)
  BY <1>2, <1>5 DEF ClosesParty, OpensParty, SetsBuyer, CompletesTransfer,
       ChangesOwnership, Goes, Completes
<1>6. CASE InsertsTransfer(t) \/ Ends(t)
  BY <1>3, <1>6, Kinds DEF InsertsTransfer, Ends, Goes, Completes
<1> QED BY <1>1, <1>3, <1>4, <1>5, <1>6 DEF Does

\* What is committed, remembered and locked stays sound in every step.
LEMMA BooksSoundKept ==
  ASSUME IInv, Next
  PROVE  /\ OneOpen' /\ (\A x \in Tx : Remembers(x)' /\ LocksSound(x)')
         /\ \/ BooksStay
            \/ \E t \in Tx, q \in Completion, r \in RowIds :
                 Completes(t) /\ q = req[t] /\ Replaces(q, r)
<1>1. /\ Typed /\ ControlTypeOK /\ OneOpen
      /\ \A t \in Tx : Remembers(t) /\ LocksSound(t) /\ RequestOK(t)
  BY DEF IInv, Typed
<1>2. CASE ByClient
  <2>1. BooksStay
    BY <1>1, <1>2, ClientKeepsBooks
  <2>2. ASSUME NEW x \in Tx PROVE LocksSound(x)'
    BY <1>1, <1>2, ClientDisturbsNobody, LocksStaySound DEF ByClient
  <2>3. ASSUME NEW x \in Tx PROVE Remembers(x)'
    <3>1. CASE Completes(x)
      <4>1. PICK q \in Completion : q = req[x]
        BY <3>1 DEF Completes
      <4>2. req'[x] = q
        BY <1>2, <4>1 DEF ByClient
      <4> QED BY <1>1, <2>1, <3>1, <4>1, <4>2, RemembersStays
    <3>2. CASE ~Completes(x)
      BY <1>2, <3>2 DEF ByClient, Completes, Remembers
    <3> QED BY <3>1, <3>2
  <2> QED BY <1>1, <2>1, <2>2, <2>3, OneOpenStays
<1>3. ASSUME NEW t \in Tx, Does(t)
      PROVE  /\ OneOpen' /\ (\A x \in Tx : Remembers(x)' /\ LocksSound(x)')
             /\ \/ BooksStay
                \/ \E q \in Completion, r \in RowIds :
                     Completes(t) /\ q = req[t] /\ Replaces(q, r)
  <2>1. \A x \in Tx \ {t} : pc'[x] = pc[x] /\ req'[x] = req[x]
    BY <1>3 DEF Does, Starts, InsertsTransfer, ClosesParty, OpensParty, SetsBuyer,
         FindsOwnership, ChangesOwnership, CompletesTransfer, Ends, Goes, OthersStay
  <2>2. ASSUME NEW x \in Tx PROVE LocksSound(x)'
    <3>1. CASE x = t
      BY <1>1, <1>3, <3>1, OwnLocks
    <3>2. CASE x # t
      BY <1>1, <1>3, <2>1, <3>2, OthersUndisturbed, LocksStaySound
    <3> QED BY <3>1, <3>2
  <2>3. CASE BooksStay
    <3>1. ASSUME NEW x \in Tx \ {t} PROVE Remembers(x)'
      <4>1. CASE Completes(x)
        <5>1. PICK q \in Completion : q = req[x]
          BY <4>1 DEF Completes
        <5> QED BY <1>1, <2>1, <2>3, <4>1, <5>1, RemembersStays
      <4>2. CASE ~Completes(x)
        BY <2>1, <4>2 DEF Completes, Remembers
      <4> QED BY <4>1, <4>2
    <3>2. Remembers(t)'
      BY <1>1, <1>3, <2>3, OwnRemembers
    <3> QED BY <1>1, <2>2, <2>3, <3>1, <3>2, OneOpenStays
  <2>4. CASE /\ Completes(t) /\ Ends(t)
             /\ \E q \in Completion, r \in RowIds : q = req[t] /\ Replaces(q, r)
    <3>1. PICK p \in Completion, r \in RowIds : p = req[t] /\ Replaces(p, r)
      BY <2>4
    <3>2. p.row[1] = p.contract
      BY <1>1, <2>4, <3>1 DEF RequestOK
    <3>3. OneOpen'
      BY <1>1, <3>1, <3>2, OneOpenAfterReplacing
    <3>4. Remembers(t)'
      BY <2>4 DEF Ends, Completes, Remembers
    <3>5. ASSUME NEW x \in Tx \ {t} PROVE Remembers(x)'
      <4>1. CASE Completes(x)
        <5>1. PICK q \in Completion : q = req[x] /\ req'[x] = q
          BY <2>1, <4>1 DEF Completes
        <5> QED BY <1>1, <2>4, <3>1, <4>1, <5>1, RemembersAfterReplacing
      <4>2. CASE ~Completes(x)
        BY <2>1, <4>2 DEF Completes, Remembers
      <4> QED BY <4>1, <4>2
    <3> QED BY <2>2, <2>4, <3>3, <3>4, <3>5
  <2> QED BY <1>1, <1>3, <2>3, <2>4, BooksChangeByCompletion
<1> QED BY <1>2, <1>3, TypedKept

\* Nothing is requested or locked at first, and each contract has one row.
LEMMA InitIInv ==
  ASSUME Init
  PROVE  IInv
<1>1. PICK buyer \in [Contracts -> Parties], owns \in BOOLEAN :
        /\ db = [sales_contracts |->
                   [c \in Contracts |-> [status |-> "draft", buyer |-> buyer[c]]],
                 sales_contract_parties |->
                   [r \in RowIds |-> IF r[2] = 1 THEN [party |-> buyer[r[1]], open |-> TRUE]
                                                 ELSE Nil],
                 unit_ownerships |->
                   [r \in RowIds |->
                      IF owns /\ r[2] = 1
                        THEN [party |-> buyer[r[1]], share |-> 100,
                              active |-> TRUE, open |-> TRUE]
                        ELSE Nil],
                 ownership_transfers |-> [f \in Transfers |-> Nil],
                 approval_requests |-> [f \in Transfers |-> Nil]]
  BY DEF Init
<1>2. /\ dirty = db
      /\ owner = [tab \in DOMAIN Rows |-> [id \in Rows[tab] |-> Nil]]
      /\ pc = [t \in Tx |-> "idle"] /\ req = [t \in Tx |-> Nil]
  BY DEF Init
<1>3. /\ db["sales_contracts"] =
           [c \in Contracts |-> [status |-> "draft", buyer |-> buyer[c]]]
      /\ db["sales_contract_parties"] =
           [r \in RowIds |-> IF r[2] = 1 THEN [party |-> buyer[r[1]], open |-> TRUE]
                                         ELSE Nil]
      /\ db["unit_ownerships"] =
           [r \in RowIds |-> IF owns /\ r[2] = 1
                               THEN [party |-> buyer[r[1]], share |-> 100,
                                     active |-> TRUE, open |-> TRUE]
                               ELSE Nil]
      /\ db["ownership_transfers"] = [f \in Transfers |-> Nil]
      /\ db["approval_requests"] = [f \in Transfers |-> Nil]
      /\ db = [tab \in TableName |-> db[tab]]
  BY <1>1 DEF TableName
<1>4. \A c \in Contracts : Con(c) \in ContractRow /\ BuyerOf(c) = buyer[c]
  BY <1>3 DEF Con, BuyerOf, ContractRow
<1>5. \A r \in RowIds :
        /\ r[1] \in Contracts
        /\ Party(r) = IF r[2] = 1 THEN [party |-> buyer[r[1]], open |-> TRUE] ELSE Nil
  BY <1>3 DEF Party, RowIds
<1>6. \A r \in RowIds : Party(r) \in PartyRow \cup {Nil}
  <2> SUFFICES ASSUME NEW r \in RowIds PROVE Party(r) \in PartyRow \cup {Nil}
    OBVIOUS
  <2>1. [party |-> buyer[r[1]], open |-> TRUE] \in PartyRow
    BY <1>5 DEF PartyRow
  <2> QED BY <1>5, <2>1
<1>7. \A r \in RowIds : db["unit_ownerships"][r] \in OwnershipRow \cup {Nil}
  <2> SUFFICES ASSUME NEW r \in RowIds
               PROVE  db["unit_ownerships"][r] \in OwnershipRow \cup {Nil}
    OBVIOUS
  <2>1. [party |-> buyer[r[1]], share |-> 100, active |-> TRUE, open |-> TRUE]
          \in OwnershipRow
    BY <1>5 DEF OwnershipRow
  <2>2. db["unit_ownerships"][r] =
          IF owns /\ r[2] = 1
            THEN [party |-> buyer[r[1]], share |-> 100, active |-> TRUE, open |-> TRUE]
            ELSE Nil
    BY <1>3
  <2> QED BY <2>1, <2>2
<1>8. \A tab \in TableName : /\ db[tab] = [id \in Rows[tab] |-> db[tab][id]]
                             /\ \A id \in Rows[tab] : db[tab][id] \in RowType[tab]
  <2>1. \A id \in Contracts : db["sales_contracts"][id] \in ContractRow
    BY <1>4 DEF Con
  <2>2. \A id \in RowIds : db["sales_contract_parties"][id] \in PartyRow \cup {Nil}
    BY <1>6 DEF Party
  <2>3. \A id \in Transfers : /\ db["ownership_transfers"][id] = Nil
                              /\ db["approval_requests"][id] = Nil
    BY <1>3
  <2>4. /\ db["sales_contracts"] = [id \in Contracts |-> db["sales_contracts"][id]]
        /\ db["sales_contract_parties"] =
             [id \in RowIds |-> db["sales_contract_parties"][id]]
        /\ db["unit_ownerships"] = [id \in RowIds |-> db["unit_ownerships"][id]]
        /\ db["ownership_transfers"] = [id \in Transfers |-> db["ownership_transfers"][id]]
        /\ db["approval_requests"] = [id \in Transfers |-> db["approval_requests"][id]]
    BY <1>3
  <2> QED BY <1>7, <2>1, <2>2, <2>3, <2>4, TableRows DEF TableName, RowType
<1>9. TablesTyped(Rows, RowType) /\ DirtyIsCommitted
  BY <1>2, <1>3, <1>8, TableRows DEF TablesTyped, HasRows, DirtyIsCommitted
<1>10. /\ OwnershipsStay /\ ControlTypeOK
       /\ \A t \in Tx : RequestOK(t) /\ Remembers(t)
  BY <1>2 DEF OwnershipsStay, ControlTypeOK, Statement, RequestOK, Remembers, Completes,
              PastClose, PastInsert, PastBuyer
<1>11. \A t \in Tx : LocksSound(t)
  <2>1. \A tab \in TableName : \A id \in Rows[tab] : owner[tab][id] = Nil
    BY <1>2, TableRows
  <2>2. \A t \in Tx : NothingLocked(t)
    BY <2>1, TableRows, NilAssumption DEF TableName, NothingLocked, PartyLocker, ConLocker,
       TransferLocker, ApprovalLocker
  <2>3. \A t \in Tx : pc[t] # "commit" /\ ~Replacing(t)
    BY <1>2 DEF Replacing, Completes
  <2> QED BY <2>2, <2>3 DEF NothingLocked, LocksSound, PartyLocks, ContractLocks,
                            TransferLocks, ApprovalLocks
<1>12. OneOpen
  <2> SUFFICES ASSUME NEW c \in Contracts PROVE \E r \in RowIds : IsOpenRow(r, c)
    BY DEF OneOpen
  <2>1. <<c, 1>> \in RowIds /\ <<c, 1>>[1] = c /\ <<c, 1>>[2] = 1
    BY TransferAssumption DEF RowIds
  <2>2. Party(<<c, 1>>) = [party |-> BuyerOf(c), open |-> TRUE]
    BY <1>4, <1>5, <2>1
  <2>3. ASSUME NEW s \in RowIds, s[1] = c, Party(s) # Nil PROVE s = <<c, 1>>
    BY <1>5, <2>3 DEF RowIds
  <2> QED BY <2>1, <2>2, <2>3 DEF IsOpenRow
<1> QED BY <1>9, <1>10, <1>11, <1>12 DEF IInv, Typed

\* A step of the protocol, or a stutter, keeps the invariant.
LEMMA IInvKept ==
  ASSUME IInv, [Next]_vars
  PROVE  IInv'
<1>1. CASE Next
  BY <1>1, TypedKept, BooksSoundKept DEF IInv
<1>2. CASE UNCHANGED vars
  <2>1. /\ TablesTyped(Rows, RowType)' /\ DirtyIsCommitted' /\ OwnershipsStay'
        /\ ControlTypeOK' /\ \A t \in Tx : RequestOK(t)'
    BY <1>2, NothingWritten
       DEF vars, storage, IInv, Typed, OwnershipsStay, ControlTypeOK, RequestOK, Completes,
           Sees
  <2>2. OneOpen'
    BY <1>2 DEF vars, IInv, OneOpen, IsOpenRow, BuyerOf, Party
  <2>3. \A t \in Tx : Remembers(t)'
    BY <1>2 DEF vars, IInv, Remembers, Completes, Party, Transfer, Approval
  <2>4. \A t \in Tx : LocksSound(t)'
    BY <1>2, LocksStaySound DEF vars, IInv, Typed, Undisturbed, RowStays
  <2> QED BY <2>1, <2>2, <2>3, <2>4 DEF IInv, Typed
<1> QED BY <1>1, <1>2

\* OneOpen is OneOpenBuyer.
LEMMA OneOpenIsOneOpenBuyer ==
  ASSUME TablesTyped(Rows, RowType), OneOpen
  PROVE  OneOpenBuyer
<1> SUFFICES ASSUME NEW c \in Contracts
             PROVE  /\ Cardinality(OpenRows(c)) = 1
                    /\ \A r \in OpenRows(c) : Party(r).party = BuyerOf(c)
  BY DEF OneOpenBuyer, Party
<1>1. PICK o \in RowIds : IsOpenRow(o, c)
  BY DEF OneOpen
<1>2. /\ Party(o) \in PartyRow /\ Party(o).open /\ Party(o).party = BuyerOf(c)
  <2>1. BuyerOf(c) \in Parties
    BY RowTypes DEF BuyerOf, Con, ContractRow
  <2>2. PICK row : row = [party |-> BuyerOf(c), open |-> TRUE]
    OBVIOUS
  <2>3. row \in PartyRow /\ row.open /\ row.party = BuyerOf(c)
    BY <2>1, <2>2 DEF PartyRow
  <2>4. Party(o) = row
    BY <1>1, <2>2 DEF IsOpenRow
  <2> QED BY <2>3, <2>4, Zenon
<1>3. OpenRows(c) = {o}
  <2>1. o \in OpenRows(c)
    BY <1>1, <1>2, NilIsNoRow DEF IsOpenRow, OpenRows, Party
  <2>2. \A s \in OpenRows(c) : s = o
    BY <1>1 DEF IsOpenRow, OpenRows, Party
  <2> QED BY <2>1, <2>2
<1>4. Cardinality(OpenRows(c)) = 1
  BY <1>3, FS_Singleton
<1> QED BY <1>2, <1>3, <1>4

\* Every reachable state satisfies the invariant.
LEMMA InvariantHolds == Spec => []IInv
<1>1. Init => IInv
  BY InitIInv
<1>2. IInv /\ [Next]_vars => IInv'
  BY IInvKept
<1> QED BY <1>1, <1>2, PTL DEF Spec

\* A contract always has one open row for its primary buyer, and the row names
\* that buyer, however the completions of its transfers interleave: a second
\* one finds the row it read closed, because the first has locked it.
THEOREM OneBuyerEach == Spec => []OneOpenBuyer
<1>1. IInv => OneOpenBuyer
  BY OneOpenIsOneOpenBuyer DEF IInv, Typed
<1> QED BY <1>1, InvariantHolds, PTL

\* A buyer is replaced only by the commit of a transfer from just that buyer,
\* approved and pending until then: neither the status nor the buyer a handler
\* read before can have changed by its commit.
THEOREM BuyersAreReplacedByApproval == Spec => TransferredByApproval
<1> DEFINE Approved(c) ==
             BuyerOf(c)' # BuyerOf(c) =>
               \E f \in Transfers :
                 /\ db.ownership_transfers[f] =
                      [status |-> "pending", contract |-> c,
                       from |-> BuyerOf(c), to |-> BuyerOf(c)']
                 /\ db.ownership_transfers[f].status' = "completed"
                 /\ db.approval_requests[f] = "approved"
           ByApproval == \A c \in Contracts : Approved(c)
<1>1. IInv /\ [Next]_vars => [ByApproval]_vars
  <2> SUFFICES ASSUME IInv, Next, NEW c \in Contracts, BuyerOf(c)' # BuyerOf(c)
               PROVE  \E f \in Transfers :
                        /\ Transfer(f) = [status |-> "pending", contract |-> c,
                                          from |-> BuyerOf(c), to |-> BuyerOf(c)']
                        /\ Transfer(f)'.status = "completed"
                        /\ Approval(f) = "approved"
    BY DEF Transfer, Approval
  <2>1. ~BooksStay
    BY DEF BooksStay
  <2>2. PICK t \in Tx, q \in Completion, r \in RowIds :
          Completes(t) /\ q = req[t] /\ Replaces(q, r)
    BY <2>1, BooksSoundKept
  <2>3. c = q.contract /\ q.transfer \in Transfers
    BY <2>2 DEF Replaces, Completion
  <2>4. /\ Transfer(q.transfer) =
             [status |-> "pending", contract |-> q.contract,
              from |-> BuyerOf(q.contract), to |-> BuyerOf(q.contract)']
        /\ Transfer(q.transfer)'.status = "completed"
        /\ Approval(q.transfer) = "approved"
    BY <2>2, ReplacesByApproval DEF IInv
  <2> QED BY <2>3, <2>4
<1>2. TransferredByApproval <=> [][ByApproval]_vars
  BY DEF TransferredByApproval
<1> QED BY <1>1, <1>2, InvariantHolds, PTL DEF Spec

-----------------------------------------------------------------------------
(***************************************************************************)
(* The share of the unit.  A completion passes on the share it has found,  *)
(* and the row it has found it in is still there when it commits: another  *)
(* completion of the contract would wait for the contract, and no client   *)
(* closes the row.                                                         *)
(***************************************************************************)
\* What is committed, who has locked it, and what it will be.
Owned(r)     == db.unit_ownerships[r]
OwnLocker(r) == owner.unit_ownerships[r]
NewOwned(r)  == dirty.unit_ownerships[r]

\* What a client does to an ownership is not to close it.
NotClosedByHand ==
  \A r \in RowIds : Owned(r)' # Owned(r) /\ OwnLocker(r) = Nil => Owned(r) = Nil

\* The statements of a completion after it has looked for the ownership, and
\* after it has closed that.
PastOwnershipClose == {"create_ownership", "set_completion", "commit"}
PastFind == {"close_ownership"} \cup PastOwnershipClose

\* The ownership t takes the share from.
TakesFrom(t, o) ==
  /\ o \in RowIds /\ o[1] = req[t].contract
  /\ Owned(o) \in OwnershipRow /\ Owned(o).active /\ Owned(o).share = req[t].share

\* The ownerships t has closed: the one it takes the share from, or none.
HasClosed(t, closed) ==
  \/ closed = {} /\ req[t].share = 100
  \/ \E o \in RowIds :
       /\ closed = {o} /\ TakesFrom(t, o)
       /\ OwnLocker(o) = t /\ NewOwned(o) \in OwnershipRow /\ ~NewOwned(o).active

\* The ownership t has inserted.
HasInserted(t, n) ==
  /\ n[1] = req[t].contract /\ OwnLocker(n) = t /\ Owned(n) = Nil
  /\ NewOwned(n) \in OwnershipRow /\ NewOwned(n).active
  /\ NewOwned(n).share = req[t].share

ShareLocks(t) ==
  /\ Completes(t) /\ pc[t] \notin PastFind => req[t].share = 100
  /\ pc[t] = "close_ownership" => TakesFrom(t, req[t].ownership)
  /\ pc[t] = "create_ownership" =>
       \E closed \in SUBSET RowIds :
         /\ HasClosed(t, closed)
         /\ \A r \in RowIds : OwnLocker(r) = t => r \in closed
  /\ Completes(t) /\ pc[t] \in {"set_completion", "commit"} =>
       \E closed \in SUBSET RowIds, n \in RowIds :
         /\ HasClosed(t, closed) /\ HasInserted(t, n)
         /\ \A r \in RowIds : OwnLocker(r) = t => r \in closed \cup {n}
  /\ ~(Completes(t) /\ pc[t] \in PastOwnershipClose) =>
       \A r \in RowIds : OwnLocker(r) # t

SharesLocked == \A t \in Tx : ShareLocks(t)

-----------------------------------------------------------------------------
FindsShare(t) ==
  /\ UNCHANGED storage
  /\ \/ Goes(t, "create_ownership")
     \/ /\ pc'[t] = "close_ownership"
        /\ \E r \in RowIds :
             /\ r[1] = req[t].contract /\ Sees(t, "unit_ownerships", r) # Nil
             /\ Sees(t, "unit_ownerships", r).active
             /\ req'[t] = [req[t] EXCEPT !.ownership = r,
                             !.share = Sees(t, "unit_ownerships", r).share]

ClosesOwnership(t) ==
  /\ Goes(t, "create_ownership")
  /\ \E row \in OwnershipRow :
       /\ ~row.active
       /\ WritesRow(t, "unit_ownerships", req[t].ownership, row)

InsertsOwnership(t) ==
  /\ Goes(t, "set_completion")
  /\ \E r \in RowIds : \E row \in OwnershipRow :
       /\ r[1] = req[t].contract /\ NewOwned(r) = Nil
       /\ row.active /\ row.share = req[t].share
       /\ WritesRow(t, "unit_ownerships", r, row)

\* The statements about ownerships, in detail.
LEMMA ShareEffect ==
  ASSUME Typed, NEW t \in Tx, Step(t), ~Rollback(t)
  PROVE  /\ pc[t] = "find_ownership" => FindsShare(t)
         /\ pc[t] = "close_ownership" => ClosesOwnership(t)
         /\ pc[t] = "create_ownership" => InsertsOwnership(t)
<1> USE DEF Typed
<1>1. /\ pc[t] = "find_ownership" => FindOwnership(t)
      /\ pc[t] = "close_ownership" => CloseOwnership(t)
      /\ pc[t] = "create_ownership" => CreateOwnership(t)
  BY DEF Step, At, InsertTransfer, CloseSalesContractParty, CreateSalesContractParty,
     UpdateSalesContractPrimaryBuyer, FindOwnership, CloseOwnership, CreateOwnership,
     SetOwnershipTransferCompletion, Commit
<1>2. ASSUME FindOwnership(t) PROVE FindsShare(t)
  <2>1. CASE Next_(t, "create_ownership") /\ UNCHANGED storage
    BY <2>1, Requesting DEF FindsShare
  <2>2. CASE /\ UNCHANGED storage
             /\ \E r \in ActiveOwnerships(t, req[t].contract, req[t].from) :
                  /\ req' = [req EXCEPT ![t].ownership = r,
                               ![t].share = Sees(t, "unit_ownerships", r).share]
                  /\ Goto(t, "close_ownership")
    <3>1. PICK r \in ActiveOwnerships(t, req[t].contract, req[t].from) :
                  /\ req' = [req EXCEPT ![t].ownership = r,
                               ![t].share = Sees(t, "unit_ownerships", r).share]
                  /\ Goto(t, "close_ownership")
      BY <2>2
    <3>2. /\ r \in RowIds /\ r[1] = req[t].contract
          /\ Sees(t, "unit_ownerships", r) # Nil /\ Sees(t, "unit_ownerships", r).active
      BY DEF ActiveOwnerships
    <3> DEFINE q == [req[t] EXCEPT !.ownership = r,
                                   !.share = Sees(t, "unit_ownerships", r).share]
    <3>3. req' = [req EXCEPT ![t] = q]
      BY <3>1
    <3>4. pc'[t] = "close_ownership" /\ req'[t] = q
      <4> HIDE DEF q
      <4> QED BY <3>1, <3>3, Requesting
    <3> QED BY <2>2, <3>2, <3>4 DEF FindsShare
  <2> QED BY <1>2, <2>1, <2>2 DEF FindOwnership
<1>3. ASSUME CloseOwnership(t) PROVE ClosesOwnership(t)
  <2> DEFINE r == req[t].ownership
             row == [dirty.unit_ownerships[r] EXCEPT !.active = FALSE, !.open = FALSE]
  <2>1. /\ pc[t] = "close_ownership" /\ Write(t, "unit_ownerships", r, row)
        /\ Goes(t, "create_ownership")
    BY <1>3, Requesting DEF CloseOwnership, At
  <2>2. r \in RowIds /\ Sees(t, "unit_ownerships", r) # Nil
    BY <2>1 DEF RequestOK
  <2>3. dirty.unit_ownerships[r] # Nil
    BY <2>2 DEF Sees, OwnershipsStay
  <2>4. dirty.unit_ownerships[r] \in OwnershipRow
    BY <2>2, <2>3, RowTypes
  <2>5. row \in OwnershipRow /\ ~row.active
    BY <2>4 DEF OwnershipRow
  <2>6. row \in RowType["unit_ownerships"] /\ "unit_ownerships" \in TableName
    BY <2>5 DEF RowType, TableName
  <2> HIDE DEF row
  <2>7. WritesRow(t, "unit_ownerships", r, row)
    BY <2>1, <2>2, <2>6, Writing, TableRows
  <2> QED BY <2>1, <2>5, <2>7 DEF ClosesOwnership
<1>4. ASSUME CreateOwnership(t) PROVE InsertsOwnership(t)
  <2> DEFINE row == [party |-> req[t].to, share |-> req[t].share,
                     active |-> TRUE, open |-> TRUE]
  <2>1. pc[t] = "create_ownership" /\ Goes(t, "set_completion")
    BY <1>4, Requesting DEF CreateOwnership, At
  <2>2. req[t] \in Completion
    BY <2>1 DEF RequestOK, Completes, PastClose, PastInsert, PastBuyer
  <2>3. /\ req[t].to \in Parties /\ req[t].share \in 1..100
        /\ req[t].contract \in Contracts
    BY <2>2 DEF Completion
  <2>4. PICK r \in NewRow("unit_ownerships", req[t].contract) :
          Write(t, "unit_ownerships", r, row)
    BY <1>4 DEF CreateOwnership
  <2>5. r \in RowIds /\ r[1] = req[t].contract /\ NewOwned(r) = Nil
    BY <2>3, NewRowIsFree DEF NewOwned
  <2>6. row \in OwnershipRow /\ row.active /\ row.share = req[t].share
    BY <2>3 DEF OwnershipRow
  <2>7. row \in RowType["unit_ownerships"] /\ "unit_ownerships" \in TableName
    BY <2>6 DEF RowType, TableName
  <2> HIDE DEF row
  <2>8. WritesRow(t, "unit_ownerships", r, row)
    BY <2>4, <2>5, <2>7, Writing, TableRows
  <2> QED BY <2>1, <2>5, <2>6, <2>8 DEF InsertsOwnership
<1> QED BY <1>1, <1>2, <1>3, <1>4

\* The other statements leave the ownerships as they are.
LEMMA OwnershipsUntouched ==
  ASSUME NEW t \in Tx,
         \/ Starts(t) \/ InsertsTransfer(t) \/ ClosesParty(t) \/ OpensParty(t)
         \/ SetsBuyer(t) \/ CompletesTransfer(t) \/ UNCHANGED storage
  PROVE  \A r \in RowIds :
           /\ Owned(r)' = Owned(r) /\ NewOwned(r)' = NewOwned(r)
           /\ OwnLocker(r)' = OwnLocker(r)
<1> SUFFICES ASSUME NEW r \in RowIds PROVE RowStays("unit_ownerships", r)
  BY DEF RowStays, Owned, NewOwned, OwnLocker
<1>1. CASE Starts(t) \/ UNCHANGED storage
  BY <1>1 DEF Starts, storage, RowStays
<1>2. CASE InsertsTransfer(t)
  BY <1>2 DEF InsertsTransfer
<1>3. CASE ClosesParty(t) \/ OpensParty(t) \/ SetsBuyer(t) \/ CompletesTransfer(t)
  <2>1. \E tab \in TableName \ {"unit_ownerships"} : \E id \in Rows[tab] : \E row :
          WritesRow(t, tab, id, row)
    BY <1>3, TableRows DEF ClosesParty, OpensParty, SetsBuyer, CompletesTransfer,
       TableName, Completes, Completion
  <2> QED BY <2>1, TableRows DEF TableName, WritesRow, RowsStayBut
<1> QED BY <1>1, <1>2, <1>3

\* At first nothing is locked.
LEMMA InitShares == Init => SharesLocked
<1> SUFFICES ASSUME Init, NEW t \in Tx PROVE ShareLocks(t)
  BY DEF SharesLocked
<1>1. pc[t] = "idle" /\ \A tab \in TableName : \A id \in Rows[tab] : owner[tab][id] = Nil
  BY TableRows DEF Init
<1>2. \A r \in RowIds : OwnLocker(r) # t
  BY <1>1, TableRows, NilAssumption DEF TableName, OwnLocker
<1> QED BY <1>1, <1>2 DEF ShareLocks, Completes

\* What a completion has found and locked stays what it is, if the row it has
\* found is left to it.
LEMMA SharesStay ==
  ASSUME NEW x \in Tx, ShareLocks(x), Undisturbed(x), pc'[x] = pc[x], req'[x] = req[x],
         pc[x] = "close_ownership" =>
           Owned(req[x].ownership)' = Owned(req[x].ownership)
  PROVE  ShareLocks(x)'
<1>1. \A r \in RowIds :
        /\ OwnLocker(r) = x => /\ OwnLocker(r)' = x /\ Owned(r)' = Owned(r)
                               /\ NewOwned(r)' = NewOwned(r)
        /\ OwnLocker(r)' = x => OwnLocker(r) = x
  BY LockedRows DEF RowStays, Owned, OwnLocker, NewOwned
<1>2. ASSUME NEW closed, HasClosed(x, closed) PROVE HasClosed(x, closed)'
  <2>1. CASE closed = {} /\ req[x].share = 100
    BY <2>1 DEF HasClosed
  <2>2. CASE \E o \in RowIds :
               /\ closed = {o} /\ TakesFrom(x, o)
               /\ OwnLocker(o) = x /\ NewOwned(o) \in OwnershipRow
               /\ ~NewOwned(o).active
    <3>1. PICK o \in RowIds :
               /\ closed = {o} /\ TakesFrom(x, o)
               /\ OwnLocker(o) = x /\ NewOwned(o) \in OwnershipRow
               /\ ~NewOwned(o).active
      BY <2>2
    <3>2. Owned(o)' = Owned(o) /\ NewOwned(o)' = NewOwned(o) /\ OwnLocker(o)' = x
      BY <1>1, <3>1
    <3>3. TakesFrom(x, o)'
      BY <3>1, <3>2 DEF TakesFrom
    <3> QED BY <3>1, <3>2, <3>3 DEF HasClosed
  <2> QED BY <1>2, <2>1, <2>2 DEF HasClosed
<1>3. \A n \in RowIds : HasInserted(x, n) => HasInserted(x, n)'
  BY <1>1 DEF HasInserted
<1>4. Completes(x)' <=> Completes(x)
  BY DEF Completes
<1>5. pc[x] = "close_ownership" => TakesFrom(x, req[x].ownership)'
  BY DEF ShareLocks, TakesFrom
<1>6. ASSUME pc[x] = "create_ownership"
      PROVE  \E closed \in SUBSET RowIds :
               /\ HasClosed(x, closed)'
               /\ \A r \in RowIds : OwnLocker(r)' = x => r \in closed
  <2>1. PICK closed \in SUBSET RowIds :
               /\ HasClosed(x, closed)
               /\ \A r \in RowIds : OwnLocker(r) = x => r \in closed
    BY <1>6 DEF ShareLocks
  <2> QED BY <1>1, <1>2, <2>1
<1>7. ASSUME Completes(x), pc[x] \in {"set_completion", "commit"}
      PROVE  \E closed \in SUBSET RowIds, n \in RowIds :
               /\ HasClosed(x, closed)' /\ HasInserted(x, n)'
               /\ \A r \in RowIds : OwnLocker(r)' = x => r \in closed \cup {n}
  <2>1. PICK closed \in SUBSET RowIds, n \in RowIds :
               /\ HasClosed(x, closed) /\ HasInserted(x, n)
               /\ \A r \in RowIds : OwnLocker(r) = x => r \in closed \cup {n}
    BY <1>7 DEF ShareLocks
  <2> QED BY <1>1, <1>2, <1>3, <2>1
<1>8. /\ Completes(x) /\ pc[x] \notin PastFind => req[x].share = 100
      /\ ~(Completes(x) /\ pc[x] \in PastOwnershipClose) =>
           \A r \in RowIds : OwnLocker(r)' # x
  BY <1>1 DEF ShareLocks
<1> QED BY <1>4, <1>5, <1>6, <1>7, <1>8 DEF ShareLocks

\* Two completions of a contract do not both get past its buyer, so the
\* ownership that one has found the other does not close; nor do clients.
LEMMA FoundStays ==
  ASSUME IInv, SharesLocked, NotClosedByHand, NEW x \in Tx,
         ByClient \/ \E t \in Tx \ {x} : Does(t),
         pc[x] = "close_ownership", NEW o, o = req[x].ownership
  PROVE  Owned(o)' = Owned(o)
<1>1. TakesFrom(x, o) /\ Completes(x) /\ Replacing(x)
  BY DEF IInv, Typed, RequestOK, SharesLocked, ShareLocks, Replacing, PastClose,
     PastInsert, PastBuyer
<1>2. o \in RowIds /\ o[1] = req[x].contract /\ Owned(o) # Nil
      /\ req[x].contract \in Contracts
  BY <1>1, NilIsNoRow DEF TakesFrom, Completes, Completion
<1>3. OwnLocker(o) \in Tx \cup {Nil}
  BY <1>2, TableRows DEF IInv, Typed, TablesTyped, TableName, OwnLocker
<1>4. CASE ByClient
  <2>1. CASE OwnLocker(o) = Nil
    BY <1>2, <2>1 DEF NotClosedByHand
  <2>2. CASE OwnLocker(o) \in Tx
    <3>1. PICK y \in Tx : OwnLocker(o) = y
      BY <2>2
    <3>2. Undisturbed(y)
      BY <1>4, ClientDisturbsNobody
    <3>3. RowStays("unit_ownerships", o)
      BY <1>2, <3>1, <3>2, LockedRows DEF OwnLocker
    <3> QED BY <3>3 DEF RowStays, Owned
  <2> QED BY <1>3, <2>1, <2>2
<1>5. ASSUME NEW t \in Tx \ {x}, Does(t) PROVE Owned(o)' = Owned(o)
  <2>1. OwnLocker(o) # t
    <3> SUFFICES ASSUME OwnLocker(o) = t PROVE FALSE
      OBVIOUS
    <3>1. Completes(t) /\ pc[t] \in PastOwnershipClose
      BY <1>2 DEF SharesLocked, ShareLocks
    <3>2. o[1] = req[t].contract
      <4>1. \E closed : HasClosed(t, closed)
              /\ (o \in closed \/ \E n \in RowIds : HasInserted(t, n) /\ o = n)
        BY <1>2, <3>1 DEF SharesLocked, ShareLocks, PastOwnershipClose
      <4> QED BY <4>1 DEF HasClosed, TakesFrom, HasInserted
    <3>3. Replacing(t) /\ pc[t] \in PastBuyer /\ pc[x] \in PastBuyer
      BY <3>1 DEF Replacing, PastClose, PastInsert, PastBuyer, PastOwnershipClose
    <3> QED BY <1>1, <1>2, <3>2, <3>3 DEF IInv, LocksSound, ContractLocks
  <2>2. Touches(t, "unit_ownerships", o)
    BY <1>2, <1>5, RowsTouched, TableRows DEF TableName
  <2> QED BY <2>1, <2>2
          DEF Touches, RowStays, RowReleased, RowWritten, Owned, OwnLocker
<1> QED BY <1>4, <1>5

\* The statements of a completion keep it so.
LEMMA OwnShares ==
  ASSUME IInv, SharesLocked, NEW t \in Tx, Does(t),
         pc[t] = "find_ownership" => FindsShare(t) \/ Ends(t),
         pc[t] = "close_ownership" => ClosesOwnership(t) \/ Ends(t),
         pc[t] = "create_ownership" => InsertsOwnership(t) \/ Ends(t)
  PROVE  ShareLocks(t)'
<1> USE DEF PastFind, PastOwnershipClose
<1>0. ShareLocks(t) /\ RequestOK(t)
  BY DEF SharesLocked, IInv, Typed
<1>1. CASE Ends(t)
  <2>1. \A r \in RowIds : OwnLocker(r)' # t
    BY <1>1, TableRows, NilAssumption DEF Ends, TableName, RowReleased, OwnLocker
  <2>2. pc'[t] = "idle"
    BY <1>1 DEF Ends
  <2> QED BY <2>1, <2>2 DEF ShareLocks, Completes
<1>2. CASE Starts(t) \/ InsertsTransfer(t) \/ ClosesParty(t) \/ OpensParty(t) \/ SetsBuyer(t)
  <2>1. \A r \in RowIds : OwnLocker(r)' = OwnLocker(r)
    BY <1>2, OwnershipsUntouched
  <2>2. \A r \in RowIds : OwnLocker(r) # t
    BY <1>0, <1>2 DEF ShareLocks, Starts, InsertsTransfer, ClosesParty, OpensParty, SetsBuyer
  <2>3. ~Completes(t)' \/ (pc'[t] \notin PastFind /\ req'[t].share = 100)
    <3>1. CASE Starts(t)
      BY <3>1, Kinds DEF Starts, Completes
    <3>2. CASE InsertsTransfer(t)
      BY <3>2, Kinds DEF InsertsTransfer, Goes, Completes
    <3>3. CASE ClosesParty(t) \/ OpensParty(t) \/ SetsBuyer(t)
      BY <1>0, <3>3 DEF ClosesParty, OpensParty, SetsBuyer, Goes, Completes, ShareLocks
    <3> QED BY <1>2, <3>1, <3>2, <3>3
  <2>4. pc'[t] \notin {"close_ownership", "create_ownership"}
    BY <1>2 DEF Starts, InsertsTransfer, ClosesParty, OpensParty, SetsBuyer, Goes
  <2> QED BY <2>1, <2>2, <2>3, <2>4 DEF ShareLocks
<1>3. CASE FindsShare(t) /\ pc[t] = "find_ownership" /\ ~Ends(t)
  <2>1. PICK q \in Completion : q = req[t]
    BY <1>0, <1>3 DEF RequestOK, Completes, PastClose, PastInsert, PastBuyer
  <2>2. \A r \in RowIds : OwnLocker(r) # t /\ OwnLocker(r)' # t /\ Owned(r)' = Owned(r)
    BY <1>0, <1>3 DEF ShareLocks, FindsShare, storage, OwnLocker, Owned
  <2>3. q.share = 100
    BY <1>0, <1>3, <2>1 DEF ShareLocks, Completes
  <2>4. CASE Goes(t, "create_ownership")
    <3>1. HasClosed(t, {})'
      BY <2>1, <2>3, <2>4 DEF HasClosed, Goes
    <3> QED BY <2>2, <2>4, <3>1 DEF ShareLocks, Goes
  <2>5. CASE /\ pc'[t] = "close_ownership"
             /\ \E r \in RowIds :
                  /\ r[1] = req[t].contract /\ Sees(t, "unit_ownerships", r) # Nil
                  /\ Sees(t, "unit_ownerships", r).active
                  /\ req'[t] = [req[t] EXCEPT !.ownership = r,
                                  !.share = Sees(t, "unit_ownerships", r).share]
    <3>1. PICK r \in RowIds :
                  /\ r[1] = q.contract /\ Sees(t, "unit_ownerships", r) # Nil
                  /\ Sees(t, "unit_ownerships", r).active
                  /\ req'[t] = [q EXCEPT !.ownership = r,
                                  !.share = Sees(t, "unit_ownerships", r).share]
      BY <2>1, <2>5
    <3>2. Sees(t, "unit_ownerships", r) = Owned(r)
      BY <2>2 DEF Sees, OwnLocker, Owned
    <3>3. Owned(r) \in OwnershipRow
      BY <3>1, <3>2, RowTypes DEF IInv, Typed, Owned
    <3>4. PICK p : p = [q EXCEPT !.ownership = r, !.share = Owned(r).share]
      OBVIOUS
    <3>5. p.ownership = r /\ p.contract = q.contract /\ p.share = Owned(r).share
      BY <3>4 DEF Completion
    <3>6. req'[t] = p
      BY <3>1, <3>2, <3>4
    <3>7. Owned(r) \in OwnershipRow /\ Owned(r).active /\ Owned(r)' = Owned(r)
      BY <2>2, <3>1, <3>2, <3>3
    <3>8. TakesFrom(t, r)'
      BY <3>1, <3>5, <3>6, <3>7 DEF TakesFrom
    <3>9. pc'[t] = "close_ownership" /\ req'[t].ownership = r
      BY <2>5, <3>5, <3>6
    <3> QED BY <2>2, <3>8, <3>9 DEF ShareLocks
  <2> QED BY <1>3, <2>4, <2>5 DEF FindsShare
<1>4. CASE ClosesOwnership(t) /\ pc[t] = "close_ownership" /\ ~Ends(t)
  <2> DEFINE o == req[t].ownership
  <2>1. TakesFrom(t, o) /\ \A r \in RowIds : OwnLocker(r) # t
    BY <1>0, <1>4 DEF ShareLocks
  <2>2. PICK row \in OwnershipRow :
          ~row.active /\ WritesRow(t, "unit_ownerships", o, row)
    BY <1>4 DEF ClosesOwnership
  <2>3. /\ o \in RowIds /\ Owned(o)' = Owned(o)
        /\ OwnLocker(o)' = t /\ NewOwned(o)' = row
        /\ \A r \in RowIds \ {o} : OwnLocker(r)' # t
    <3>1. o \in RowIds
      BY <2>1 DEF TakesFrom
    <3>2. PICK n \in RowIds : n = o
      BY <3>1
    <3>3. /\ Owned(n)' = Owned(n) /\ OwnLocker(n)' = t /\ NewOwned(n)' = row
          /\ \A r \in RowIds \ {n} : OwnLocker(r)' # t
      BY <2>1, <2>2, <3>2, TableRows
         DEF WritesRow, RowWritten, RowsStayBut, RowStays, Owned, OwnLocker, NewOwned
    <3>4. req'[t] = req[t]
      BY <1>4 DEF ClosesOwnership, Goes
    <3> QED BY <3>2, <3>3, <3>4
  <2>4. pc'[t] = "create_ownership" /\ req'[t] = req[t]
    BY <1>4 DEF ClosesOwnership, Goes
  <2>5. PICK n : n = o
    OBVIOUS
  <2>6. TakesFrom(t, n)'
    BY <2>1, <2>3, <2>4, <2>5 DEF TakesFrom
  <2>7. HasClosed(t, {n})' /\ \A r \in RowIds : OwnLocker(r)' = t => r \in {n}
    BY <2>2, <2>3, <2>4, <2>5, <2>6 DEF HasClosed
  <2>8. {n} \in SUBSET RowIds
    BY <2>3, <2>5
  <2>9. Completes(t) => Completes(t)'
    BY <2>4 DEF Completes
  <2>10. Completes(t)
    BY <1>0, <1>4 DEF RequestOK, PastClose, PastInsert, PastBuyer
  <2> QED BY <2>4, <2>7, <2>8, <2>9, <2>10 DEF ShareLocks
<1>5. CASE InsertsOwnership(t) /\ pc[t] = "create_ownership" /\ ~Ends(t)
  <2>1. PICK closed \in SUBSET RowIds :
          HasClosed(t, closed) /\ \A r \in RowIds : OwnLocker(r) = t => r \in closed
    BY <1>0, <1>5 DEF ShareLocks
  <2>2. PICK n \in RowIds, row \in OwnershipRow :
          /\ n[1] = req[t].contract /\ NewOwned(n) = Nil
          /\ row.active /\ row.share = req[t].share
          /\ WritesRow(t, "unit_ownerships", n, row)
    BY <1>5 DEF InsertsOwnership
  <2>3. pc'[t] = "set_completion" /\ req'[t] = req[t]
    BY <1>5 DEF InsertsOwnership, Goes
  <2>4. /\ Owned(n)' = Owned(n) /\ OwnLocker(n) \in {Nil, t}
        /\ OwnLocker(n)' = t /\ NewOwned(n)' = row
        /\ \A r \in RowIds \ {n} : /\ Owned(r)' = Owned(r) /\ OwnLocker(r)' = OwnLocker(r)
                                   /\ NewOwned(r)' = NewOwned(r)
    BY <2>2, TableRows
       DEF WritesRow, RowWritten, RowsStayBut, RowStays, Owned, OwnLocker, NewOwned
  <2>5. OwnLocker(n) # t
    BY <2>1, <2>2, NilIsNoRow DEF HasClosed
  <2>6. Owned(n) = Nil
    <3>1. OwnLocker(n) = Nil
      BY <2>4, <2>5
    <3>2. /\ "unit_ownerships" \in DOMAIN owner
          /\ n \in DOMAIN owner["unit_ownerships"]
      <4>1. /\ Tabular /\ DOMAIN db = TableName
            /\ \A x \in TableName : DOMAIN db[x] = Rows[x]
        BY TypedTabular, TableRows DEF IInv, Typed
      <4>2. "unit_ownerships" \in TableName /\ n \in Rows["unit_ownerships"]
        BY TableRows DEF TableName
      <4> QED BY <4>1, <4>2 DEF Tabular
    <3>3. NewOwned(n) = Owned(n)
      BY <3>1, <3>2 DEF IInv, Typed, DirtyIsCommitted, OwnLocker, NewOwned, Owned
    <3> QED BY <2>2, <3>3
  <2>7. HasInserted(t, n)'
    BY <2>2, <2>3, <2>4, <2>6 DEF HasInserted
  <2>8. HasClosed(t, closed)'
    <3>1. CASE closed = {} /\ req[t].share = 100
      BY <2>3, <3>1 DEF HasClosed
    <3>2. CASE \E o \in RowIds :
                 /\ closed = {o} /\ TakesFrom(t, o)
                 /\ OwnLocker(o) = t /\ NewOwned(o) \in OwnershipRow
                 /\ ~NewOwned(o).active
      <4>1. PICK o \in RowIds :
                 /\ closed = {o} /\ TakesFrom(t, o)
                 /\ OwnLocker(o) = t /\ NewOwned(o) \in OwnershipRow
                 /\ ~NewOwned(o).active
        BY <3>2
      <4>2. Owned(o)' = Owned(o) /\ NewOwned(o)' = NewOwned(o) /\ OwnLocker(o)' = t
        BY <2>4, <2>5, <4>1
      <4>3. TakesFrom(t, o)'
        BY <2>3, <4>1, <4>2 DEF TakesFrom
      <4> QED BY <4>1, <4>2, <4>3 DEF HasClosed
    <3> QED BY <2>1, <3>1, <3>2 DEF HasClosed
  <2>9. \A r \in RowIds : OwnLocker(r)' = t => r \in closed \cup {n}
    BY <2>1, <2>4
  <2>10. Completes(t)'
    BY <1>0, <1>5, <2>3 DEF RequestOK, Completes, PastClose, PastInsert, PastBuyer
  <2> QED BY <2>3, <2>7, <2>8, <2>9, <2>10 DEF ShareLocks
<1>6. CASE CompletesTransfer(t)
  <2>1. \A r \in RowIds : /\ Owned(r)' = Owned(r) /\ NewOwned(r)' = NewOwned(r)
                          /\ OwnLocker(r)' = OwnLocker(r)
    BY <1>6, OwnershipsUntouched
  <2>2. /\ pc[t] = "set_completion" /\ pc'[t] = "commit" /\ req'[t] = req[t]
        /\ Completes(t) /\ Completes(t)'
    BY <1>6 DEF CompletesTransfer, Goes, Completes
  <2>3. PICK closed \in SUBSET RowIds, n \in RowIds :
               /\ HasClosed(t, closed) /\ HasInserted(t, n)
               /\ \A r \in RowIds : OwnLocker(r) = t => r \in closed \cup {n}
    BY <1>0, <2>2 DEF ShareLocks
  <2>4. HasClosed(t, closed)' /\ HasInserted(t, n)'
    <3>1. HasInserted(t, n)'
      BY <2>1, <2>2, <2>3 DEF HasInserted
    <3>2. \A o \in RowIds : TakesFrom(t, o) => TakesFrom(t, o)'
      BY <2>1, <2>2 DEF TakesFrom
    <3>3. HasClosed(t, closed)'
      BY <2>1, <2>2, <2>3, <3>2 DEF HasClosed
    <3> QED BY <3>1, <3>3
  <2> QED BY <2>1, <2>2, <2>3, <2>4 DEF ShareLocks
<1>7. CASE FindsOwnership(t) \/ ChangesOwnership(t)
  BY <1>1, <1>3, <1>4, <1>5, <1>7 DEF FindsOwnership, ChangesOwnership
<1> QED BY <1>1, <1>2, <1>6, <1>7 DEF Does

\* When nothing happens, nothing changes.
LEMMA SharesStutter ==
  ASSUME SharesLocked, UNCHANGED vars
  PROVE  SharesLocked'
<1> SUFFICES ASSUME NEW x \in Tx PROVE ShareLocks(x)'
  BY DEF SharesLocked
<1>1. pc' = pc /\ req' = req /\ UNCHANGED storage
  BY DEF vars, storage
<1>2. Undisturbed(x)
  BY <1>1 DEF storage, Undisturbed, RowStays
<1>3. Owned(req[x].ownership)' = Owned(req[x].ownership)
  BY <1>1 DEF storage, Owned
<1> QED BY <1>1, <1>2, <1>3, SharesStay DEF SharesLocked

\* So SharesLocked is inductive, given the invariant, while clients close no
\* ownership.
LEMMA SharesLockedKept ==
  ASSUME IInv, SharesLocked, Next, NotClosedByHand
  PROVE  SharesLocked'
<1>0. /\ Typed /\ \A t \in Tx : Remembers(t) /\ LocksSound(t)
      /\ ByClient \/ \E t \in Tx : Does(t)
  BY TypedKept DEF IInv
<1>1. CASE Others
  <2>1. ByClient
    BY <1>0, <1>1, ClientEffect
  <2>2. ASSUME NEW x \in Tx PROVE ShareLocks(x)'
    <3>1. Undisturbed(x) /\ pc'[x] = pc[x] /\ req'[x] = req[x]
      BY <2>1, ClientDisturbsNobody DEF ByClient
    <3>2. pc[x] = "close_ownership" =>
            \A o : o = req[x].ownership => Owned(o)' = Owned(o)
      BY <2>1, FoundStays
    <3>3. pc[x] = "close_ownership" =>
            Owned(req[x].ownership)' = Owned(req[x].ownership)
      BY <3>1, <3>2
    <3> QED BY <3>1, <3>3, SharesStay DEF SharesLocked
  <2> QED BY <2>2 DEF SharesLocked
<1>2. ASSUME NEW t \in Tx, Start(t) \/ Step(t) PROVE SharesLocked'
  <2>1. Does(t)
    BY <1>0, <1>2, StepEffect
  <2>2. OthersStay(t)
    BY <2>1 DEF Does, Starts, InsertsTransfer, ClosesParty, OpensParty, SetsBuyer,
                FindsOwnership, ChangesOwnership, CompletesTransfer, Ends, Goes
  <2>3. ShareLocks(t)'
    <3>1. CASE Step(t) /\ ~Rollback(t)
      BY <1>0, <2>1, <3>1, ShareEffect, OwnShares
    <3>2. CASE Step(t) /\ Rollback(t)
      BY <1>0, <2>1, <3>2, EndEffect, OwnShares
    <3>3. CASE Start(t)
      <4>1. pc[t] = "idle"
        BY <1>0, <3>3, StartEffect DEF Starts
      <4> QED BY <2>1, <4>1, OwnShares
    <3> QED BY <1>2, <3>1, <3>2, <3>3
  <2>4. ASSUME NEW x \in Tx \ {t} PROVE ShareLocks(x)'
    <3>1. Undisturbed(x) /\ pc'[x] = pc[x] /\ req'[x] = req[x]
      BY <2>1, <2>2, OthersUndisturbed DEF OthersStay
    <3>2. pc[x] = "close_ownership" =>
            \A o : o = req[x].ownership => Owned(o)' = Owned(o)
      BY <2>1, FoundStays
    <3>3. pc[x] = "close_ownership" =>
            Owned(req[x].ownership)' = Owned(req[x].ownership)
      BY <3>1, <3>2
    <3> QED BY <3>1, <3>3, SharesStay DEF SharesLocked
  <2> QED BY <2>3, <2>4 DEF SharesLocked
<1> QED BY <1>1, <1>2 DEF Next

\* What is active in a contract's unit before and after a completion of it.
LEMMA CompletionPasses ==
  ASSUME IInv, SharesLocked, NEW t \in Tx, CommitTx(t), pc[t] = "commit", Completes(t),
         NEW c \in Contracts, c = req[t].contract
  PROVE  LET closed == ActiveRows(c) \ ActiveRows(c)'
             opened == ActiveRows(c)' \ ActiveRows(c)
         IN /\ Cardinality(opened) = 1 /\ Cardinality(closed) <= 1
            /\ \A r \in opened :
                 ShareOf(r)' = IF closed = {} THEN 100
                               ELSE ShareOf(CHOOSE o \in closed : TRUE)
<1> DEFINE closed == ActiveRows(c) \ ActiveRows(c)'
           opened == ActiveRows(c)' \ ActiveRows(c)
<1>1. PICK S \in SUBSET RowIds, n \in RowIds :
        /\ HasClosed(t, S) /\ HasInserted(t, n)
        /\ \A r \in RowIds : OwnLocker(r) = t => r \in S \cup {n}
  BY DEF SharesLocked, ShareLocks
<1>2. \A r \in RowIds : Owned(r)' = IF OwnLocker(r) = t THEN NewOwned(r) ELSE Owned(r)
  <2>1. /\ Tabular /\ DOMAIN db = TableName
        /\ \A x \in TableName : DOMAIN db[x] = Rows[x]
    BY TypedTabular, TableRows DEF IInv, Typed
  <2>2. "unit_ownerships" \in DOMAIN db
        /\ \A r \in RowIds : r \in DOMAIN db["unit_ownerships"]
    BY <2>1, TableRows DEF TableName
  <2> QED BY <2>1, <2>2, EndChanges DEF Owned, OwnLocker, NewOwned
<1>3. /\ n \in ActiveRows(c)' /\ n \notin ActiveRows(c)
      /\ Owned(n)' = NewOwned(n) /\ NewOwned(n).share = req[t].share
  <2>1. Owned(n)' = NewOwned(n) /\ NewOwned(n) # Nil /\ Owned(n) = Nil
    BY <1>1, <1>2, NilIsNoRow DEF HasInserted
  <2> QED BY <1>1, <2>1 DEF HasInserted, ActiveRows, Owned
<1>4. S \subseteq ActiveRows(c) /\ S \cap ActiveRows(c)' = {}
  <2> SUFFICES ASSUME NEW o \in S
               PROVE  o \in ActiveRows(c) /\ o \notin ActiveRows(c)'
    OBVIOUS
  <2>1. TakesFrom(t, o) /\ OwnLocker(o) = t /\ NewOwned(o) \in OwnershipRow
        /\ ~NewOwned(o).active /\ o \in RowIds
    BY <1>1 DEF HasClosed
  <2>2. Owned(o)' = NewOwned(o) /\ Owned(o) # Nil /\ Owned(o).active /\ o[1] = c
    BY <1>2, <2>1, NilIsNoRow DEF TakesFrom
  <2> QED BY <2>1, <2>2 DEF ActiveRows, Owned
<1>5. \A r \in RowIds \ (S \cup {n}) : r \in ActiveRows(c)' <=> r \in ActiveRows(c)
  BY <1>1, <1>2 DEF ActiveRows, Owned
<1>6. ActiveRows(c) \subseteq RowIds /\ ActiveRows(c)' \subseteq RowIds
  BY DEF ActiveRows
<1>7. closed = S /\ opened = {n}
  <2> HIDE DEF closed, opened
  <2>1. closed = S
    BY <1>1, <1>3, <1>4, <1>5, <1>6 DEF closed
  <2>2. opened = {n}
    BY <1>1, <1>3, <1>4, <1>5, <1>6 DEF opened
  <2> QED BY <2>1, <2>2
<1>8. Cardinality(opened) = 1 /\ Cardinality(closed) <= 1
  <2>1. Cardinality({n}) = 1
    BY FS_Singleton
  <2>2. Cardinality(S) \in {0, 1}
    BY <1>1, FS_Singleton, FS_EmptySet DEF HasClosed
  <2> HIDE DEF closed, opened
  <2> QED BY <1>7, <2>1, <2>2
<1>9. ShareOf(n)' = req[t].share
  BY <1>3 DEF ShareOf, Owned
<1>10. CASE S = {} /\ req[t].share = 100
  BY <1>7, <1>8, <1>9, <1>10
<1>11. CASE \E o \in RowIds : S = {o} /\ TakesFrom(t, o)
  <2>1. PICK o \in RowIds : S = {o} /\ TakesFrom(t, o)
    BY <1>11
  <2>2. ShareOf(o) = req[t].share
    BY <2>1 DEF TakesFrom, ShareOf, Owned
  <2>3. (CHOOSE x \in S : TRUE) = o
    BY <2>1
  <2> QED BY <1>7, <1>8, <1>9, <2>1, <2>2, <2>3
<1> QED BY <1>1, <1>10, <1>11 DEF HasClosed

\* And it is the only step that gives a contract a new buyer.
LEMMA SharesPassed ==
  ASSUME IInv, SharesLocked, Next
  PROVE  SharePassed
<1> SUFFICES ASSUME NEW c \in Contracts, BuyerOf(c)' # BuyerOf(c)
             PROVE  LET closed == ActiveRows(c) \ ActiveRows(c)'
                        opened == ActiveRows(c)' \ ActiveRows(c)
                    IN /\ Cardinality(opened) = 1 /\ Cardinality(closed) <= 1
                       /\ \A r \in opened :
                            ShareOf(r)' = IF closed = {} THEN 100
                                          ELSE ShareOf(CHOOSE o \in closed : TRUE)
  BY DEF SharePassed
<1>1. /\ Typed /\ \A t \in Tx : Remembers(t) /\ LocksSound(t)
      /\ ~BooksStay
  BY DEF IInv, BooksStay
<1>2. PICK t \in Tx : Does(t)
  BY <1>1, TypedKept, ClientKeepsBooks
<1>3. /\ Completes(t) /\ Ends(t)
      /\ \E q \in Completion, r \in RowIds : q = req[t] /\ Replaces(q, r)
  BY <1>1, <1>2, BooksChangeByCompletion
<1>4. c = req[t].contract
  BY <1>3 DEF Replaces
<1>5. ~RollbackTx(t)
  BY DEF RollbackTx, BuyerOf
<1> QED BY <1>3, <1>4, <1>5, CompletionPasses DEF Ends

\* While clients close no ownership by hand, whatever they enter and however
\* transfers interleave, a completion closes one ownership at most and gives
\* the new owner the share that one has, or all of the unit: FindOwnership and
\* CloseOwnership are two statements, and nobody comes between them.
THEOREM SharesPassOn ==
  Spec /\ [][NotClosedByHand]_vars => [][SharePassed]_vars
<1>1. Init => SharesLocked
  BY InitShares
<1>2. IInv /\ SharesLocked /\ [Next]_vars /\ [NotClosedByHand]_vars => SharesLocked'
  <2>1. CASE UNCHANGED vars
    BY <2>1, SharesStutter
  <2> QED BY <2>1, SharesLockedKept
<1>3. IInv /\ SharesLocked /\ [Next]_vars => [SharePassed]_vars
  BY SharesPassed
<1> QED BY <1>1, <1>2, <1>3, InvariantHolds, PTL DEF Spec

\* The workloads in which clients enter ownerships and do not close them are
\* such.
THEOREM TransfersOfSharesPassOn == MCSpec => TransfersPassSharesOn
<1> DEFINE Enters == load.byHand = "create"
           Safe == Enters => SharesLocked
<1>1. MCInit => Init /\ Safe
  BY InitShares DEF MCInit
<1>2. [MCNext]_<<vars, load>> => [Next]_vars /\ (Enters' <=> Enters)
  BY DEF MCNext
<1>3. IInv /\ Safe /\ [MCNext]_<<vars, load>> => Safe'
  <2> SUFFICES ASSUME IInv, SharesLocked, Enters, [MCNext]_<<vars, load>>
               PROVE  SharesLocked'
    BY <1>2
  <2>1. CASE UNCHANGED vars
    BY <2>1, SharesStutter
  <2>2. CASE MCNext
    <3>1. NotClosedByHand
      BY <2>2 DEF MCNext, ByHand, NotClosedByHand, Owned, OwnLocker
    <3> QED BY <2>2, <3>1, SharesLockedKept DEF MCNext
  <2> QED BY <2>1, <2>2
<1>4. IInv /\ Safe /\ [MCNext]_<<vars, load>>
        => [load.byHand = "create" => SharePassed]_<<vars, load>>
  BY SharesPassed DEF MCNext
<1>5. MCSpec => Spec
  BY <1>1, <1>2, PTL DEF MCSpec, Spec
<1> HIDE DEF Safe
<1> QED BY <1>1, <1>3, <1>4, <1>5, InvariantHolds, PTL
        DEF MCSpec, TransfersPassSharesOn
=============================================================================
