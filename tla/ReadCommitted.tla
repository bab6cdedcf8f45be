---------------------------- MODULE ReadCommitted ----------------------------
(***************************************************************************)
(* The transactions every handler runs its statements in.  A handler calls *)
(* pool.WithTx, which begins a PostgreSQL transaction with default options *)
(* (READ COMMITTED), runs the handler's closure and then commits, or rolls *)
(* back when the closure returns an error, the request's context times out *)
(* or the connection is lost.                                              *)
(*                                                                         *)
(* db is what is committed: a function from table names to tables, and a   *)
(* table is a function from row ids to rows.  A row written by a           *)
(* transaction that has not ended is locked by it (owner) and its new      *)
(* version (dirty) is seen by that transaction only; the dirty version of  *)
(* a row nobody has locked is its committed one.  An UPDATE of a row       *)
(* somebody else has locked waits, and then applies to the latest          *)
(* committed version, so a writer always computes from dirty.  No handler  *)
(* asks for SELECT ... FOR UPDATE: a read takes no lock and sees the last  *)
(* committed version, which may be replaced before the statement that      *)
(* relies on it runs.                                                      *)
(***************************************************************************)

CONSTANTS
  Tx,    \* slots for concurrent requests, each running one transaction
  Nil    \* "nobody" and "nothing"

ASSUME NilAssumption == Nil \notin Tx

VARIABLES db, dirty, owner

storage == <<db, dirty, owner>>

\* Nobody but t has locked the row: an UPDATE by t does not wait.
Free(t, tab, id) == owner[tab][id] \in {Nil, t}

\* What a SELECT by t returns.
Sees(t, tab, id) ==
  IF owner[tab][id] = t THEN dirty[tab][id] ELSE db[tab][id]

\* An INSERT or UPDATE by t that leaves the row in version row.
Write(t, tab, id, row) ==
  /\ Free(t, tab, id)
  /\ dirty' = [dirty EXCEPT ![tab][id] = row]
  /\ owner' = [owner EXCEPT ![tab][id] = t]
  /\ db' = db

\* A statement of t that writes several rows: each <<table, id, row>> of rows.
WriteAll(t, rows) ==
  /\ \A r \in rows : Free(t, r[1], r[2])
  /\ dirty' = [tab \in DOMAIN dirty |->
                 [id \in DOMAIN dirty[tab] |->
                    IF \E r \in rows : r[1] = tab /\ r[2] = id
                      THEN (CHOOSE r \in rows : r[1] = tab /\ r[2] = id)[3]
                      ELSE dirty[tab][id]]]
  /\ owner' = [tab \in DOMAIN owner |->
                 [id \in DOMAIN owner[tab] |->
                    IF \E r \in rows : r[1] = tab /\ r[2] = id
                      THEN t ELSE owner[tab][id]]]
  /\ db' = db

\* A transaction of one statement: its lock is released as it is taken.
WriteAndCommit(tab, id, row) ==
  /\ owner[tab][id] = Nil
  /\ db' = [db EXCEPT ![tab][id] = row]
  /\ dirty' = [dirty EXCEPT ![tab][id] = row]
  /\ owner' = owner

Unlocked(t) ==
  [tab \in DOMAIN owner |->
     [id \in DOMAIN owner[tab] |->
        IF owner[tab][id] = t THEN Nil ELSE owner[tab][id]]]

CommitTx(t) ==
  /\ db' = [tab \in DOMAIN db |->
              [id \in DOMAIN db[tab] |-> Sees(t, tab, id)]]
  /\ owner' = Unlocked(t)
  /\ dirty' = dirty

\* An error in the closure, a timeout, a deadlock victim or a crash.
RollbackTx(t) ==
  /\ dirty' = [tab \in DOMAIN dirty |->
                 [id \in DOMAIN dirty[tab] |->
                    IF owner[tab][id] = t THEN db[tab][id]
                                          ELSE dirty[tab][id]]]
  /\ owner' = Unlocked(t)
  /\ db' = db

\* A row nobody has locked is the committed one.
DirtyIsCommitted ==
  \A tab \in DOMAIN owner : \A id \in DOMAIN owner[tab] :
    owner[tab][id] = Nil => dirty[tab][id] = db[tab][id]
==============================================================================
