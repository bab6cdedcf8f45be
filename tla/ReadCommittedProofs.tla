------------------------- MODULE ReadCommittedProofs -------------------------
(***************************************************************************)
(* What the statements of a transaction do to the tables, whichever tables *)
(* they are: facts the proofs about the handlers cite.                     *)
(***************************************************************************)
EXTENDS ReadCommitted, Naturals, FiniteSetTheorems, TLAPS

\* The three versions of the tables have the same tables and rows.
Tabular ==
  /\ DOMAIN dirty = DOMAIN db /\ DOMAIN owner = DOMAIN db
  /\ \A tab \in DOMAIN db : /\ DOMAIN dirty[tab] = DOMAIN db[tab]
                            /\ DOMAIN owner[tab] = DOMAIN db[tab]

\* Write replaces and locks one row of one table.
LEMMA WriteChanges ==
  ASSUME Tabular, NEW t \in Tx, NEW tab \in DOMAIN db,
         NEW id \in DOMAIN db[tab], NEW row, Write(t, tab, id, row)
  PROVE  /\ Tabular' /\ db' = db
         /\ dirty'[tab] = [dirty[tab] EXCEPT ![id] = row]
         /\ owner'[tab] = [owner[tab] EXCEPT ![id] = t]
         /\ \A other \in DOMAIN db \ {tab} :
              dirty'[other] = dirty[other] /\ owner'[other] = owner[other]
         /\ DirtyIsCommitted => DirtyIsCommitted'
<1> USE DEF Tabular
<1>1. /\ db' = db
      /\ dirty' = [dirty EXCEPT ![tab][id] = row]
      /\ owner' = [owner EXCEPT ![tab][id] = t]
  BY DEF Write
<1>2. /\ dirty'[tab] = [dirty[tab] EXCEPT ![id] = row]
      /\ owner'[tab] = [owner[tab] EXCEPT ![id] = t]
      /\ \A other \in DOMAIN db \ {tab} :
           dirty'[other] = dirty[other] /\ owner'[other] = owner[other]
      /\ DOMAIN owner' = DOMAIN db /\ DOMAIN dirty' = DOMAIN db
  BY <1>1
<1>3. Tabular'
  BY <1>1, <1>2
<1>4. ASSUME DirtyIsCommitted PROVE DirtyIsCommitted'
  <2> SUFFICES ASSUME NEW x \in DOMAIN db, NEW i \in DOMAIN db[x],
                      owner'[x][i] = Nil
               PROVE  dirty'[x][i] = db'[x][i]
    BY <1>1, <1>3 DEF DirtyIsCommitted
  <2>1. CASE x = tab
    BY <1>1, <1>2, <1>4, <2>1, NilAssumption DEF DirtyIsCommitted
  <2>2. CASE x # tab
    BY <1>1, <1>2, <1>4, <2>2 DEF DirtyIsCommitted
  <2> QED BY <2>1, <2>2
<1> QED BY <1>1, <1>2, <1>3, <1>4

\* WriteAndCommit replaces one row of one table, which it leaves unlocked.
LEMMA WriteAndCommitChanges ==
  ASSUME Tabular, NEW tab \in DOMAIN db,
         NEW id \in DOMAIN db[tab], NEW row, WriteAndCommit(tab, id, row)
  PROVE  /\ Tabular' /\ owner' = owner
         /\ db'[tab] = [db[tab] EXCEPT ![id] = row]
         /\ dirty'[tab] = [dirty[tab] EXCEPT ![id] = row]
         /\ \A other \in DOMAIN db \ {tab} :
              dirty'[other] = dirty[other] /\ db'[other] = db[other]
         /\ DirtyIsCommitted => DirtyIsCommitted'
<1> USE DEF Tabular
<1>1. /\ owner' = owner
      /\ db' = [db EXCEPT ![tab][id] = row]
      /\ dirty' = [dirty EXCEPT ![tab][id] = row]
  BY DEF WriteAndCommit
<1>2. /\ db'[tab] = [db[tab] EXCEPT ![id] = row]
      /\ dirty'[tab] = [dirty[tab] EXCEPT ![id] = row]
      /\ \A other \in DOMAIN db \ {tab} :
           dirty'[other] = dirty[other] /\ db'[other] = db[other]
      /\ DOMAIN db' = DOMAIN db /\ DOMAIN dirty' = DOMAIN db
  BY <1>1
<1>3. Tabular'
  BY <1>1, <1>2
<1>4. ASSUME DirtyIsCommitted PROVE DirtyIsCommitted'
  <2> SUFFICES ASSUME NEW x \in DOMAIN db, NEW i \in DOMAIN db[x],
                      owner[x][i] = Nil
               PROVE  dirty'[x][i] = db'[x][i]
    BY <1>1 DEF DirtyIsCommitted
  <2>0. dirty[x][i] = db[x][i]
    BY <1>4 DEF DirtyIsCommitted
  <2>1. CASE x = tab
    <3>1. dirty'[x][i] = IF i = id THEN row ELSE dirty[x][i]
      BY <1>2, <2>1
    <3>2. db'[x][i] = IF i = id THEN row ELSE db[x][i]
      BY <1>2, <2>1
    <3> QED BY <2>0, <3>1, <3>2
  <2>2. CASE x # tab
    BY <1>2, <2>0, <2>2
  <2> QED BY <2>1, <2>2
<1> QED BY <1>1, <1>2, <1>3, <1>4

\* WriteAll replaces and locks the rows it is given, and no other.
LEMMA WriteAllChanges ==
  ASSUME Tabular, NEW t \in Tx, NEW rows, WriteAll(t, rows),
         \A r \in rows : r[1] \in DOMAIN db /\ r[2] \in DOMAIN db[r[1]],
         \A r, s \in rows : r[1] = s[1] /\ r[2] = s[2] => r = s
  PROVE  /\ Tabular' /\ db' = db
         /\ \A tab \in DOMAIN db : \A id \in DOMAIN db[tab] :
              /\ \A r \in rows : r[1] = tab /\ r[2] = id =>
                   /\ owner[tab][id] \in {Nil, t} /\ owner'[tab][id] = t
                   /\ dirty'[tab][id] = r[3]
              /\ (\A r \in rows : ~(r[1] = tab /\ r[2] = id)) =>
                   /\ owner'[tab][id] = owner[tab][id]
                   /\ dirty'[tab][id] = dirty[tab][id]
         /\ DirtyIsCommitted => DirtyIsCommitted'
<1> DEFINE Is(r, tab, id) == r[1] = tab /\ r[2] = id
           Of(tab, id) == CHOOSE r \in rows : Is(r, tab, id)
<1>1. /\ db' = db
      /\ dirty' = [tab \in DOMAIN dirty |-> [id \in DOMAIN dirty[tab] |->
           IF \E r \in rows : Is(r, tab, id) THEN Of(tab, id)[3] ELSE dirty[tab][id]]]
      /\ owner' = [tab \in DOMAIN owner |-> [id \in DOMAIN owner[tab] |->
           IF \E r \in rows : Is(r, tab, id) THEN t ELSE owner[tab][id]]]
      /\ \A r \in rows : owner[r[1]][r[2]] \in {Nil, t}
  BY DEF WriteAll, Free
<1>2. ASSUME NEW tab, NEW id, NEW r \in rows, Is(r, tab, id) PROVE Of(tab, id) = r
  <2>1. Of(tab, id) \in rows /\ Is(Of(tab, id), tab, id)
    BY <1>2
  <2> HIDE DEF Of
  <2> QED BY <1>2, <2>1
<1> HIDE DEF Of
<1>3. db' = db /\ Tabular'
  BY <1>1 DEF Tabular
<1>4. ASSUME NEW tab \in DOMAIN db, NEW id \in DOMAIN db[tab]
      PROVE  /\ \A r \in rows : Is(r, tab, id) =>
                  /\ owner[tab][id] \in {Nil, t} /\ owner'[tab][id] = t
                  /\ dirty'[tab][id] = r[3]
             /\ (\A r \in rows : ~Is(r, tab, id)) =>
                  /\ owner'[tab][id] = owner[tab][id]
                  /\ dirty'[tab][id] = dirty[tab][id]
  <2>1. /\ dirty'[tab][id] = IF \E r \in rows : Is(r, tab, id)
                                THEN Of(tab, id)[3] ELSE dirty[tab][id]
        /\ owner'[tab][id] = IF \E r \in rows : Is(r, tab, id)
                                THEN t ELSE owner[tab][id]
    BY <1>1 DEF Tabular
  <2>2. \A r \in rows : Is(r, tab, id) => owner[tab][id] \in {Nil, t}
    BY <1>1
  <2> HIDE DEF Is
  <2> QED BY <1>2, <2>1, <2>2
<1>5. DirtyIsCommitted => DirtyIsCommitted'
  <2> SUFFICES ASSUME DirtyIsCommitted, NEW tab \in DOMAIN db, NEW id \in DOMAIN db[tab],
                      owner'[tab][id] = Nil
               PROVE  dirty'[tab][id] = db'[tab][id]
    BY <1>3 DEF DirtyIsCommitted, Tabular
  <2>1. \A r \in rows : ~Is(r, tab, id)
    <3> HIDE DEF Is
    <3> QED BY <1>4, NilAssumption
  <2>2. owner[tab][id] = Nil /\ dirty'[tab][id] = dirty[tab][id]
    BY <1>4, <2>1
  <2> QED BY <1>1, <2>2 DEF DirtyIsCommitted, Tabular
<1> QED BY <1>1, <1>3, <1>4, <1>5

\* A transaction that ends leaves no locks, and committed rows where it had.
LEMMA EndChanges ==
  ASSUME Tabular, NEW t \in Tx, CommitTx(t) \/ RollbackTx(t)
  PROVE  /\ Tabular' /\ DOMAIN db' = DOMAIN db
         /\ \A tab \in DOMAIN db :
              /\ DOMAIN db'[tab] = DOMAIN db[tab]
              /\ \A id \in DOMAIN db[tab] :
                   /\ owner'[tab][id] =
                        IF owner[tab][id] = t THEN Nil ELSE owner[tab][id]
                   /\ CommitTx(t) =>
                        /\ dirty'[tab][id] = dirty[tab][id]
                        /\ db'[tab][id] = IF owner[tab][id] = t
                             THEN dirty[tab][id] ELSE db[tab][id]
                   /\ RollbackTx(t) =>
                        /\ db'[tab][id] = db[tab][id]
                        /\ dirty'[tab][id] = IF owner[tab][id] = t
                             THEN db[tab][id] ELSE dirty[tab][id]
         /\ DirtyIsCommitted => DirtyIsCommitted'
<1> USE DEF Tabular
<1>1. /\ DOMAIN owner' = DOMAIN db
      /\ \A tab \in DOMAIN db :
           /\ DOMAIN owner'[tab] = DOMAIN db[tab]
           /\ \A id \in DOMAIN db[tab] :
                owner'[tab][id] =
                  IF owner[tab][id] = t THEN Nil ELSE owner[tab][id]
  BY DEF Unlocked, CommitTx, RollbackTx
<1>2. ASSUME CommitTx(t)
      PROVE  /\ DOMAIN db' = DOMAIN db /\ DOMAIN dirty' = DOMAIN db
             /\ \A tab \in DOMAIN db :
                  /\ DOMAIN db'[tab] = DOMAIN db[tab]
                  /\ DOMAIN dirty'[tab] = DOMAIN db[tab]
                  /\ \A id \in DOMAIN db[tab] :
                       /\ dirty'[tab][id] = dirty[tab][id]
                       /\ db'[tab][id] = IF owner[tab][id] = t
                            THEN dirty[tab][id] ELSE db[tab][id]
  BY <1>2 DEF CommitTx, Sees
<1>3. ASSUME RollbackTx(t)
      PROVE  /\ DOMAIN db' = DOMAIN db /\ DOMAIN dirty' = DOMAIN db
             /\ \A tab \in DOMAIN db :
                  /\ DOMAIN db'[tab] = DOMAIN db[tab]
                  /\ DOMAIN dirty'[tab] = DOMAIN db[tab]
                  /\ \A id \in DOMAIN db[tab] :
                       /\ db'[tab][id] = db[tab][id]
                       /\ dirty'[tab][id] = IF owner[tab][id] = t
                            THEN db[tab][id] ELSE dirty[tab][id]
  BY <1>3 DEF RollbackTx
<1>4. Tabular' /\ DOMAIN db' = DOMAIN db
      /\ \A tab \in DOMAIN db : DOMAIN db'[tab] = DOMAIN db[tab]
  BY <1>1, <1>2, <1>3
<1>5. ASSUME DirtyIsCommitted PROVE DirtyIsCommitted'
  BY <1>1, <1>2, <1>3, <1>5 DEF DirtyIsCommitted
<1> QED BY <1>1, <1>2, <1>3, <1>4, <1>5

-----------------------------------------------------------------------------
(***************************************************************************)
(* The same, row by row, of tables whose rows have types: rows gives the   *)
(* ids of each table, types what its rows may be.                          *)
(***************************************************************************)
HasRows(f, rows) ==
  /\ f = [tab \in DOMAIN rows |-> f[tab]]
  /\ \A tab \in DOMAIN rows : f[tab] = [id \in rows[tab] |-> f[tab][id]]

TablesTyped(rows, types) ==
  /\ HasRows(db, rows) /\ HasRows(dirty, rows) /\ HasRows(owner, rows)
  /\ \A tab \in DOMAIN rows : \A id \in rows[tab] :
       /\ db[tab][id] \in types[tab] /\ dirty[tab][id] \in types[tab]
       /\ owner[tab][id] \in Tx \cup {Nil}

RowStays(tab, id) ==
  /\ db'[tab][id] = db[tab][id] /\ dirty'[tab][id] = dirty[tab][id]
  /\ owner'[tab][id] = owner[tab][id]

RowWritten(t, tab, id, row) ==
  /\ db'[tab][id] = db[tab][id] /\ owner[tab][id] \in {Nil, t}
  /\ dirty'[tab][id] = row /\ owner'[tab][id] = t

RowReleased(t, tab, id) ==
  /\ owner'[tab][id] = IF owner[tab][id] = t THEN Nil ELSE owner[tab][id]
  /\ \/ /\ CommitTx(t)
        /\ dirty'[tab][id] = dirty[tab][id]
        /\ db'[tab][id] = IF owner[tab][id] = t THEN dirty[tab][id] ELSE db[tab][id]
     \/ /\ RollbackTx(t)
        /\ db'[tab][id] = db[tab][id]
        /\ dirty'[tab][id] = IF owner[tab][id] = t THEN db[tab][id] ELSE dirty[tab][id]

\* A transaction of one statement.
RowReplaced(tab, id, row) ==
  /\ owner[tab][id] = Nil /\ owner'[tab][id] = Nil
  /\ db'[tab][id] = row /\ dirty'[tab][id] = row

RowsStayBut(tab, id, rows) ==
  /\ \A other \in rows[tab] \ {id} : RowStays(tab, other)
  /\ \A other \in DOMAIN rows \ {tab} : \A i \in rows[other] : RowStays(other, i)

\* Such tables have the same rows in each version.
LEMMA TypedTabular ==
  ASSUME NEW rows, NEW types, TablesTyped(rows, types)
  PROVE  /\ Tabular /\ DOMAIN db = DOMAIN rows
         /\ \A tab \in DOMAIN rows : DOMAIN db[tab] = rows[tab]
<1>1. \A f : HasRows(f, rows) => /\ DOMAIN f = DOMAIN rows
                          /\ \A tab \in DOMAIN rows : DOMAIN f[tab] = rows[tab]
  <2> SUFFICES ASSUME NEW f, HasRows(f, rows)
               PROVE  /\ DOMAIN f = DOMAIN rows
                      /\ \A tab \in DOMAIN rows : DOMAIN f[tab] = rows[tab]
    OBVIOUS
  <2>1. /\ f = [tab \in DOMAIN rows |-> f[tab]]
        /\ \A tab \in DOMAIN rows : f[tab] = [id \in rows[tab] |-> f[tab][id]]
    BY DEF HasRows
  <2>2. DOMAIN f = DOMAIN rows
    BY <2>1, Zenon
  <2>3. ASSUME NEW tab \in DOMAIN rows PROVE DOMAIN f[tab] = rows[tab]
    BY <2>1, Zenon
  <2> QED BY <2>2, <2>3
<1>2. HasRows(db, rows) /\ HasRows(dirty, rows) /\ HasRows(owner, rows)
  BY DEF TablesTyped
<1> QED BY <1>1, <1>2 DEF Tabular

\* Every statement leaves the tables with the rows they have.
LEMMA RowsKept ==
  ASSUME NEW rows, NEW types, TablesTyped(rows, types), NEW t,
         \/ \E tab \in DOMAIN rows : \E id, row : Write(t, tab, id, row)
         \/ \E writes : WriteAll(t, writes)
         \/ \E tab \in DOMAIN rows : \E id, row : WriteAndCommit(tab, id, row)
         \/ CommitTx(t) \/ RollbackTx(t)
  PROVE  HasRows(db, rows)' /\ HasRows(dirty, rows)' /\ HasRows(owner, rows)'
<1>1. /\ HasRows(db, rows) /\ HasRows(dirty, rows) /\ HasRows(owner, rows)
      /\ Tabular /\ DOMAIN db = DOMAIN rows
      /\ \A tab \in DOMAIN rows : DOMAIN db[tab] = rows[tab]
  BY TypedTabular DEF TablesTyped
<1>2. ASSUME NEW f, HasRows(f, rows), NEW tab \in DOMAIN rows, NEW id, NEW row
      PROVE  HasRows([f EXCEPT ![tab][id] = row], rows)
  <2> DEFINE g == [f EXCEPT ![tab][id] = row]
  <2>1. /\ f = [x \in DOMAIN rows |-> f[x]]
        /\ \A x \in DOMAIN rows : f[x] = [i \in rows[x] |-> f[x][i]]
    BY <1>2 DEF HasRows
  <2>2. g = [x \in DOMAIN rows |-> IF x = tab THEN [f[x] EXCEPT ![id] = row] ELSE f[x]]
    BY <2>1
  <2>3. ASSUME NEW x \in DOMAIN rows PROVE g[x] = [i \in rows[x] |-> g[x][i]]
    <3>1. CASE x = tab
      <4>1. g[x] = [f[x] EXCEPT ![id] = row]
        BY <2>2, <3>1
      <4>2. f[x] = [i \in rows[x] |-> f[x][i]]
        BY <2>1
      <4>3. g[x] = [i \in rows[x] |-> IF i = id THEN row ELSE f[x][i]]
        BY <4>1, <4>2
      <4> QED BY <4>3
    <3>2. CASE x # tab
      BY <2>1, <2>2, <3>2
    <3> QED BY <3>1, <3>2
  <2>4. g = [x \in DOMAIN rows |-> g[x]]
    BY <2>2
  <2> HIDE DEF g
  <2>5. HasRows(g, rows)
    BY <2>3, <2>4 DEF HasRows
  <2> QED BY <2>5 DEF g
<1>3. ASSUME NEW tab \in DOMAIN rows, NEW id, NEW row, Write(t, tab, id, row)
      PROVE  HasRows(db, rows)' /\ HasRows(dirty, rows)' /\ HasRows(owner, rows)'
  <2>1. /\ db' = db /\ dirty' = [dirty EXCEPT ![tab][id] = row]
        /\ owner' = [owner EXCEPT ![tab][id] = t]
    BY <1>3 DEF Write
  <2>2. HasRows(db', rows)
    BY <1>1, <2>1
  <2>3. HasRows(dirty', rows) /\ HasRows(owner', rows)
    BY <1>1, <1>2, <2>1, Zenon
  <2> QED BY <2>2, <2>3 DEF HasRows
<1>4. ASSUME NEW tab \in DOMAIN rows, NEW id, NEW row, WriteAndCommit(tab, id, row)
      PROVE  HasRows(db, rows)' /\ HasRows(dirty, rows)' /\ HasRows(owner, rows)'
  <2>1. /\ owner' = owner /\ dirty' = [dirty EXCEPT ![tab][id] = row]
        /\ db' = [db EXCEPT ![tab][id] = row]
    BY <1>4 DEF WriteAndCommit
  <2>2. HasRows(owner', rows)
    BY <1>1, <2>1
  <2>3. HasRows(dirty', rows) /\ HasRows(db', rows)
    BY <1>1, <1>2, <2>1, Zenon
  <2> QED BY <2>2, <2>3 DEF HasRows
<1>5. ASSUME NEW writes, WriteAll(t, writes)
      PROVE  HasRows(db, rows)' /\ HasRows(dirty, rows)' /\ HasRows(owner, rows)'
  BY <1>1, <1>5 DEF WriteAll, HasRows, Tabular
<1>6. ASSUME CommitTx(t)
      PROVE  HasRows(db, rows)' /\ HasRows(dirty, rows)' /\ HasRows(owner, rows)'
  BY <1>1, <1>6 DEF CommitTx, Unlocked, HasRows, Tabular
<1>7. ASSUME RollbackTx(t)
      PROVE  HasRows(db, rows)' /\ HasRows(dirty, rows)' /\ HasRows(owner, rows)'
  BY <1>1, <1>7 DEF RollbackTx, Unlocked, HasRows, Tabular
<1> QED BY <1>3, <1>4, <1>5, <1>6, <1>7

\* What becomes of the rows decides that the tables stay of their types.
LEMMA TypesKept ==
  ASSUME NEW rows, NEW types, TablesTyped(rows, types),
         HasRows(db, rows)', HasRows(dirty, rows)', HasRows(owner, rows)',
         \A tab \in DOMAIN rows : \A id \in rows[tab] :
           \/ RowStays(tab, id)
           \/ \E t \in Tx : RowReleased(t, tab, id)
           \/ \E t \in Tx : \E row \in types[tab] : RowWritten(t, tab, id, row)
           \/ \E row \in types[tab] : RowReplaced(tab, id, row)
  PROVE  TablesTyped(rows, types)'
<1>1. ASSUME NEW tab \in DOMAIN rows, NEW id \in rows[tab]
      PROVE  /\ db'[tab][id] \in types[tab] /\ dirty'[tab][id] \in types[tab]
             /\ owner'[tab][id] \in Tx \cup {Nil}
  <2>1. /\ db[tab][id] \in types[tab] /\ dirty[tab][id] \in types[tab]
        /\ owner[tab][id] \in Tx \cup {Nil}
    BY DEF TablesTyped
  <2> QED BY <2>1 DEF RowStays, RowReleased, RowWritten, RowReplaced
<1> QED BY <1>1 DEF TablesTyped

\* Write writes one row.
LEMMA TypedWrite ==
  ASSUME NEW rows, NEW types, TablesTyped(rows, types), NEW t \in Tx,
         NEW tab \in DOMAIN rows,
         NEW id \in rows[tab], NEW row, Write(t, tab, id, row)
  PROVE  /\ RowWritten(t, tab, id, row) /\ RowsStayBut(tab, id, rows)
         /\ row \in types[tab] => TablesTyped(rows, types)'
         /\ DirtyIsCommitted => DirtyIsCommitted'
<1>1. /\ Tabular /\ DOMAIN db = DOMAIN rows
      /\ \A x \in DOMAIN rows : DOMAIN db[x] = rows[x]
  BY TypedTabular
<1>2. Free(t, tab, id) /\ tab \in DOMAIN db /\ id \in DOMAIN db[tab]
  BY <1>1 DEF Write
<1>3. /\ db' = db
      /\ dirty'[tab] = [dirty[tab] EXCEPT ![id] = row]
      /\ owner'[tab] = [owner[tab] EXCEPT ![id] = t]
      /\ \A other \in DOMAIN rows \ {tab} :
           dirty'[other] = dirty[other] /\ owner'[other] = owner[other]
      /\ DirtyIsCommitted => DirtyIsCommitted'
  BY <1>1, <1>2, WriteChanges, SMTT(30)
<1>4. RowWritten(t, tab, id, row) /\ RowsStayBut(tab, id, rows)
  BY <1>1, <1>2, <1>3
     DEF Tabular, RowWritten, RowsStayBut, RowStays, Free
<1>5. ASSUME row \in types[tab] PROVE TablesTyped(rows, types)'
  <2>1. HasRows(db, rows)' /\ HasRows(dirty, rows)' /\ HasRows(owner, rows)'
    BY RowsKept
  <2>2. ASSUME NEW x \in DOMAIN rows, NEW i \in rows[x]
        PROVE  RowStays(x, i) \/ \E r \in types[x] : RowWritten(t, x, i, r)
    BY <1>4, <1>5 DEF RowsStayBut
  <2> QED BY <2>1, <2>2, TypesKept
<1> QED BY <1>3, <1>4, <1>5

\* WriteAndCommit replaces one row.
LEMMA TypedReplace ==
  ASSUME NEW rows, NEW types, TablesTyped(rows, types), NEW tab \in DOMAIN rows,
         NEW id \in rows[tab], NEW row, WriteAndCommit(tab, id, row)
  PROVE  /\ RowReplaced(tab, id, row) /\ RowsStayBut(tab, id, rows)
         /\ row \in types[tab] => TablesTyped(rows, types)'
         /\ DirtyIsCommitted => DirtyIsCommitted'
<1>1. /\ Tabular /\ DOMAIN db = DOMAIN rows
      /\ \A x \in DOMAIN rows : DOMAIN db[x] = rows[x]
  BY TypedTabular
<1>2. owner[tab][id] = Nil
  BY DEF WriteAndCommit
<1>3. /\ owner' = owner
      /\ dirty'[tab] = [dirty[tab] EXCEPT ![id] = row]
      /\ db'[tab] = [db[tab] EXCEPT ![id] = row]
      /\ \A other \in DOMAIN rows \ {tab} :
           dirty'[other] = dirty[other] /\ db'[other] = db[other]
      /\ DirtyIsCommitted => DirtyIsCommitted'
  BY <1>1, WriteAndCommitChanges
<1>4. RowReplaced(tab, id, row) /\ RowsStayBut(tab, id, rows)
  BY <1>1, <1>2, <1>3
     DEF Tabular, RowReplaced, RowsStayBut, RowStays
<1>5. ASSUME row \in types[tab] PROVE TablesTyped(rows, types)'
  <2>1. HasRows(db, rows)' /\ HasRows(dirty, rows)' /\ HasRows(owner, rows)'
    BY RowsKept
  <2>2. ASSUME NEW x \in DOMAIN rows, NEW i \in rows[x]
        PROVE  RowStays(x, i) \/ \E r \in types[x] : RowReplaced(x, i, r)
    BY <1>4, <1>5 DEF RowsStayBut
  <2> QED BY <2>1, <2>2, TypesKept
<1> QED BY <1>3, <1>4, <1>5

\* WriteAll writes the rows it is given.
LEMMA TypedWriteAll ==
  ASSUME NEW rows, NEW types, TablesTyped(rows, types), NEW t \in Tx,
         NEW writes, WriteAll(t, writes),
         \A r \in writes : r[1] \in DOMAIN rows /\ r[2] \in rows[r[1]],
         \A r, s \in writes : r[1] = s[1] /\ r[2] = s[2] => r = s
  PROVE  /\ \A tab \in DOMAIN rows : \A id \in rows[tab] :
              /\ \A r \in writes : r[1] = tab /\ r[2] = id => RowWritten(t, tab, id, r[3])
              /\ (\A r \in writes : ~(r[1] = tab /\ r[2] = id)) => RowStays(tab, id)
         /\ (\A r \in writes : r[3] \in types[r[1]]) => TablesTyped(rows, types)'
         /\ DirtyIsCommitted => DirtyIsCommitted'
<1> DEFINE Is(r, tab, id) == r[1] = tab /\ r[2] = id
<1>1. /\ Tabular /\ DOMAIN db = DOMAIN rows
      /\ \A x \in DOMAIN rows : DOMAIN db[x] = rows[x]
  BY TypedTabular
<1>2. /\ db' = db
      /\ \A tab \in DOMAIN rows : \A id \in rows[tab] :
           /\ \A r \in writes : Is(r, tab, id) =>
                /\ owner[tab][id] \in {Nil, t} /\ owner'[tab][id] = t
                /\ dirty'[tab][id] = r[3]
           /\ (\A r \in writes : ~Is(r, tab, id)) =>
                /\ owner'[tab][id] = owner[tab][id]
                /\ dirty'[tab][id] = dirty[tab][id]
      /\ DirtyIsCommitted => DirtyIsCommitted'
  BY <1>1, WriteAllChanges
<1>3. ASSUME NEW tab \in DOMAIN rows, NEW id \in rows[tab]
      PROVE  /\ \A r \in writes : Is(r, tab, id) => RowWritten(t, tab, id, r[3])
             /\ (\A r \in writes : ~Is(r, tab, id)) => RowStays(tab, id)
  <2> HIDE DEF Is
  <2> QED BY <1>2 DEF RowWritten, RowStays
<1>4. ASSUME \A r \in writes : r[3] \in types[r[1]] PROVE TablesTyped(rows, types)'
  <2>1. HasRows(db, rows)' /\ HasRows(dirty, rows)' /\ HasRows(owner, rows)'
    BY RowsKept
  <2>2. ASSUME NEW x \in DOMAIN rows, NEW i \in rows[x]
        PROVE  RowStays(x, i) \/ \E row \in types[x] : RowWritten(t, x, i, row)
    <3>1. ASSUME NEW r \in writes, Is(r, x, i) PROVE r[3] \in types[x]
      BY <1>4, <3>1
    <3> HIDE DEF Is
    <3> QED BY <1>3, <3>1
  <2> QED BY <2>1, <2>2, TypesKept
<1> QED BY <1>2, <1>3, <1>4

\* A transaction that ends.
LEMMA TypedEnd ==
  ASSUME NEW rows, NEW types, TablesTyped(rows, types), NEW t \in Tx,
         CommitTx(t) \/ RollbackTx(t)
  PROVE  /\ \A tab \in DOMAIN rows : \A id \in rows[tab] : RowReleased(t, tab, id)
         /\ TablesTyped(rows, types)'
         /\ DirtyIsCommitted => DirtyIsCommitted'
<1>1. /\ Tabular /\ DOMAIN db = DOMAIN rows
      /\ \A x \in DOMAIN rows : DOMAIN db[x] = rows[x]
  BY TypedTabular
<1>3. /\ \A tab \in DOMAIN rows : \A id \in rows[tab] : RowReleased(t, tab, id)
      /\ DirtyIsCommitted => DirtyIsCommitted'
  BY <1>1, EndChanges DEF RowReleased
<1>4. HasRows(db, rows)' /\ HasRows(dirty, rows)' /\ HasRows(owner, rows)'
  BY RowsKept
<1> QED BY <1>3, <1>4, TypesKept

-----------------------------------------------------------------------------
\* A finite set of ids has a latest one, so a SELECT of the latest row by id
\* returns a row if it finds any.
LEMMA LatestExists ==
  ASSUME NEW S \in SUBSET Nat, IsFiniteSet(S), S # {}
  PROVE  \E a \in S : \A b \in S : b <= a
<1> DEFINE After(a) == {b \in S : a <= b}
           T == {After(a) : a \in S}
<1>1. IsWellFoundedOn(StrictSubsetOrdering(S), FiniteSubsetsOf(S))
  BY FS_StrictSubsetOrderingWellFounded
<1>2. T \subseteq FiniteSubsetsOf(S) /\ T # {}
  <2>1. FiniteSubsetsOf(S) = SUBSET S
    BY FS_FiniteSubsetsOfFinite
  <2>2. \A a \in S : After(a) \in SUBSET S /\ After(a) \in T
    OBVIOUS
  <2> HIDE DEF After
  <2> QED BY <2>1, <2>2
<1>3. PICK U \in T : \A V \in T : <<V, U>> \notin StrictSubsetOrdering(S)
  BY <1>1, <1>2, WFMin
<1>4. PICK a \in S : U = After(a)
  BY <1>3
<1>5. ASSUME NEW b \in S, ~(b <= a) PROVE FALSE
  <2>0. /\ a \in Nat /\ b \in Nat /\ a <= b
        /\ \A c \in S : c \in Nat /\ (b <= c => a <= c)
    BY <1>5
  <2>1. After(b) \subseteq After(a) /\ a \in After(a) /\ a \notin After(b)
    <3>1. \A c \in S : (c \in After(b) <=> b <= c) /\ (c \in After(a) <=> a <= c)
      OBVIOUS
    <3>2. After(b) \subseteq S
      OBVIOUS
    <3> HIDE DEF After
    <3>3. \A c \in After(b) : c \in After(a)
      BY <2>0, <3>1, <3>2
    <3>4. a \in After(a) /\ a \notin After(b)
      BY <1>5, <2>0, <3>1
    <3> QED BY <3>3, <3>4
  <2>2. <<After(b), After(a)>> \in StrictSubsetOrdering(S)
    BY <2>1 DEF StrictSubsetOrdering
  <2> QED BY <1>3, <1>4, <2>2
<1> QED BY <1>4, <1>5

-----------------------------------------------------------------------------
\* A set of at most one element.
LEMMA AtMostOne ==
  ASSUME NEW S, IsFiniteSet(S), Cardinality(S) <= 1, NEW x \in S, NEW y \in S
  PROVE  x = y
<1> SUFFICES ASSUME x # y PROVE FALSE
  OBVIOUS
<1>1. IsFiniteSet({x}) /\ Cardinality({x}) = 1
  BY FS_Singleton
<1>2. IsFiniteSet({x} \cup {y}) /\ Cardinality({x} \cup {y}) = 2
  <2> DEFINE one == {x}
  <2>1. IsFiniteSet(one) /\ Cardinality(one) = 1 /\ y \notin one
    BY <1>1
  <2> HIDE DEF one
  <2>2. /\ IsFiniteSet(one \cup {y})
        /\ Cardinality(one \cup {y}) = Cardinality(one) + 1
    BY <2>1, FS_AddElement
  <2> QED BY <2>1, <2>2 DEF one
<1>3. {x} \cup {y} \subseteq S
  OBVIOUS
<1>4. Cardinality({x} \cup {y}) <= Cardinality(S)
  BY <1>3, FS_Subset
<1>5. Cardinality(S) \in Nat
  BY FS_CardinalityType
<1> QED BY <1>2, <1>4, <1>5
==============================================================================
