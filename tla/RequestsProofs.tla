---------------------------- MODULE RequestsProofs ----------------------------
(***************************************************************************)
(* Proofs about Requests, for any number of requests and connections.      *)
(***************************************************************************)
EXTENDS MCRequests, FiniteSetTheorems, TLAPS

Steps == {"unsent", "answered"} \cup Awaiting \cup Statement

Running == {r \in Requests : pc[r] \in Statement}

\* Every connection is in the pool or with a request that runs a statement.
ConnsCounted == free + Cardinality(Running) = MaxConns

\* Who may go on was permitted to at some moment since it arrived.
PermittedSoFar ==
  \A r \in Requests :
    /\ pc[r] \in {"await_handler", "check_scope", "write", "commit"}
         => held[r] # {}
    /\ pc[r] \in {"write", "commit"} /\ r \in Scoped
         => held[r] \cap {"deployment", "here"} # {}

HeldOK == held \in [Requests -> SUBSET Scopes]

IInv == TypeOK /\ ConnsCounted /\ HeldOK /\ PermittedSoFar /\ OnlyPermitted

-----------------------------------------------------------------------------
(***************************************************************************)
(* Moving one request changes the number of those running by what it was   *)
(* and is.                                                                 *)
(***************************************************************************)

\* The requests that run a statement are finitely many.
LEMMA RunningFinite ==
  IsFiniteSet(Running) /\ Cardinality(Running) \in Nat
<1>1. Running \in SUBSET Requests
  BY DEF Running
<1> QED BY <1>1, RequestsAssumption, FS_Subset, FS_CardinalityType

\* A request that gets a connection, keeps it, gives it back or waits changes
\* the count of those running by one, nothing, minus one or nothing.
LEMMA MoveCounts ==
  ASSUME pc \in [Requests -> Steps], NEW r \in Requests, NEW stmt \in Steps,
         Goto(r, stmt)
  PROVE  /\ pc[r] \notin Statement /\ stmt \in Statement
              => Cardinality(Running') = Cardinality(Running) + 1
         /\ pc[r] \in Statement /\ stmt \notin Statement
              => Cardinality(Running') = Cardinality(Running) - 1
         /\ (pc[r] \in Statement <=> stmt \in Statement)
              => Cardinality(Running') = Cardinality(Running)
<1>1. CASE pc[r] \notin Statement /\ stmt \in Statement
  <2>1. Running' = Running \cup {r} /\ r \notin Running
    BY <1>1 DEF Running, Goto
  <2> QED BY <1>1, <2>1, RunningFinite, FS_AddElement
<1>2. CASE pc[r] \in Statement /\ stmt \notin Statement
  <2>1. Running' = Running \ {r} /\ r \in Running
    BY <1>2 DEF Running, Goto
  <2> QED BY <1>2, <2>1, RunningFinite, FS_RemoveElement
<1>3. CASE pc[r] \in Statement <=> stmt \in Statement
  <2>1. Running' = Running
    BY <1>3 DEF Running, Goto
  <2> QED BY <1>3, <2>1
<1> QED BY <1>1, <1>2, <1>3

-----------------------------------------------------------------------------
(***************************************************************************)
(* Each step of a request, of roles and of main.                           *)
(***************************************************************************)

\* The types and the count of connections hold at first.
LEMMA InitCounts == Init => TypeOK /\ ConnsCounted
<1> SUFFICES ASSUME Init PROVE TypeOK /\ ConnsCounted
  OBVIOUS
<1>1. TypeOK
  BY RequestsAssumption DEF Init, TypeOK, Outcome, Scopes
<1>2. Running = {}
  BY DEF Init, Running, Statement
<1>3. ConnsCounted
  BY <1>2, FS_EmptySet, RequestsAssumption DEF Init, ConnsCounted
<1> QED BY <1>1, <1>3

\* A request's own steps keep the types and the count of connections: it gives
\* its connection back with the answer, and takes no second one.
LEMMA RequestCounts ==
  ASSUME TypeOK, ConnsCounted, NEW r \in Requests, Arrive(r) \/ Step(r)
  PROVE  TypeOK' /\ ConnsCounted'
<1> USE DEF TypeOK, ConnsCounted, At, Steps, Awaiting, Statement, Outcome
<1>0. /\ pc \in [Requests -> Steps]
      /\ free \in Nat /\ MaxConns \in Nat /\ Cardinality(Running) \in Nat
  BY RequestsAssumption, RunningFinite
<1>1. CASE Arrive(r)
  <2>1. Goto(r, "await_check") /\ UNCHANGED free
    BY <1>1 DEF Arrive
  <2>2. Cardinality(Running') = Cardinality(Running)
    BY <1>0, <1>1, <2>1, MoveCounts DEF Arrive
  <2>3. TypeOK'
    BY <1>1 DEF Arrive, Goto
  <2> QED BY <2>1, <2>2, <2>3
<1>2. CASE Acquire(r)
  <2> DEFINE stmt == IF At(r, "await_check") THEN "check"
                     ELSE IF r \in Scoped THEN "check_scope" ELSE "write"
  <2>1. /\ Goto(r, stmt) /\ stmt \in Statement /\ pc[r] \notin Statement
        /\ free' = free - 1 /\ free > 0
    BY <1>2 DEF Acquire
  <2> HIDE DEF stmt
  <2>2. Cardinality(Running') = Cardinality(Running) + 1
    BY <1>0, <2>1, MoveCounts
  <2>3. pc' \in [Requests -> Steps]
    BY <1>0, <2>1 DEF Goto
  <2>4. free' + Cardinality(Running') = MaxConns /\ free' \in 0..MaxConns
    BY <1>0, <2>1, <2>2
  <2> QED BY <1>2, <2>3, <2>4 DEF Acquire
<1>3. ASSUME pc[r] \in Awaiting, free' = free,
             NEW answer \in Outcome, Answer(r, answer),
             committed' \in [Requests -> BOOLEAN],
             UNCHANGED <<assigned, server>>
      PROVE  TypeOK' /\ ConnsCounted'
  <2>1. Cardinality(Running') = Cardinality(Running)
    BY <1>0, <1>3, MoveCounts DEF Answer
  <2> QED BY <1>3, <2>1 DEF Answer, Goto
<1>4. ASSUME pc[r] \in Statement, free' = free + 1,
             NEW stmt \in Steps \ Statement, Goto(r, stmt),
             outcome' \in [Requests -> Outcome],
             committed' \in [Requests -> BOOLEAN],
             UNCHANGED <<assigned, server>>
      PROVE  TypeOK' /\ ConnsCounted'
  <2>1. Cardinality(Running') = Cardinality(Running) - 1
    BY <1>0, <1>4, MoveCounts
  <2>2. Cardinality(Running') \in Nat
    BY <1>0, <1>4, <2>1, RunningFinite, FS_EmptySet DEF Running
  <2>3. free' + Cardinality(Running') = MaxConns /\ free' \in 0..MaxConns
    BY <1>0, <1>4, <2>1, <2>2
  <2>4. pc' \in [Requests -> Steps]
    BY <1>0, <1>4 DEF Goto
  <2> QED BY <1>4, <2>3, <2>4
<1>5. ASSUME pc[r] \in Statement, NEW stmt \in Statement, Goto(r, stmt),
             UNCHANGED <<outcome, committed, free, assigned, server>>
      PROVE  TypeOK' /\ ConnsCounted'
  <2>1. Cardinality(Running') = Cardinality(Running)
    BY <1>0, <1>5, MoveCounts
  <2> QED BY <1>5, <2>1 DEF Goto
<1>6. CASE AcquireFromClosed(r)
  BY <1>6, <1>3 DEF AcquireFromClosed
<1>7. CASE CheckUserPermission(r)
  BY <1>7, <1>4 DEF CheckUserPermission, Answer
<1>8. CASE CheckUserPermissionInScope(r)
  <2>1. CASE Goto(r, "write") /\ UNCHANGED <<outcome, free>>
    BY <1>8, <2>1, <1>5 DEF CheckUserPermissionInScope
  <2>2. CASE Answer(r, "denied") /\ free' = free + 1
    BY <1>8, <2>2, <1>4 DEF CheckUserPermissionInScope, Answer
  <2> QED BY <1>8, <2>1, <2>2 DEF CheckUserPermissionInScope
<1>9. CASE RunHandler(r)
  <2>1. CASE Goto(r, "commit") /\ UNCHANGED <<outcome, free>>
    BY <1>9, <2>1, <1>5 DEF RunHandler
  <2>2. CASE Answer(r, "refused") /\ free' = free + 1
    BY <1>9, <2>2, <1>4 DEF RunHandler, Answer
  <2> QED BY <1>9, <2>1, <2>2 DEF RunHandler
<1>10. CASE Commit(r)
  BY <1>10, <1>4 DEF Commit, Answer
<1>11. CASE TimeOut(r)
  <2>1. committed' \in [Requests -> BOOLEAN]
    BY <1>11 DEF TimeOut
  <2>2. CASE pc[r] \in Statement
    BY <1>11, <2>1, <2>2, <1>4 DEF TimeOut, Answer
  <2>3. CASE pc[r] \in Awaiting
    BY <1>11, <2>1, <2>3, <1>3 DEF TimeOut
  <2> QED BY <1>11, <2>2, <2>3 DEF TimeOut
<1> QED BY <1>1, <1>2, <1>6, <1>7, <1>8, <1>9, <1>10, <1>11 DEF Step

\* Every step keeps them.
LEMMA NextCounts ==
  ASSUME TypeOK, ConnsCounted, [Next]_vars
  PROVE  TypeOK' /\ ConnsCounted'
<1>1. CASE \E r \in Requests : Arrive(r) \/ Step(r)
  BY <1>1, RequestCounts
<1>2. CASE pc' = pc /\ UNCHANGED <<outcome, committed, free>>
           /\ assigned' \subseteq Scopes
           /\ server' \in {"running", "draining", "closing", "stopped"}
  BY <1>2 DEF TypeOK, ConnsCounted, Running
<1>3. CASE \E scope \in Scopes :
             AssignRoleToUser(scope) \/ RemoveRoleFromUser(scope)
  BY <1>3, <1>2 DEF AssignRoleToUser, RemoveRoleFromUser, TypeOK
<1>4. CASE Signal \/ ShutdownReturns \/ PoolCloses
  BY <1>4, <1>2 DEF Signal, ShutdownReturns, PoolCloses, TypeOK
<1>5. CASE UNCHANGED vars
  BY <1>5, <1>2 DEF vars, TypeOK
<1> QED BY <1>1, <1>3, <1>4, <1>5 DEF Next

-----------------------------------------------------------------------------
(***************************************************************************)
(* Connections.                                                            *)
(***************************************************************************)

\* The states of requests, the count of connections and main's progress are
\* of their types.
THEOREM TypeCorrect == Spec => []TypeOK
<1>1. Init => TypeOK /\ ConnsCounted
  BY InitCounts
<1>2. (TypeOK /\ ConnsCounted) /\ [Next]_vars => (TypeOK /\ ConnsCounted)'
  BY NextCounts
<1> QED BY <1>1, <1>2, PTL DEF Spec

\* When no connection is free, some request runs a statement with one: those
\* that wait for connections never wait for each other only.
THEOREM NeverStuck == Spec => []PoolNeverStuck
<1>1. Init => TypeOK /\ ConnsCounted
  BY InitCounts
<1>2. (TypeOK /\ ConnsCounted) /\ [Next]_vars => (TypeOK /\ ConnsCounted)'
  BY NextCounts
<1>3. TypeOK /\ ConnsCounted => PoolNeverStuck
  <2> SUFFICES ASSUME TypeOK, ConnsCounted, free = 0
               PROVE  \E r \in Requests : pc[r] \in Statement
    BY RequestsAssumption DEF PoolNeverStuck, TypeOK
  <2>1. Cardinality(Running) # 0
    BY RunningFinite, RequestsAssumption DEF ConnsCounted
  <2>2. Running # {}
    BY <2>1, FS_EmptySet
  <2> QED BY <2>2 DEF Running
<1> QED BY <1>1, <1>2, <1>3, PTL DEF Spec

-----------------------------------------------------------------------------
(***************************************************************************)
(* Permissions.                                                            *)
(***************************************************************************)

\* What the request that moves has held includes what is assigned, and no
\* other request's is reduced.
LEMMA HeldGrows ==
  ASSUME TypeOK, HeldOK, TypeOK', MCNext
  PROVE  /\ HeldOK'
         /\ \A r \in Requests : held[r] \subseteq held'[r]
         /\ \A r \in Requests : pc'[r] \notin {"unsent", "answered"}
                                  => assigned' \subseteq held'[r]
BY DEF TypeOK, HeldOK, MCNext

\* A step of one request keeps what is known of the permitted ones.
LEMMA RequestPermitted ==
  ASSUME IInv, TypeOK', MCNext, NEW r \in Requests, Arrive(r) \/ Step(r)
  PROVE  PermittedSoFar' /\ OnlyPermitted'
<1> USE DEF IInv, TypeOK, At, Awaiting, Statement
<1>1. /\ held' \in [Requests -> SUBSET Scopes]
      /\ \A q \in Requests : held[q] \subseteq held'[q]
      /\ pc'[r] \notin {"unsent", "answered"} => assigned' \subseteq held'[r]
  BY HeldGrows DEF HeldOK
<1>2. ASSUME NEW q \in Requests, pc'[q] = pc[q], committed'[q] = committed[q]
      PROVE  PermittedSoFar!(q)' /\ OnlyPermitted!(q)'
  BY <1>1, <1>2 DEF PermittedSoFar, OnlyPermitted
<1>3. \A q \in Requests \ {r} : pc'[q] = pc[q] /\ committed'[q] = committed[q]
  BY DEF Step, Arrive, Acquire, AcquireFromClosed, CheckUserPermission,
         CheckUserPermissionInScope, RunHandler, Commit, TimeOut, Answer, Goto
<1>4. PermittedSoFar!(r)' /\ OnlyPermitted!(r)'
  <2>1. CASE pc'[r] \in {"await_check", "check", "answered"} /\ committed'[r] = committed[r]
    BY <1>1, <2>1 DEF PermittedSoFar, OnlyPermitted
  <2>2. CASE Arrive(r) \/ AcquireFromClosed(r)
    BY <2>1, <2>2 DEF Arrive, AcquireFromClosed, Answer, Goto
  <2>3. CASE Acquire(r)
    <3>1. committed'[r] = committed[r]
      BY <2>3 DEF Acquire
    <3>2. CASE pc[r] = "await_check"
      BY <2>1, <2>3, <3>1, <3>2 DEF Acquire, Goto
    <3>3. CASE pc[r] = "await_handler"
      <4>1. held[r] # {} /\ pc'[r] = IF r \in Scoped THEN "check_scope" ELSE "write"
        BY <2>3, <3>3 DEF Acquire, Goto, PermittedSoFar
      <4> QED BY <1>1, <3>1, <4>1 DEF PermittedSoFar, OnlyPermitted
    <3> QED BY <2>3, <3>2, <3>3 DEF Acquire
  <2>4. CASE CheckUserPermission(r)
    <3>1. CASE assigned # {} /\ Goto(r, "await_handler")
      <4>1. pc'[r] = "await_handler" /\ assigned' = assigned /\ committed' = committed
        BY <2>4, <3>1 DEF CheckUserPermission, Goto
      <4> QED BY <1>1, <3>1, <4>1 DEF PermittedSoFar, OnlyPermitted
    <3>2. CASE Answer(r, "denied")
      BY <2>1, <2>4, <3>2 DEF CheckUserPermission, Answer, Goto
    <3> QED BY <2>4, <3>1, <3>2 DEF CheckUserPermission
  <2>5. CASE CheckUserPermissionInScope(r)
    <3>1. CASE assigned \cap {"deployment", "here"} # {} /\ Goto(r, "write")
      <4>1. pc'[r] = "write" /\ assigned' = assigned /\ committed' = committed
        BY <2>5, <3>1 DEF CheckUserPermissionInScope, Goto
      <4> QED BY <1>1, <3>1, <4>1 DEF PermittedSoFar, OnlyPermitted
    <3>2. CASE Answer(r, "denied")
      BY <2>1, <2>5, <3>2 DEF CheckUserPermissionInScope, Answer, Goto
    <3> QED BY <2>5, <3>1, <3>2 DEF CheckUserPermissionInScope
  <2>6. CASE RunHandler(r)
    <3>1. CASE Goto(r, "commit")
      <4>1. pc[r] = "write" /\ pc'[r] = "commit" /\ committed' = committed
        BY <2>6, <3>1 DEF RunHandler, Goto
      <4> QED BY <1>1, <4>1 DEF PermittedSoFar, OnlyPermitted
    <3>2. CASE Answer(r, "refused")
      BY <2>1, <2>6, <3>2 DEF RunHandler, Answer, Goto
    <3> QED BY <2>6, <3>1, <3>2 DEF RunHandler
  <2>7. CASE Commit(r)
    <3>1. pc[r] = "commit" /\ pc'[r] = "answered"
      BY <2>7 DEF Commit, Answer, Goto
    <3> QED BY <1>1, <3>1 DEF PermittedSoFar, OnlyPermitted, HeldOK
  <2>8. CASE TimeOut(r)
    <3>1. pc'[r] = "answered" /\ (committed'[r] => committed[r] \/ pc[r] = "commit")
      BY <2>8 DEF TimeOut, Answer, Goto
    <3> QED BY <1>1, <3>1 DEF PermittedSoFar, OnlyPermitted, HeldOK
  <2> QED BY <2>2, <2>3, <2>4, <2>5, <2>6, <2>7, <2>8 DEF Step
<1> QED BY <1>2, <1>3, <1>4 DEF PermittedSoFar, OnlyPermitted

\* The invariant holds in every state.
LEMMA Invariant == MCSpec => []IInv
<1>1. MCInit => IInv
  <2> SUFFICES ASSUME MCInit PROVE IInv
    OBVIOUS
  <2>1. TypeOK /\ ConnsCounted
    BY InitCounts DEF MCInit
  <2> QED BY <2>1 DEF MCInit, Init, IInv, HeldOK, PermittedSoFar, OnlyPermitted
<1>2. IInv /\ [MCNext]_<<vars, held>> => IInv'
  <2> SUFFICES ASSUME IInv, [MCNext]_<<vars, held>> PROVE IInv'
    OBVIOUS
  <2>1. TypeOK' /\ ConnsCounted'
    BY NextCounts DEF IInv, MCNext
  <2>2. CASE UNCHANGED <<vars, held>>
    BY <2>1, <2>2 DEF IInv, vars, HeldOK, PermittedSoFar, OnlyPermitted
  <2>3. CASE MCNext
    <3>1. HeldOK' /\ \A r \in Requests : held[r] \subseteq held'[r]
      BY <2>1, <2>3, HeldGrows DEF IInv
    <3>2. CASE \E r \in Requests : Arrive(r) \/ Step(r)
      BY <2>1, <2>3, <3>1, <3>2, RequestPermitted DEF IInv
    <3>3. CASE UNCHANGED <<pc, committed>>
      BY <2>1, <3>1, <3>3 DEF IInv, PermittedSoFar, OnlyPermitted
    <3> QED BY <2>3, <3>2, <3>3 DEF MCNext, Next, AssignRoleToUser,
               RemoveRoleFromUser, Signal, ShutdownReturns, PoolCloses
  <2> QED BY <2>2, <2>3
<1> QED BY <1>1, <1>2, PTL DEF MCSpec

\* However roles are assigned and removed while requests are handled, nothing
\* is carried out for a user who held no role for it since the request came.
THEOREM Permitted == MCSpec => []OnlyPermitted
<1>1. IInv => OnlyPermitted
  BY DEF IInv
<1> QED BY <1>1, Invariant, PTL
==============================================================================
