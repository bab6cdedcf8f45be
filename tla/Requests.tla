------------------------------ MODULE Requests ------------------------------
(***************************************************************************)
(* What happens around a handler whose route asks for a permission.  A     *)
(* request of a user passes RequirePermission, which looks the permission  *)
(* up in a transaction of its own, and then its handler, which runs a      *)
(* second transaction; some handlers look the permission up again, for the *)
(* business entity, branch or project of the row.  Each transaction is a   *)
(* pool.WithTx: it takes one of MaxConns connections, has five seconds from *)
(* then on to get it, run its statements and commit, and gives the         *)
(* connection back.  Meanwhile roles are assigned and removed, and main may *)
(* be told to shut down.  Routes that ask for none (router.go registers    *)
(* reads, inventory, parties and roles so) only do the second half.        *)
(*                                                                         *)
(* The roles are those of one user that have the permission asked for; a   *)
(* role is assigned to all of the deployment, or to something the row is   *)
(* in ("here") or is not in ("elsewhere").                                 *)
(***************************************************************************)
EXTENDS Naturals, FiniteSets

CONSTANTS
  Requests,
  Scoped,      \* the requests whose handlers call requireScopedPermission
  MaxConns     \* the connections of the pool

ASSUME RequestsAssumption ==
  /\ IsFiniteSet(Requests)
  /\ Scoped \subseteq Requests
  /\ MaxConns \in Nat \ {0}

VARIABLES
  pc,          \* where each request is
  outcome,     \* what each request was answered
  committed,   \* whether what it asked for is committed
  free,        \* how many connections are not taken
  assigned,    \* the scopes the user has the role in
  server

vars == <<pc, outcome, committed, free, assigned, server>>

Scopes    == {"deployment", "here", "elsewhere"}
Awaiting  == {"await_check", "await_handler"}               \* for a connection
Statement == {"check", "check_scope", "write", "commit"}    \* has a connection
Outcome   == {"none", "ok", "denied", "refused", "failed"}  \* 2xx, 403, 4xx, 500

Init ==
  /\ pc = [r \in Requests |-> "unsent"]
  /\ outcome = [r \in Requests |-> "none"]
  /\ committed = [r \in Requests |-> FALSE]
  /\ free = MaxConns
  /\ assigned \in SUBSET Scopes
  /\ server = "running"

At(r, stmt)   == pc[r] = stmt
Goto(r, stmt) == pc' = [pc EXCEPT ![r] = stmt]

Answer(r, answer) ==
  /\ Goto(r, "answered")
  /\ outcome' = [outcome EXCEPT ![r] = answer]

-----------------------------------------------------------------------------
Arrive(r) ==
  /\ server = "running" /\ At(r, "unsent")
  /\ Goto(r, "await_check")
  /\ UNCHANGED <<outcome, committed, free, assigned, server>>

Acquire(r) ==
  /\ pc[r] \in Awaiting /\ free > 0 /\ server # "closing"
  /\ free' = free - 1
  /\ Goto(r, IF At(r, "await_check") THEN "check"
             ELSE IF r \in Scoped THEN "check_scope" ELSE "write")
  /\ UNCHANGED <<outcome, committed, assigned, server>>

\* The pool hands out no connection once it is being closed.
AcquireFromClosed(r) ==
  /\ pc[r] \in Awaiting /\ free > 0 /\ server = "closing"
  /\ Answer(r, "failed")
  /\ UNCHANGED <<committed, free, assigned, server>>

CheckUserPermission_Nested(r) ==   \* c.Next() before the transaction ends
  /\ At(r, "check")
  /\ \/ assigned # {} /\ Goto(r, "await_handler") /\ UNCHANGED <<outcome, free>>
     \/ assigned = {} /\ Answer(r, "denied") /\ free' = free + 1
  /\ UNCHANGED <<committed, assigned, server>>

\* RequirePermission asks for the role in any scope.
CheckUserPermission(r) ==
  /\ At(r, "check")
  /\ free' = free + 1
  /\ \/ assigned # {} /\ Goto(r, "await_handler") /\ UNCHANGED outcome
     \/ assigned = {} /\ Answer(r, "denied")
  /\ UNCHANGED <<committed, assigned, server>>

CheckUserPermissionInScope_Any(r) ==   \* calls CheckUserPermission again
  /\ At(r, "check_scope")
  /\ \/ assigned # {} /\ Goto(r, "write") /\ UNCHANGED <<outcome, free>>
     \/ assigned = {} /\ Answer(r, "denied") /\ free' = free + 1
  /\ UNCHANGED <<committed, assigned, server>>

CheckUserPermissionInScope(r) ==
  LET allowed == assigned \cap {"deployment", "here"} # {}
  IN /\ At(r, "check_scope")
     /\ \/ allowed /\ Goto(r, "write") /\ UNCHANGED <<outcome, free>>
        \/ ~allowed /\ Answer(r, "denied") /\ free' = free + 1
     /\ UNCHANGED <<committed, assigned, server>>

\* The handler's own statements: they are done, or a rule of the handler or a
\* constraint of the database refuses and the transaction is rolled back.
RunHandler(r) ==
  /\ At(r, "write")
  /\ \/ Goto(r, "commit") /\ UNCHANGED <<outcome, free>>
     \/ Answer(r, "refused") /\ free' = free + 1
  /\ UNCHANGED <<committed, assigned, server>>

Commit(r) ==
  /\ At(r, "commit")
  /\ committed' = [committed EXCEPT ![r] = TRUE]
  /\ free' = free + 1
  /\ Answer(r, "ok")
  /\ UNCHANGED <<assigned, server>>

TimeOut_Leaks(r) ==   \* conn.Release() is not deferred
  /\ pc[r] \in Awaiting \cup Statement
  /\ committed' \in {committed, [committed EXCEPT ![r] = At(r, "commit")]}
  /\ Answer(r, "failed")
  /\ UNCHANGED <<free, assigned, server>>

TimeOut_CheckOnly(r) ==   \* the handler passes c.Context() without a timeout
  /\ pc[r] \in {"await_check", "check"}
  /\ free' = IF At(r, "check") THEN free + 1 ELSE free
  /\ Answer(r, "failed")
  /\ UNCHANGED <<committed, assigned, server>>

\* The context of the transaction ends, after five seconds or because the
\* server shuts down, or its connection is lost.  Whether a commit whose answer
\* does not arrive took place is not known.
TimeOut(r) ==
  /\ pc[r] \in Awaiting \cup Statement
  /\ committed' \in {committed, [committed EXCEPT ![r] = At(r, "commit")]}
  /\ free' = IF pc[r] \in Statement THEN free + 1 ELSE free
  /\ Answer(r, "failed")
  /\ UNCHANGED <<assigned, server>>

-----------------------------------------------------------------------------
\* The unique index of the assignments allows one for a user, role and scope.
AssignRoleToUser(scope) ==
  /\ scope \notin assigned
  /\ assigned' = assigned \cup {scope}
  /\ UNCHANGED <<pc, outcome, committed, free, server>>

RemoveRoleFromUser(scope) ==
  /\ scope \in assigned
  /\ assigned' = assigned \ {scope}
  /\ UNCHANGED <<pc, outcome, committed, free, server>>

-----------------------------------------------------------------------------
(***************************************************************************)
(* main: a signal; app.ShutdownWithContext, which takes no more requests   *)
(* and returns when all are answered or ten seconds have passed; and       *)
(* pool.Close, which waits for every connection, before the process exits. *)
(***************************************************************************)
Signal ==
  /\ server = "running" /\ server' = "draining"
  /\ UNCHANGED <<pc, outcome, committed, free, assigned>>

ShutdownReturns ==
  /\ server = "draining" /\ server' = "closing"
  /\ UNCHANGED <<pc, outcome, committed, free, assigned>>

PoolCloses ==
  /\ server = "closing" /\ free = MaxConns
  /\ server' = "stopped"
  /\ UNCHANGED <<pc, outcome, committed, free, assigned>>

-----------------------------------------------------------------------------
Step(r) ==
  \/ Acquire(r)
  \/ AcquireFromClosed(r)
  \/ CheckUserPermission(r)
  \/ CheckUserPermissionInScope(r)
  \/ RunHandler(r)
  \/ Commit(r)
  \/ TimeOut(r)

Next ==
  \/ server # "stopped" /\ \E r \in Requests : Arrive(r) \/ Step(r)
  \/ \E scope \in Scopes : AssignRoleToUser(scope) \/ RemoveRoleFromUser(scope)
  \/ Signal \/ ShutdownReturns \/ PoolCloses

Spec == Init /\ [][Next]_vars

\* Time passes: deadlines end, and main goes on to shut down once told to.
\* Nothing is assumed of PostgreSQL or of the order the pool serves requests.
Fairness ==
  /\ \A r \in Requests : WF_vars(server # "stopped" /\ TimeOut(r))
  /\ WF_vars(ShutdownReturns) /\ WF_vars(PoolCloses)

FairSpec == Spec /\ Fairness

-----------------------------------------------------------------------------
\* What is asked, answered, committed and assigned is of its type.
TypeOK ==
  /\ pc \in [Requests -> {"unsent", "answered"} \cup Awaiting \cup Statement]
  /\ outcome \in [Requests -> Outcome]
  /\ committed \in [Requests -> BOOLEAN]
  /\ free \in 0..MaxConns
  /\ assigned \subseteq Scopes
  /\ server \in {"running", "draining", "closing", "stopped"}

\* A request that waits for a connection waits for requests that are running
\* a statement, never for one that waits for a connection as well: however
\* small the pool, permission checks and handlers do not lock each other out.
PoolNeverStuck ==
  (\E r \in Requests : pc[r] \in Awaiting) =>
    free > 0 \/ \E r \in Requests : pc[r] \in Statement

\* Every request that arrived is answered, though the database may never
\* answer a statement or commit, unless the process exits.
AnswersAll ==
  \A r \in Requests :
    At(r, "await_check") ~> At(r, "answered") \/ server = "stopped"

\* Once told to, the process exits: no request keeps its connection for good.
ShutsDown == server = "draining" ~> server = "stopped"
==============================================================================
