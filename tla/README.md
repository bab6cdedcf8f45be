# A TLA+ verification project for ioi-backend

The repository is the HTTP backend of a real-estate company: Go handlers
(Fiber) over PostgreSQL. Every handler that changes something runs its
statements inside one transaction (`internal/db/pool/pool.go`, `WithTx`), begun
with default options, so READ COMMITTED. No handler locks what it reads
(`SELECT ... FOR UPDATE` occurs nowhere): a check made on a row may be stale
when the statement that relies on it runs. This is where the code is hard to
test, and what most of this project is about. The rest is about what surrounds
the handlers (connections, permissions, deadlines, shutdown, notifications) and
about the arithmetic of lease bills.

## 1. The system

| component | state | operations | interacts with | modelled in |
|---|---|---|---|---|
| transactions, pool (`internal/db/pool`) | connections, row locks | `WithTx` | every handler | ReadCommitted, Requests |
| finance (`payment.go`, `receivable.go`, `credit_balance.go`, `db/*/finance.sql`) | receivables, payments, payment_allocations, credit_balances | create, post, allocate and void payments; create receivables; apply credits | lease bills and sales contracts create receivables; completing a contract reads them | Finance |
| adjustments (`financial_adjustment.go`) | financial_adjustments | create, approve | nothing applies an adjustment to a receivable | - |
| lease bills (`lease_bill.go`) | lease_bills | issue, void | finance: each issued bill has a receivable | Finance |
| approvals (`approval_request.go`, `approval_policy.go`) | policies, requests, approvers | create, decide, cancel, add approver, change policy | audit log; gates of sales, transfers and leases read the latest decision | Approvals |
| audit log (`audit_log.go`) | audit_logs, append-only by trigger | insert (in the handler's transaction), list | written by most handlers | Approvals, UnitSales |
| sales (`reservation.go`, `sales_contract.go`) | reservations, contracts, schedule lines, the unit's sales status | reserve, convert, cancel, activate, terminate, complete, default, generate and edit the schedule | finance (receivables of lines), approvals (gate), inventory | UnitSales |
| payment plan templates (`payment_plan_template.go`) | templates and their lines | create, list | schedules are generated from them | UnitSales, partly |
| ownership transfers (`ownership_transfer.go`, `unit_ownership.go`) | transfers, contract parties, unit ownerships | request, complete; enter and close ownerships | sales, approvals | OwnershipTransfers |
| leases (`lease_contract.go`) | lease contracts and parties, bills, the unit's occupancy | create, edit, activate, terminate, renew, generate bills, request a deposit refund | lease bills, approvals | Leases, LeaseBilling |
| inventory (`unit.go` and others) | entities, branches, projects, structure nodes, units | create, update | a unit's sales and occupancy status, set by clients and by sales and leases | UnitSales, Leases (the two statuses) |
| parties, responsibility | parties, assignments | create, update, close | read by sales and leases | - |
| authorization (`middleware/`, `authorization.go`, `scoped_permission.go`) | roles, assignments | check, assign, remove | a transaction of its own before each handler whose route asks for a permission | Requests |
| realtime (`internal/realtime`) | connected websockets | register, unregister, listen, write | `notify_realtime()` trigger | RealtimeHub |
| money and dates (`numeric_helpers.go`, `time_helpers.go`) | none | rounding, month arithmetic | schedules, lease bills | Calendar, LeaseBilling |
| server (`cmd/api/main.go`) | - | start, shutdown | requests, pool | Requests |

What is hard, and what makes each part correct:

- **Finance.** Two requests on one payment, receivable or credit balance; a
  void racing an allocation; a failure between the three tables one allocation
  touches; a retry of an allocation already made. Correct: no cent is lost or
  invented, nothing is spent twice, statuses fit the amounts, a void takes back
  exactly what the payment had paid.
- **Lease bills.** Issue racing void. Correct: a bill and its receivable stand
  or fall together.
- **Approvals.** Votes racing votes, rejections and cancellations; the policy
  read twice. Correct: decisions are final, earned, audited, and are reached
  once the votes are there.
- **Sales.** One unit wanted by several reservations and contracts, schedule edits
  racing activation, ends that need an approval; unit statuses, source
  reservations and approval requests that clients enter themselves. Correct: one
  holder, each due line billed once and for its amount, no end without its
  approval.
- **Transfers.** Two transfers of one contract, ownerships entered by hand.
  Correct: one open buyer, shares that pass from owner to owner.
- **Leases.** Activation, termination and renewal racing on one unit, whose
  occupancy clients set as well; bills generated twice or for an edited term.
  Correct: one lease holds a unit, the unit's occupancy and parties follow it, its
  bills tile its term.
- **Requests.** 25 connections for requests that need two, one after the other;
  roles removed between check and handler; deadlines; shutdown. Correct: every
  request is answered, nobody waits for everybody, and what a route asks a
  permission for is not done without one.
- **Realtime.** A client that leaves while it is written to; a listener that
  never reconnects. Correct: each client gets its messages once and in order.

`PROJECT.json` lists the hazards, each at its line and with the properties that
cover it.

## 2. The modules

```
ReadCommitted        transactions: db, dirty, owner; Write, CommitTx, RollbackTx
  ReadCommittedProofs      what a write, a commit and a rollback change
FinanceTables        rows and the UPDATE statements on them, as operators
  Ledger             abstract: whole operations on committed tables
Finance              both of the above: the handlers, statement by statement
  FinanceProperties        properties, refinement into Ledger
  FinanceInvariants        inductive invariants
    MCFinance                  instances for TLC
      FinanceProofs              types, locks, refinement into Ledger, deadlocks
Approvals            ReadCommitted: the approval handlers, properties
  MCApprovals, ApprovalsProofs
UnitHolding          abstract: who holds a unit
SalesTables          ReadCommitted: rows of the sales tables
  UnitSales          the sales handlers; implements UnitHolding
    MCUnitSales, UnitSalesProofs
OwnershipTransfers   ReadCommitted: transfers, contract parties, ownerships
  MCOwnershipTransfers, OwnershipTransfersProofs
Calendar             months and dates
  LeaseBilling       buildLeaseBillDrafts; MCLeaseBilling; proofs in LeasesProofs
Leases               ReadCommitted: the lease handlers; implements UnitHolding
  MCLeases, LeasesProofs
Requests             pool, permissions, deadlines, shutdown
  MCRequests, RequestsProofs
RealtimeHub          listener, hub, clients
  MCRealtimeHub, RealtimeHubProofs
```

Where a property speaks of the workloads of an MC module (`Serially...`), the
module of the proofs EXTENDS that MC module, so that the theorem is about the
very formula TLC checks.

**ReadCommitted** keeps the committed tables `db`, the newest version of each
row `dirty`, and who has locked a row, `owner`. An UPDATE by `t` needs the row
free or locked by `t`, works on `dirty` (PostgreSQL re-evaluates an UPDATE on
the latest version after waiting) and locks the row; a plain SELECT sees `db`,
or `dirty` for rows `t` itself has written. Commit and rollback are one step.
Rollback is possible at every statement: it stands for an error the closure
returns, the five-second timeout of the handlers, the victim of a deadlock and a
crash of the server or of the connection. After it the client may send the same
request again, which is just another request.

The modules built on it have the same form. `pc[t]` is the statement transaction
`t` runs next, `req[t]` its request, `todo[t]` the rows its loop has left. A read
and the checks made on it are one action (nothing happens between them that
another transaction could see); every write is an action of its own, and so is
every read after the first. The statements' WHERE clauses and the unique indexes
are guards: where the code returns an error, only Rollback remains.

- **Finance.** A handler with a single write is one action, and so is
  `IssueCreateReceivable`: the row IssueLeaseBill inserts is invisible to
  everybody else until it commits. The allocations of a request are a function
  from receivables to amounts; a request that names a receivable twice violates
  the unique key and changes nothing, so it is left out. The loop visits the
  receivables in any order, as the caller chooses the order.
- **Ledger** has an action per operation and no transactions. With `Strict`, each
  operation's checks hold at the moment it takes effect; without, only the
  transfers balance. `Finance` implements the lenient one always
  (`KeepsTheBooks`), and the strict one while requests are handled one at a time
  (`SeriallyKeepsThePromise`).
- **Approvals.** A vote is a row of approvers; the audit log is a set of
  (request, event) pairs.
- **UnitSales.** Reservations, contracts, schedule lines with their receivables,
  approval requests and the unit's sales status. Payments of a contract's
  receivables, decisions on approval requests, requests that clients enter
  (`SubmitApproval`, CreateApprovalRequest with any status the client names) and
  `UpdateUnit` are steps of other requests that change a committed row at once. A
  unit starts with any status, as CreateUnit lets it (`Init`), and UpdateUnit sets
  any at any time, looking at no contract: so `byHand`, a history variable no
  action reads, names the units whose status nobody but a client has set since
  (a commit of a handler that wrote the unit takes it off), and the properties of a
  unit's status speak of the others. CreateSalesContract stores the source reservation
  its caller names, which need be neither active nor of the same unit; the audit
  entry `convert_reservation` tells a conversion's contract from those. A trigger
  refuses to change the principal of a line that has a receivable. The audit entry
  of a handler is inserted with its last statement.
- **OwnershipTransfers.** Requesting a transfer and its approval, completing it:
  the contract's buyer replaced, the ownership closed, the new one inserted with
  the share taken over. Ownerships entered and closed by hand are one statement
  each.
- **Leases.** Drafts, edits, activation, the bills of a term, termination behind
  its gate, renewal; and, as in UnitSales, the approval requests clients enter,
  the occupancy they enter units with or set, and `byHand`. A lease's bills are
  numbered; **LeaseBilling** says what the n-th one is, in days and cents
  (`Calendar` has Go's `AddDate` and the code's month arithmetic).
- **UnitHolding** is what a unit's buyers or tenants are promised: one contract
  holds the unit, and a contract holds it once. An active sales contract, or an
  active lease, is the holder; `UnitSales` and `Leases` implement it under this
  mapping (`HoldsUnitOnce`).
- **Requests.** The requests to routes registered with RequirePermission: in
  `router.go`, what changes finance, sales, leases and approvals, but for
  cancelling an approval request. Such a request waits for a connection, looks its
  permission up, gives the connection back, waits again, and runs its handler; in
  some handlers with a second look at the row's scope. Everything else (reads,
  inventory, parties, ownerships, roles) needs a valid token only: those requests
  begin at their handler's transaction, a part of what is modelled, and
  `OnlyPermitted` says nothing of them. The handler's statements are one step here;
  they are the other modules' subject.
- **RealtimeHub.** The goroutines of the listener, of `Hub.Run` and of each
  client. `Run` copies the clients under the lock and writes to them without it.

Definitions whose names end in a slip (`..._Unchecked`, `..._Unguarded`, ...)
are not used by the specifications. Each is its namesake with a plausible
mistake, and shows that a property notices that mistake.

## 3. The runs

Most MC modules have a variable `load`, chosen at the start: how many requests
are handled at a time, which ones, on how many rows. One run so covers several
instances, each small where another is large.

| run | instance | shows |
|---|---|---|
| Finance | 8 workloads: 1, 2 or 3 requests at a time; up to 2 payments, 2 receivables, a bill and a credit balance; amounts 1-2 | `PaymentConservation`, `ReceivablePaidBounds`, `StatusMatchesAmounts`, `DeadlockNeedsTwoLists`, `KeepsTheBooks` always; `SeriallyConsistent`, `SeriallyKeepsThePromise` one at a time |
| Approvals | 1 or 3 requests at a time, 3 users, an approval request with min_approvers 2 | a rejection decides with its vote, decisions are final, approvals earned, every vote and cancellation has its audit entry and no other has; serially, the completing vote decides |
| SalesHolders | 3 workloads: 2 requests at a time on 2 contracts and up to 2 reservations of a unit; in one of them creators of contracts name any reservation, in another clients enter and set any sales status | `HeldOnce`, `SoldHasContract`, `ConvertedOnce` |
| SalesCourses | 6 workloads: 1, 2 or 3 requests at a time, up to 2 contracts, 2 lines, 3 approval requests; in one clients enter approval requests, in another they set the unit's status | ends by approval only, bills every due line at activation, audits every change, implements UnitHolding; serially, bills follow the edited schedule, no handler releases the unit of an active contract, and no approval is asked for twice |
| Transfers | 2 workloads: 2 transfers of one contract among 3 parties at once; 1 transfer with ownerships entered by hand | one open buyer, approved transfers only, shares passed on |
| Leases | 4 workloads: 2 requests on 3 leases of a unit; 2 requests on 2 leases while clients set the unit's occupancy and enter termination requests; 2 requests on one lease of up to 2 bills; 1 request on 2 leases | unit's occupancy and parties follow the lease, one renewal, bills of one term, implements UnitHolding; serially, one pending termination |
| LeaseSchedules | 5 starts, 10 ends, 5 intervals, 3 rents, with and without an advance | periods tile the term, bills fall due in order, the rent of at most a year is billed to half a cent a period |
| Requests | 2 requests, 1 connection, any roles, deadlines, shutdown | `PoolNeverStuck`, `OnlyPermitted`, and under fairness `AnswersAll`, `ShutsDown` |
| RealtimeHub | 2 clients of 2 users, 3 notifications | `DeliversInOrder`, and under fairness `EventsTaken` |
| EmptyPeriod, RaceVoidPayment, RaceApprovals | the instances above | each a disagreement between code and documents, below |

**Bounds.** Nothing in the transactional specifications is capped by a counter:
every operation uses up a row or an amount, so the sizes of the constant sets and
the workloads are the only bounds. The slots in `Tx` are reused, so there may be
many requests one after another. Two requests at a time are enough for the races
in these handlers, since each check is of one row; the deadlock property speaks
of circles, and votes of a majority, so they get three. Two amounts let an
allocation be partial, exact or excessive; two receivables let one request visit
rows in one order while another visits them in the other. Three leases are a
lease, its renewal and a rival of both. `MaxEvents` bounds the notifications: one
that a client gets, one written while it leaves, one after it. With one
connection the two requests compete for every transaction.

The requests and rows of a kind are interchangeable, and the properties speak of
all of them alike, so the runs on them use symmetry; the two runs with liveness
do not.

Deadlock is not checked where every row may have been used up: the system then
has nothing more to do. Deadlocks between requests are states where Rollback
still is possible, and are the subject of `DeadlockNeedsTwoLists`.

**Fairness.** Requests assumes that deadlines pass (`TimeOut`: every `WithTx`
runs under a context that ends after five seconds, and an expired one makes
every call return), that the graceful shutdown returns (it has ten seconds) and
that main then closes the pool. It assumes nothing of PostgreSQL: a statement
that never returns is what the deadline is for. RealtimeHub assumes that the
goroutines which can run do run. It does not assume that a client reads or that
the listener's connection lasts, so `EventsTaken` excepts both: the code sets no
deadline on a write (`hub.go:79`) and has no way to get a lost connection back
(`listener.go:30`). For reservations no liveness can be claimed: they expire only
when somebody makes another one.

**One at a time.** Some properties are false when requests race, because a
SELECT's result is relied on without a lock, and are claimed of one request at a
time only (`Serially...`), with failures at any statement:

- two allocations of one payment, or to one receivable, both pass the check of
  the remaining amount; so do two applications of a credit balance;
- a bill issued while it is voided as a draft keeps its receivable;
- two requests to end a contract or a lease both find no approval request;
- a line edited while its contract is activated is billed at its old amount.

The code also allows the following, and no property denies it. Even one request at
a time:

- clients set a unit's sales and occupancy status whatever contracts, reservations
  and leases it has (`unit.go:421`), and enter units with any (`unit.go:305`);
- they name any reservation as the source of a contract (`sales_contract.go:558`),
  and enter any number of approval requests for one record, in any status
  (`approval_request.go:321`);
- a cancelled draft makes its unit available though another contract has it
  (`sales_contract.go:1086`).

And when requests race: CancelReservation makes a unit available whose contract was
activated after its check; a lease ended while its bills are generated is billed; a
transfer completes though its contract ends meanwhile; a completed contract may have
a receivable whose payment was voided; `min_approvers` may change between the two
reads of a policy, which the run keeps at 2 and `ApprovalsAreEarned` assumes away.

### Where code and documents disagree

| run | what happens |
|---|---|
| RaceVoidPayment | an allocation commits after VoidPayment has listed the allocations: the payment is voided, the receivable stays paid |
| RaceApprovals | the last two approvers vote at once, each counts only its own vote, the request stays pending |
| EmptyPeriod | a lease from mid-month to the day before, a year later, gets a period that starts after it ends, which the table's CHECK refuses |

## 4. What is proved

All of it for every value of the constants, that is any number of transactions,
requests and rows, and with a rollback possible at every statement.

The proofs have one form. A property of the committed tables is not inductive by
itself: a commit publishes what its transaction has written since it began, so the
invariant must say, at each statement, what that is. It says of every row that is
locked who has locked it, what its committed version is (the guard of the UPDATE
that locked it still holds, because nobody else can write it) and what its newest
version is. The proofs rest on **ReadCommittedProofs**: a write changes the newest
version of one row and locks it; an end of a transaction makes committed and newest
versions agree on the rows it had locked; everything else stays. It says so of
tables whose rows have types (`TablesTyped`), row by row, which UnitSales and
OwnershipTransfers cite. What a handler read of rows it has not locked may be
stale, and the invariants about races rely on it only if nobody can take it back.

The properties of one request at a time have a second invariant on top of that,
under the hypothesis `[]OneRunning`: no two transactions run at once. A
transaction that ends unlocks all its rows, so while one runs every row somebody
else could change is as it is committed, and what the running one has read still
holds when it relies on it. The theorem of a workload (`MCSpec => []Serially...`)
follows, since MCNext lets no more than `load.clients` transactions run. Where one
at a time is not enough, the theorem names what else must not happen, and the
workload TLC checks is one where it does not.

**Finance**

- `TypeCorrect` (FinanceProofs): `Spec => []TypeOK`. It is inductive because
  its conjunct `RequestOK` says which request each statement is run for.
- `LocksMatch` and `PaymentsConserved` (FinanceProofs):
  `Spec => []PaymentConservation`, by way of `AllocationsMatchLocks`.
  AllocatePayment inserts its allocations one statement at a time and reduces
  `unapplied_amount` with the last one. The invariant says what lies between: an
  allocation somebody has locked was inserted by a request that has passed that
  line of its loop, its committed amount is still 0 and its new one is the line's;
  a payment somebody has locked is about to be committed, with the total of the
  lines taken off its *committed* `unapplied_amount` or with its status voided.
  The conservation of a payment so rests on row locks, on the unique key of
  `payment_allocations` and on the single commit.
- `LocksMakeOperations`: `LocksAreOperations` says for each kind of request
  exactly which rows it has locked at each statement, that their newest versions
  are one operation of Ledger applied to the committed ones, and which of its
  reads nobody takes back (a receivable exists, a payment was posted). A void is
  the delicate one: it reverses the allocations it has listed, and may miss one
  that commits meanwhile, which the lenient Ledger allows.
- `BooksAreKept`: `Spec => KeepsTheBooks`, the refinement: initial states map to
  initial states, a commit is the operation its locks make, every other step
  leaves the committed tables alone.
- `StatusAgrees` and `PaidBetweenAllocations`: `StatusMatchesAmounts` and
  `ReceivablePaidBounds`, proved of the operations of Ledger, on whole committed
  tables, and so of the handlers. What the bound on `paid_amount` needs besides
  itself is that a receivable which does not exist has nothing on it
  (`PaidIsBounded`).
- `PromiseIsKept`: `Spec /\ []OneRunning => KeepsThePromise`, the refinement into
  the strict Ledger, from `ChecksHold`: for each kind of request, what it has
  checked so far holds in the committed tables, not only when it read them. It is
  inductive because a handler of a single write, which may run between two
  statements of another, leaves alone what others have read (a payment is posted,
  a receivable is created), and the rest wait.
- `StaysConsistent`: `Spec /\ []OneRunning => []Consistent`: nothing is spent
  twice (`NoOverApplication`), what a receivable has been paid is what live
  allocations and applied credits pay it (`PaidIsAllocated`), a bill and its
  receivable stand or fall together. Proved of the operations of the strict
  Ledger, on whole committed tables. `SeriallyPromiseIsKept` and
  `SeriallyStaysConsistent` are the properties of the runs.
- `DeadlocksHaveTwoLists`: `Spec => []DeadlockNeedsTwoLists`, for circles of any
  length. The proof follows the order of the locks: payments and bills are locked
  last, so who has one waits for nobody (`LastLocks`); who has a credit balance, or
  an allocation, and waits, waits for a receivable (`CreditHolders`,
  `AllocationHolders`); and who has a receivable and still waits is a request with
  several of them (`ReceivableHolders`). In a circle somebody therefore has a
  receivable, and whoever that one waits for leads to another who has one
  (`CirclesHaveTwoLists`).

**Approvals** (ApprovalsProofs)

- `RejectionCommitsWithVote` and `DecisionsAreFinal`: `RejectionDecides` and
  `DecisionIsFinal`, from `LocksAreSound`: a locked request was pending or a draft
  when it was locked and is so in the committed table until the transaction ends,
  and a rejecting vote of a transaction that can commit goes with the rejection it
  has locked.
- `VotesAreAudited`: `Spec => AuditTrail`: the committed entries fit the committed
  votes and cancellations, and a commit that cancels a request adds its entry. From
  `TrailIsKept`: once a transaction has recorded a vote or a cancellation it has
  that row locked, it has locked no other vote, and at its commit it has the audit
  entry of just that row. (A request may be *created* as cancelled, which leaves no
  entry, so the property speaks of the step that cancels.)
- `ApprovalsAreEarned`: `Spec /\ [][MinApproversStay]_vars => ApprovedByEnough`.
  The hypothesis is the property's own: an administrator who changes
  `min_approvers` between the count and the commit changes what is enough.
  `EnoughIsSeen` says that the approvals a vote has counted are still seen by it
  (committed ones are final, and its own is locked) when it locks the request, and
  until it commits.
- `VotesDecide`: with policies that keep `min_approvers` at 1 or more and one
  request at a time, `[]EnoughApprovalsDecide`: `VotesComplete` says that a vote
  which does not decide has counted too few, and that nobody makes a request
  pending otherwise. The hypothesis on `MinApprovers` is there because nothing in
  the code enforces it (the column is a SMALLINT with a default of 1 and no CHECK),
  and a request that needs no approval stays pending until somebody votes.
  `SeriallyVotesDecide` is the property of the run.

**Leases** (LeasesProofs), in layers, each inductive given those before it:

- `TypeCorrect` and `OneLeasePerUnit` (`HoldsUnitOnce`, the refinement into
  UnitHolding): a locked lease is being moved by its handler, edited as a draft,
  or inserted (`LeasesSound`), and no two leases of a unit are active in any
  mixture of committed and newest versions (`OneActive`). The second is the partial
  unique index; the first says that no end of a transaction can undo it.
- `TerminationNeedsApproval` (`TerminatedByApproval`): what a termination read as
  approved stays approved (`ApprovalsSound`).
- `UnitOccupied`, `TenantIsParty` (`OccupiedWhileLet`, `TenantWhileLet`): a
  transaction that will commit an activation or a termination has the unit and the
  tenant's row with it, and nobody else has (`PremisesSound`). `UnitOccupied` speaks of
  the units not in `byHand`: a handler's commit that writes the unit takes it off that
  set with the right status, whatever a client had made of it.
- `OneRenewal` (`RenewedOnce`): the transaction that makes a lease renewed inserts
  one lease, its renewal (`RenewalsSound`).
- `BillsOfItsTerm` (`BilledForItsTerm`): bills are generated for an active lease,
  whose term is not edited any more, all of them or none (`BillsSound`).
- `OneTerminationWaits`, `SeriallyOneTerminationWaits`: one request at a time, and as
  long as clients enter no approval request themselves (`[][~Submitted]_vars`), a
  lease has one pending request to terminate it at most. CreateApprovalRequest does
  not look for an earlier one, hence the second hypothesis. The gate reads only the
  latest, so the invariant says of the earlier ones that they wait no more.

**Schedules** (the last part of LeasesProofs, which EXTENDS LeaseBilling as well),
for leases of any dates, interval, anchor, rent and advance:

- `PeriodsTileTheTerm` (`PeriodsTile`), `BillsFallDueInOrder` (`DueInOrder`) and
  `TheRentIsBilled` (`RentIsBilled`). A date is a month, counted from year 0, and
  a day no later than the month's last; adding months moves the first and clamps
  the second, so that it keeps the order of months (`MonthsHaveDays`,
  `DayInMonth`), and the day before a date is the greatest date before it.
  The number of periods is the months of the term divided by the interval and
  rounded up, which places the end of the term between the last two starts.
  Rounding is off by half a cent at most, and the last bill is what the unrounded
  amounts of the others leave. The invariant, `DraftsSoFar`, says what each draft
  so far is, by its number. The properties name bills by their positions, so no
  recursion is left to reason about. `BillingAssumption` is what the tables'
  CHECKs and `leaseIntervalMonths` see to: dates are dates, intervals are positive,
  amounts are not negative.

**Sales** (UnitSalesProofs), in layers too:

- `TypeCorrect`, `OneContractPerUnit` (`HoldsUnitOnce`): as for leases
  (`ContractsSound`, `OneActive`).
- `UnitHeldOnce` and `ReservationConvertedOnce` (`HeldOnce`, `ConvertedOnce`): a
  unit has one active reservation in every mixture of versions, except that the
  request which expires one may insert its successor; a conversion that has
  inserted its contract commits with its reservation locked as converted, or not
  at all (`ReservationsSound`). `ConvertedOnce` counts the contracts a conversion
  made, which the audit log tells from those whose creator only named the
  reservation.
- `SoldUnitHasContract` (`SoldHasContract`): only the commit that makes a
  contract active makes its unit sold, and whoever will commit that a contract is
  cancelled or terminated has the unit locked as available (`UnitsSound`). It speaks
  of units not in `byHand`.
- `EndingNeedsApproval` (`EndedByApproval`), from `ApprovalsSound`.
- `ActivatedIsBilled` (`ActiveIsBilled`): an activation that has its contract
  locked has billed every line it listed but those in its `todo`, and lines are
  committed from the first on, so that it listed some (`LinesSound`). It says
  nothing of the amounts: a line edited meanwhile is billed at its old one.
- `LinesAreBilledAsScheduled`: one request at a time, the receivable of a line is
  for the line's principal. Only drafts' lines change, and those have receivables
  only inside the transaction that activates the contract.
- `ChangesAreAudited` (`EveryChangeIsAudited`): at its
  commit a transaction has inserted the entry of a status exactly when that is
  the new status of the contract it has locked (`AuditSound`).
- `ActiveUnitsAreTaken`: one request at a time, and as long as no draft is
  cancelled, the unit of an active contract is available only if a client made it
  so. The second hypothesis is needed: cancelling a draft makes its unit available
  without a look at other contracts (section 3).
- `OneEndingWaits`: one request at a time, and as long as no client enters an
  approval request of its own, a contract has one pending request to end it at
  most. CreateApprovalRequest does not look for an earlier one.
- `SeriallySalesSound` (`SeriallySound`): the three of them, in the workloads
  whose operations meet those hypotheses.

**Transfers** (OwnershipTransfersProofs)

- `OneBuyerEach` (`OneOpenBuyer`) and `BuyersAreReplacedByApproval`
  (`TransferredByApproval`), from one invariant, `IInv`. CompleteOwnershipTransfer
  reads the transfer, its approval and the open row of the old buyer, and locks
  none of them; what saves it is the guard of the UPDATE that closes the row.
  `Remembers` says what its reads stay good for: the row stays the old buyer's,
  the transfer's approval stays given, and if somebody else has completed the
  transfer meanwhile, the row is closed, so that this completion stops.
  `PartyLocks`, `ContractLocks`, `TransferLocks` and `ApprovalLocks` say, statement by
  statement, that a completion past that guard has the old row locked as closed,
  then one new row of the new buyer and the contract, and at last the transfer.
  A completion commits with all of them, and `OneOpen` therefore passes from the
  old row to the new one.
- `SharesPassOn` and `TransfersOfSharesPassOn` (`TransfersPassSharesOn`): however
  transfers interleave and whatever clients enter, a completion opens one
  ownership and gives it the share of the one it closes, or all of the unit.
  Here the transactions do race; the hypothesis (`NotClosedByHand`) is that
  clients close no ownership by hand: GetActiveUnitOwnershipForParty and
  CloseUnitOwnership are two statements, and the second updates the row by its id,
  whether it is still open or not.

**Requests** (RequestsProofs)

- `NeverStuck`: `PoolNeverStuck`, from `ConnsCounted`: the free connections and the
  running transactions add up to `MaxConns`, so whoever waits, some connection is
  free or its holder is running a statement.
- `Permitted`: `OnlyPermitted`, from `PermittedSoFar`, which says at every
  statement which permissions have been found so far. Roles may be assigned and
  removed in any order meanwhile.

**Realtime** (RealtimeHubProofs)

- `ClientsGetTheirEvents` (`DeliversInOrder`): an event keeps its place from the
  database through the listener and the hub's channel (`InCommitOrder`); what Run
  writes is the last message taken (`WritesTheLast`), to clients that registered
  before it was taken (`RegisteredBefore`). So a client has been written the events
  due to it since it registered, each once and in order, and a first part of them
  if it left in between. The listener's losing its connection and a
  client that stalls are among the steps.

**Assumptions** are those named in the modules. `NilAssumption`, `NilIsNothing`,
`NilIsNoRequest`, `NilIsNoEvent`: `Nil` is no transaction, no receivable, no
request and no event. `TablesAssumption`: finite sets of ids, positive amounts,
bills are receivables. `ApprovalsAssumption`: finitely many users, none of them
named like an event of the audit log. `LeaseAssumption` and `SalesAssumption`:
approvals are numbered and finitely many, line numbers start at 1 without a gap,
`Nil` is no unit, lease, reservation, contract or amount. `TransferAssumption` and
`NilIsNoRow`: a contract has room for one party row at least, shares are between 1
and 100, `Nil` is no contract, party, transfer or row of a table.
`RequestsAssumption`: finitely many requests, a positive number of connections.
`HubAssumption`: `Nil` is no user, and the bound on notifications is a number.
`BillingAssumption`: as said above. TLC evaluates them in every run.

**Model-checked only.** Liveness under fairness (`AnswersAll`, `ShutsDown`,
`EventsTaken`), which is out of the prover's reach. Every invariant and every
action property the passing runs check is a theorem; those of `ApprovedByEnough`
and `SeriallyEnoughApprovalsDecide` have the hypotheses on policies given above,
which the constants of the runs meet.

The sums of amounts in Finance are cardinalities of sets of cents (`Total`), which
keeps the proofs within the library's theorems on finite sets. The type invariants
of Finance, Leases and sales are theorems of their own; that of Approvals is part
of `LocksAreSound`, those of Requests and OwnershipTransfers of their `IInv`.

## 5. Not modelled

- Amounts with more than two decimals, their parsing and formatting, and the
  SMALLINT `allocation_order`.
- `adjusted_amount` (always 0: no handler runs `UpdateReceivableAdjustedAmount`)
  and the statuses `written_off`, `cancelled` (credit) and `expired`, which no
  handler sets.
- Lease bills of amount 0: issuing one fails on the receivable's CHECK.
- The percentages of payment plan templates and the prices of contracts: a
  template is any schedule of lines.
- Deposits: a reservation's deposit payment is created like any other, and no
  handler pays a deposit out, however often a refund is requested.
- The audit entries of leases, transfers and lease bills, which nothing reads.
- Adjustments, parties, responsibility, and inventory other than a unit's two
  statuses (of UpdateUnit, the fields besides `sales_status` and
  `occupancy_status`; units are there from the start): rows inserted or changed by
  one statement, which no other handler's check depends on.
- Approval requests that are drafts or expired: only clients enter such (`expired`)
  or leave them so (`draft`), and to the gates of sales and leases they are what a
  cancelled one is, no request that waits or was approved.
- Lists and pages (they only read), tokens, the claims row-level security uses,
  routes, configuration and the cache, which no handler calls.
- The websocket library: RealtimeHub assumes that a connection Run still has in
  its copy is not handed to another client.

## 6. What could come next

1. Deadlocks of the other handlers: where their requests may wait in a circle, as
   `DeadlocksHaveTwoLists` says of Finance.
2. The split of a price by a template's percentages, against the sum it must have.
3. Finance and UnitSales composed: payments that settle a contract's receivables
   statement by statement, instead of at once.
