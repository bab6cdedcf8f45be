----------------------------- MODULE LeaseBilling -----------------------------
(***************************************************************************)
(* buildLeaseBillDrafts: the bills of a lease, for its advance rent and    *)
(* for each billing period, one draft a step.  Amounts are in cents; the   *)
(* rent is for a year, and what a period is billed is its part of it.      *)
(***************************************************************************)
EXTENDS Calendar, Integers, Sequences

CONSTANTS
  StartDates,    \* start dates of leases
  EndDates,      \* end dates
  Intervals,     \* <<billing_interval_value, billing_interval_unit>>
  Rents,         \* contractual_rent_amount
  Advances       \* advance_rent_amount

ASSUME BillingAssumption ==
  /\ \A date \in StartDates \cup EndDates : IsDate(date)
  /\ Intervals \subseteq (Nat \ {0}) \X {"month", "quarter", "semi_year", "year"}
  /\ Rents \cup Advances \subseteq Nat

VARIABLES
  lease,        \* the lease contract
  period,       \* the number of the next period
  cumulative,   \* rent of the periods before it, in twelfths of a cent
  drafts        \* the drafts so far

draftVars == <<lease, period, cumulative, drafts>>

Lease == [start : StartDates, end : EndDates, anchor : StartDates, interval : Intervals,
          rent : Rents, advance : Advances]

InitDrafts ==
  /\ lease \in {l \in Lease : ~Before(l.end, l.start)}
  /\ period = 0
  /\ cumulative = 0
  /\ drafts = <<>>

leaseIntervalMonths ==
  lease.interval[1] *
    CASE lease.interval[2] = "month"     -> 1
      [] lease.interval[2] = "quarter"   -> 3
      [] lease.interval[2] = "semi_year" -> 6
      [] OTHER                           -> 12

Periods ==
  LET totalMonths == monthsBetween(lease.start, lease.end) + 1
  IN (totalMonths + leaseIntervalMonths - 1) \div leaseIntervalMonths

PeriodStart(n) == addMonthsClamped(lease.start, n * leaseIntervalMonths)
PeriodEnd(n)   == Earlier(DayBefore(PeriodStart(n + 1)), lease.end)

DueDate_Anchor(n) == addMonthsClamped(lease.anchor, n * leaseIntervalMonths)

DueDate(n) ==
  Later(addMonthsClamped(lease.anchor, n * leaseIntervalMonths), PeriodStart(n))

PeriodRent == lease.rent * leaseIntervalMonths   \* in twelfths of a cent

LastAmount_Period(rest) == roundRatToCents(PeriodRent, 12)   \* not what is left

LastAmount(rest) == IF rest < 0 THEN 0 ELSE roundRatToCents(rest, 12)

More == period < Periods

AdvanceDraft ==
  /\ lease.advance > 0 /\ drafts = <<>>
  /\ drafts' = << [start |-> lease.start, end |-> PeriodEnd(0), due |-> lease.start,
                   amount |-> lease.advance, is_advance |-> TRUE] >>
  /\ UNCHANGED <<lease, period, cumulative>>

PeriodDraft ==
  /\ More /\ (lease.advance > 0 => drafts # <<>>)
  /\ drafts' = Append(drafts,
       [start |-> PeriodStart(period), end |-> PeriodEnd(period), due |-> DueDate(period),
        amount |-> IF period = Periods - 1 THEN LastAmount((12 * lease.rent) - cumulative)
                                      ELSE roundRatToCents(PeriodRent, 12),
        is_advance |-> FALSE])
  /\ period' = period + 1
  /\ cumulative' = IF period = Periods - 1 THEN cumulative ELSE cumulative + PeriodRent
  /\ lease' = lease

NextDraft == AdvanceDraft \/ PeriodDraft

DraftsSpec == InitDrafts /\ [][NextDraft]_draftVars

-----------------------------------------------------------------------------
Date  == {date \in Nat \X (1..12) \X (1..31) : IsDate(date)}
Draft == [start : Date, end : Date, due : Date, amount : Nat, is_advance : BOOLEAN]

\* Drafts are dates and cents, and nobody is billed a negative amount.
DraftsTypeOK == period \in 0..Periods /\ drafts \in Seq(Draft)

Built == period = Periods

RentBills      == {k \in DOMAIN drafts : ~drafts[k].is_advance}
Occupied(bill) == ~Before(bill.end, bill.start)

\* Every day of the term is in exactly one period, whatever the months'
\* lengths, leap days and the day the lease starts on, and a period starts
\* as many months after the one before as the interval has.  No day is left
\* for the last bill where the others have taken them all.
PeriodsTile ==
  Built =>
    /\ RentBills = Len(drafts) - Periods + 1 .. Len(drafts)
    /\ \A k \in RentBills :
         /\ k - 1 \notin RentBills => /\ drafts[k].start = lease.start
                                     /\ Occupied(drafts[k])
         /\ k + 1 \notin RentBills /\ Occupied(drafts[k]) => drafts[k].end = lease.end
         /\ k + 1 \in RentBills =>
              /\ Occupied(drafts[k])
              /\ drafts[k].end = IF Occupied(drafts[k + 1])
                                   THEN DayBefore(drafts[k + 1].start) ELSE lease.end
              /\ monthsBetween(drafts[k].start, drafts[k + 1].start) = leaseIntervalMonths

\* A bill is due on or after the first day of its period, and never before
\* an earlier bill, wherever in the month the anchor is.
DueInOrder ==
  \A k \in RentBills :
    /\ ~Before(drafts[k].due, drafts[k].start)
    /\ \A l \in RentBills : l < k => ~Before(drafts[k].due, drafts[l].due)

\* The bills of a lease of at most a year come to its rent, but for half a
\* cent for every period: the last, and the others, which are all alike.
RentIsBilled ==
  Built /\ Periods * leaseIntervalMonths <= 12 =>
    \A k \in RentBills :
      LET billed == ((Periods - 1) * drafts[k].amount) + drafts[Len(drafts)].amount
      IN k < Len(drafts) \/ Periods = 1 =>
           /\ 2 * (billed - lease.rent) <= Periods
           /\ 2 * (lease.rent - billed) <= Periods
           /\ \A l \in RentBills : l < Len(drafts) => drafts[l].amount = drafts[k].amount

\* No bill ends before it starts.
NoEmptyPeriod == \A k \in DOMAIN drafts : Occupied(drafts[k])
==============================================================================
