\* Rents that 12 divides and that it does not, with and without an advance.
SPECIFICATION DraftsSpec
CONSTANTS
  StartDates <- MCStarts
  EndDates <- MCEnds
  Intervals <- MCIntervals
  Rents = {1200, 1016, 1}
  Advances = {0, 5}
INVARIANTS PeriodsTile DueInOrder RentIsBilled
\* The schedule is built.
CHECK_DEADLOCK FALSE
