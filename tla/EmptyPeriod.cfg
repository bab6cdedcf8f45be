\* A lease from the middle of a month to the day before a year later.
SPECIFICATION DraftsSpec
CONSTANTS
  StartDates <- MCStarts
  EndDates <- MCEnds
  Intervals <- MCIntervals
  Rents = {1200}
  Advances = {0}
INVARIANT NoEmptyPeriod
CHECK_DEADLOCK FALSE
