---------------------------- MODULE MCLeaseBilling ----------------------------
(***************************************************************************)
(* LeaseBilling for TLC: leases that start on the first, in the middle or  *)
(* on the last days of a month, before and in a leap year, and end up to   *)
(* two years later on any of the days where a term may end.                *)
(***************************************************************************)
EXTENDS LeaseBilling

MCStarts == {<<2023, 12, 31>>, <<2024, 1, 1>>, <<2024, 1, 30>>, <<2024, 2, 29>>,
             <<2024, 3, 15>>}
MCEnds == {<<2024, 1, 31>>, <<2024, 2, 28>>, <<2024, 2, 29>>, <<2024, 3, 14>>,
           <<2024, 12, 30>>, <<2024, 12, 31>>, <<2025, 1, 29>>, <<2025, 2, 28>>,
           <<2025, 3, 14>>, <<2025, 12, 31>>}
MCIntervals == {<<1, "month">>, <<4, "month">>, <<1, "quarter">>,
                <<1, "semi_year">>, <<1, "year">>}
==============================================================================
