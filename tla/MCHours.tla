------------------------------- MODULE MCHours -------------------------------
(* Hours on small instances.                                               *)
EXTENDS Hours

\* Three days, of one, two and one minutes.
SmallDays == <<0, 2, 6, 8>>

\* The bound of the runs: while there are letters there is one shift at most.
Small == letters = <<>> \/ Cardinality(punches) <= 2

SmallSpec       == HoursInit /\ [][SteadyNext /\ Small']_hoursVars
SmallWeeklySpec == HoursInit /\ [][WeeklyNext /\ Small']_hoursVars
=============================================================================
