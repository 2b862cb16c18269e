-------------------------------- MODULE MCReports --------------------------------
(***************************************************************************)
(* Instances of ReportsTab for TLC: a day of two hours, a week of two days *)
(* and a month of three.                                                   *)
(***************************************************************************)
EXTENDS ReportsTab

CONSTANTS c1, k1, k2, m1, r1, r2

MCRow(frequency, day) == [connection |-> c1, frequency |-> frequency, schedule_day |-> day]

\* The report there is at first is weekly, the one that is created is daily.
MCRows == {[c \in Config |-> IF c = k1 THEN MCRow("weekly", 0) ELSE MCRow("daily", 0)]}
==============================================================================
