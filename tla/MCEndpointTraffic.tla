-------------------------- MODULE MCEndpointTraffic --------------------------
(***************************************************************************)
(* EndpointTraffic for TLC, with a calendar: the boundaries of a schedule  *)
(* are the resets that TrafficCalendar finds in months of one and two      *)
(* days.  One schedule has a reset at every instant, so that several are   *)
(* missed at once, the other one fewer, and a day that some months lack.   *)
(***************************************************************************)
EXTENDS EndpointPeriods, Sequences

MCLengths == <<2, 2, 1, 1, 2, 1>>
MCDays == [m \in 0 .. 5 |-> MCLengths[m + 1]]
MCStart == [m \in 0 .. 6 |->
              LET sum[k \in 0 .. m] == IF k = 0 THEN -4
                                       ELSE sum[k - 1] + MCLengths[k] * DayLen
              IN  sum[m]]
MCSchedules == Schedule
MCBoundaries == [s \in Schedule |->
                    {b \in Resets(s) : 0 <= b /\ b <= NextReset(s, MaxTime)}]
MCReadings == {-1, 2}
=============================================================================
