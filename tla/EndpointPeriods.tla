--------------------------- MODULE EndpointPeriods ---------------------------
(***************************************************************************)
(* EndpointTraffic with the calendar of service.go: its boundaries are the *)
(* resets that TrafficCalendar finds, and its account is a TrafficPeriods. *)
(***************************************************************************)
EXTENDS EndpointTraffic, TrafficCalendar

\* The boundaries are resets of the calendar, and for every time of the clock
\* the reset before it and the one after it are among them.
ASSUME PeriodsAssumption ==
    /\ Schedules = Schedule /\ Time \subseteq Window
    /\ \A s \in Schedule :
          /\ Boundaries[s] \subseteq Resets(s)
          /\ \A t \in Time :
                /\ \E b \in Boundaries[s] : FirstAfter(s, t, b)
                /\ \E b \in Boundaries[s] : LatestUpTo(s, t, b)

Periods == INSTANCE TrafficPeriods
    WITH sched <- usage.sched, next <- usage.next, last <- usage.last

\* The account keeps the promise of TrafficPeriods: whatever transactions
\* roll back, overlap with others' writes or come late, its plan and periods
\* are those that service.go:77's NextReset and service.go:224's resetDue
\* find by the calendar.
PeriodsSpec == Periods!Spec
=============================================================================
