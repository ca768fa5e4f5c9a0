---------------------------- MODULE TrafficPeriods ----------------------------
(***************************************************************************)
(* What an endpoint's account promises of its periods: the plan, the reset *)
(* it waits for and the one that began the present period, by the          *)
(* arithmetic of internal/endpointtraffic/service.go.  A step is a whole   *)
(* transaction, made for a time that was read before its turn came, so it  *)
(* may be earlier than the one before.  EndpointTraffic is shown to        *)
(* implement this.                                                         *)
(*                                                                         *)
(* Renewal is off when no reset is planned.                                *)
(***************************************************************************)
EXTENDS TrafficCalendar

CONSTANT Nil            \* a NULL time

VARIABLES
    sched,          \* the plan's schedule
    next,           \* NextTrafficResetAt
    last            \* LastTrafficResetAt

vars == <<sched, next, last>>

TypeOK ==
    /\ sched \in Schedule
    /\ next \in Instants \cup {Nil} /\ last \in Instants \cup {Nil}

Init == sched \in Schedule /\ next = Nil /\ last = Nil

-----------------------------------------------------------------------------
Due(t) == next # Nil /\ next <= t

\* resetDue, a minute or several months after the transaction before.
Planned(t) == IF Due(t) THEN NextReset(sched, t) ELSE next
Began(t) == IF Due(t) THEN MostRecent(sched, t) ELSE last

\* Observe and SyncEndpoint.
Renew(t) == next' = Planned(t) /\ last' = Began(t) /\ UNCHANGED sched

\* UpdatePlan: Plan.Apply after resetDue.  The first reset may be postponed
\* to any later one.
Replan(t, s) ==
    /\ sched' = s /\ last' = Began(t)
    /\ \/ next' = Nil
       \/ next' = IF s # sched \/ Planned(t) = Nil THEN NextReset(s, t)
                  ELSE Planned(t)
       \/ next' \in {b \in Resets(s) : b > t}

Next ==
    \E t \in Window : Renew(t) \/ \E s \in Schedule : Replan(t, s)

Spec == Init /\ [][Next]_vars

-----------------------------------------------------------------------------
(* Properties *)

\* The reset that is awaited is one of the present schedule's: no change of
\* the plan leaves one of the schedule before.
NextIsPlanned == next # Nil => next \in Resets(sched)

\* A reset, made however late, begins one of the schedule's periods, not one
\* before the reset that was awaited, and the next one awaited comes later:
\* no downtime or change of the plan makes it reset the same period again.
PeriodsGoOn ==
    [][last' # last =>
          /\ last' \in Resets(sched) /\ last' >= next
          /\ next' # Nil => next' > last']_vars
=============================================================================
