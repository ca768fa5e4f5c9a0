--------------------------- MODULE TrafficCalendar ---------------------------
(***************************************************************************)
(* When a traffic period starts: NextReset and resetDue of                 *)
(* internal/endpointtraffic/service.go.  A schedule names a day of the     *)
(* month and a time of day in a timezone; a month that has no such day is  *)
(* reset on its last day.  EndpointTraffic takes the boundaries as given;  *)
(* here they are found the way the code finds them, from any instant and   *)
(* after any downtime.  TrafficPeriods is the plan that uses them.         *)
(*                                                                         *)
(* Instants are counted in the schedule's timezone, DayLen to a day; the   *)
(* offset of the zone is fixed, no day is longer or shorter than another.  *)
(***************************************************************************)
EXTENDS Integers

CONSTANTS
    LastMonth,      \* the months are 0 .. LastMonth
    Days,           \* the days each has
    Start,          \* the instant each begins at, and the end of the last
    DayLen,
    ResetDays,      \* TrafficResetDay, 1 .. 31
    Clocks          \* TrafficResetTime

Months == 0 .. LastMonth
Instants == Start[0] .. Start[LastMonth + 1] - 1

ASSUME MonthAssumption ==
    /\ LastMonth \in Nat /\ LastMonth >= 3
    /\ DayLen \in Nat \ {0} /\ Clocks \subseteq 0 .. DayLen - 1
    /\ ResetDays \subseteq Nat \ {0}
    /\ Days \in [Months -> Nat \ {0}]
    /\ Start \in [0 .. LastMonth + 1 -> Int]
    /\ \A m \in Months : Start[m + 1] = Start[m] + Days[m] * DayLen
    /\ \A m, n \in 0 .. LastMonth + 1 : m <= n => Start[m] <= Start[n]
    /\ \A t \in Instants : \E m \in Months : Start[m] <= t /\ t < Start[m + 1]

Schedule == [day : ResetDays, clock : Clocks]

\* Room for the month before and the month after.
Window == Start[2] .. Start[LastMonth] - 1

-----------------------------------------------------------------------------
MonthOf(t) == CHOOSE m \in Months : Start[m] <= t /\ t < Start[m + 1]

\* Mutant: a day the month does not have falls into the next one.
CandidateOverflows(s, m) == Start[m] + (s.day - 1) * DayLen + s.clock

\* The reset of month m.
Candidate(s, m) ==
    LET day == IF s.day <= Days[m] THEN s.day ELSE Days[m]
    IN  Start[m] + (day - 1) * DayLen + s.clock

\* This month's reset if it is still to come, or next month's.
NextReset(s, after) ==
    LET m == MonthOf(after)
    IN  IF Candidate(s, m) > after THEN Candidate(s, m) ELSE Candidate(s, m + 1)

\* Mutant: the reset of last month, even when this month's has passed.
MostRecentEarly(s, now) == NextReset(s, Start[MonthOf(now) - 1] - 1)

\* resetDue: last month's reset, or this month's if it has passed.
MostRecent(s, now) ==
    LET last == NextReset(s, Start[MonthOf(now) - 1] - 1)
        candidate == NextReset(s, last)
    IN  IF candidate <= now THEN candidate ELSE last

-----------------------------------------------------------------------------
(* What the resets should be. *)

Resets(s) == {Candidate(s, m) : m \in Months}

FirstAfter(s, t, b) ==
    /\ b \in Resets(s) /\ b > t
    /\ \A c \in Resets(s) : c > t => b <= c

LatestUpTo(s, t, b) ==
    /\ b \in Resets(s) /\ b <= t
    /\ \A c \in Resets(s) : c <= t => c <= b
=============================================================================
