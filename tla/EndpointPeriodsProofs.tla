------------------------ MODULE EndpointPeriodsProofs ------------------------
(***************************************************************************)
(* The calendar, the periods and the account that keeps them.              *)
(*                                                                         *)
(* For every calendar, schedule and length of downtime: NextReset finds    *)
(* the first boundary to come, and resetDue the one that began the present *)
(* period.  So, for every order of transactions, a plan waits for a reset  *)
(* of its own schedule, and periods follow one another.                    *)
(*                                                                         *)
(* The account of EndpointTraffic implements TrafficPeriods: a commit is a *)
(* Renew or a Replan for the time of its transaction, or changes nothing   *)
(* of the plan; every other step leaves the plan alone.  CopyOK already    *)
(* says that a copy's plan is the account's or its renewal.  An edit of    *)
(* the plan needs to know which: UpdatePlan has called resetDue before it  *)
(* began, so what its copy waits for is still to come.                     *)
(*                                                                         *)
(* Periods is TrafficPeriods over the account's plan; the lemmas about it  *)
(* use nothing of what EndpointTraffic does.                               *)
(***************************************************************************)
EXTENDS EndpointPeriods, EndpointTrafficProofs

-----------------------------------------------------------------------------
(* The calendar *)

LEMMA Constants ==
    /\ LastMonth \in Nat /\ LastMonth >= 3 /\ DayLen \in Nat /\ DayLen > 0
    /\ \A m \in 0 .. LastMonth + 1 : Start[m] \in Int
    /\ \A m \in Months : Days[m] \in Nat /\ Days[m] > 0
    /\ \A s \in Schedule : /\ s.day \in Nat /\ s.day > 0
                           /\ s.clock \in Nat /\ s.clock < DayLen
    /\ \A m \in Months : m \in Int /\ m \in 0 .. LastMonth + 1
                         /\ m + 1 \in 0 .. LastMonth + 1
<1>1. /\ LastMonth \in Nat /\ LastMonth >= 3 /\ DayLen \in Nat /\ DayLen > 0
      /\ \A m \in 0 .. LastMonth + 1 : Start[m] \in Int
  BY MonthAssumption
<1>2. \A m \in Months : Days[m] \in Nat /\ Days[m] > 0
  BY MonthAssumption
<1>3. \A s \in Schedule : /\ s.day \in Nat /\ s.day > 0
                          /\ s.clock \in Nat /\ s.clock < DayLen
  <2> SUFFICES ASSUME NEW s \in Schedule
      PROVE  s.day \in Nat /\ s.day > 0 /\ s.clock \in Nat /\ s.clock < DayLen
    OBVIOUS
  <2>1. s.day \in ResetDays /\ s.clock \in Clocks
    BY DEF Schedule
  <2>2. s.day \in Nat \ {0} /\ s.clock \in 0 .. DayLen - 1
    BY <2>1, MonthAssumption
  <2>3. QED  BY <1>1, <2>2
<1>4. \A m \in Months : m \in Int /\ m \in 0 .. LastMonth + 1
                        /\ m + 1 \in 0 .. LastMonth + 1
  BY <1>1 DEF Months
<1>5. QED  BY <1>1, <1>2, <1>3, <1>4

\* A month's reset lies in the month.
LEMMA CandidateInMonth ==
    ASSUME NEW s \in Schedule, NEW m \in Months
    PROVE  /\ Candidate(s, m) \in Int
           /\ Start[m] <= Candidate(s, m) /\ Candidate(s, m) < Start[m + 1]
<1> DEFINE day == IF s.day <= Days[m] THEN s.day ELSE Days[m]
<1>1. day \in Nat /\ 1 <= day /\ day <= Days[m] /\ Days[m] \in Nat
  BY Constants
<1>2. PICK d \in Nat : d = day
  BY <1>1
<1>3. /\ s.clock \in Nat /\ s.clock < DayLen /\ DayLen \in Nat
      /\ Start[m] \in Int /\ Start[m + 1] = Start[m] + Days[m] * DayLen
  BY Constants, MonthAssumption DEF Months
<1>4. 0 <= (d - 1) * DayLen /\ (d - 1) * DayLen \in Int
  BY <1>1, <1>2, <1>3
<1>5. (d - 1) * DayLen + DayLen <= Days[m] * DayLen /\ Days[m] * DayLen \in Int
  <2>1. PICK n \in Nat : n = Days[m] /\ d <= n
    BY <1>1, <1>2
  <2>2. (d - 1) * DayLen + DayLen = d * DayLen
    BY <1>3
  <2>3. d * DayLen <= n * DayLen
    BY <1>3, <2>1
  <2>4. QED  BY <1>3, <2>1, <2>2, <2>3
<1>6. Candidate(s, m) = Start[m] + (d - 1) * DayLen + s.clock
  BY <1>2 DEF Candidate
<1>7. QED  BY <1>3, <1>4, <1>5, <1>6

LEMMA MonthOfFacts ==
    ASSUME NEW t \in Instants
    PROVE  /\ MonthOf(t) \in Months
           /\ Start[MonthOf(t)] <= t /\ t < Start[MonthOf(t) + 1]
<1>1. \E m \in Months : Start[m] <= t /\ t < Start[m + 1]
  BY MonthAssumption
<1>2. QED  BY <1>1 DEF MonthOf

\* A month that contains t is the month of t.
LEMMA MonthOfUnique ==
    ASSUME NEW t \in Int, NEW m \in Months, Start[m] <= t, t < Start[m + 1]
    PROVE  t \in Instants /\ MonthOf(t) = m
<1>1. t \in Instants
  <2>1. Start[0] <= Start[m] /\ Start[m + 1] <= Start[LastMonth + 1]
    BY MonthAssumption DEF Months
  <2>2. Start[0] \in Int /\ Start[LastMonth + 1] \in Int /\ Start[m] \in Int
        /\ Start[m + 1] \in Int
    BY Constants
  <2>3. QED  BY <2>1, <2>2 DEF Instants
<1>2. PICK k \in Months : k = MonthOf(t) /\ Start[k] <= t /\ t < Start[k + 1]
  BY <1>1, MonthOfFacts
<1>3. /\ k \in Int /\ m \in Int /\ Start[k] \in Int /\ Start[m] \in Int
      /\ Start[k + 1] \in Int /\ Start[m + 1] \in Int
      /\ k + 1 \in 0 .. LastMonth + 1 /\ m + 1 \in 0 .. LastMonth + 1
      /\ k \in 0 .. LastMonth + 1 /\ m \in 0 .. LastMonth + 1
  BY Constants
<1>4. ~(k < m)
  <2> SUFFICES ASSUME k < m PROVE FALSE
    OBVIOUS
  <2>1. Start[k + 1] <= Start[m]
    BY <1>3, MonthAssumption
  <2>2. QED  BY <1>2, <1>3, <2>1
<1>5. ~(m < k)
  <2> SUFFICES ASSUME m < k PROVE FALSE
    OBVIOUS
  <2>1. Start[m + 1] <= Start[k]
    BY <1>3, MonthAssumption
  <2>2. QED  BY <1>2, <1>3, <2>1
<1>6. QED  BY <1>1, <1>2, <1>3, <1>4, <1>5

\* The resets come in the order of the months.
LEMMA CandidatesOrdered ==
    ASSUME NEW s \in Schedule, NEW m \in Months, NEW n \in Months, m < n
    PROVE  Candidate(s, m) < Start[n] /\ Candidate(s, m) < Candidate(s, n)
<1>1. /\ Candidate(s, m) \in Int /\ Candidate(s, m) < Start[m + 1]
      /\ Candidate(s, n) \in Int /\ Start[n] <= Candidate(s, n)
  BY CandidateInMonth
<1>2. /\ m + 1 \in 0 .. LastMonth + 1 /\ n \in 0 .. LastMonth + 1 /\ m + 1 <= n
      /\ Start[m + 1] \in Int /\ Start[n] \in Int
  BY Constants
<1>3. Start[m + 1] <= Start[n]
  BY <1>2, MonthAssumption
<1>4. QED  BY <1>1, <1>2, <1>3

\* NextReset finds the first boundary after an instant, in its month or the
\* next.
LEMMA NextResetFirst ==
    ASSUME NEW s \in Schedule, NEW t \in Instants, MonthOf(t) + 1 \in Months
    PROVE  /\ FirstAfter(s, t, NextReset(s, t))
           /\ NextReset(s, t) \in {Candidate(s, MonthOf(t)),
                                   Candidate(s, MonthOf(t) + 1)}
           /\ NextReset(s, t) \in Instants
<1>1. PICK m \in Months : m = MonthOf(t) /\ Start[m] <= t /\ t < Start[m + 1]
  BY MonthOfFacts
<1>2. m + 1 \in Months /\ m \in Int
  BY <1>1, Constants
<1>3. PICK k : /\ k \in {m, m + 1} /\ NextReset(s, t) = Candidate(s, k)
               /\ \/ k = m /\ Candidate(s, m) > t
                  \/ k = m + 1 /\ ~(Candidate(s, m) > t)
  BY <1>1, <1>2 DEF NextReset
<1>4. /\ k \in Months /\ Candidate(s, k) \in Int /\ Candidate(s, m) \in Int
      /\ Start[k] \in Int /\ Start[m] \in Int /\ t \in Int /\ Start[m + 1] \in Int
      /\ Start[k] <= Candidate(s, k) /\ Candidate(s, k) < Start[k + 1]
  <2>1. t \in Int
    BY Constants DEF Instants
  <2>2. k \in Months
    BY <1>2, <1>3
  <2>3. Start[k] \in Int /\ Start[m] \in Int /\ Start[m + 1] \in Int
    BY <2>2, Constants
  <2>4. QED  BY <2>1, <2>2, <2>3, CandidateInMonth
<1>5. Candidate(s, k) > t
  <2>1. CASE k = m
    BY <1>2, <1>3, <2>1
  <2>2. CASE k = m + 1
    BY <1>1, <1>4, <2>2
  <2>3. QED  BY <1>3, <2>1, <2>2
<1>6. ASSUME NEW n \in Months, Candidate(s, n) > t
      PROVE  Candidate(s, k) <= Candidate(s, n)
  <2>1. n \in Int /\ Candidate(s, n) \in Int /\ k \in Int /\ m \in Int
    <3>1. n \in Int /\ k \in Int /\ m \in Int
      BY <1>4, Constants
    <3>2. QED  BY <3>1, CandidateInMonth
  <2>2. ~(n < m)
    <3> SUFFICES ASSUME n < m PROVE FALSE
      OBVIOUS
    <3>1. Candidate(s, n) < Start[m]
      BY CandidatesOrdered
    <3>2. QED  BY <1>1, <1>4, <1>6, <2>1, <3>1
  <2>3. k = m \/ (k = m + 1 /\ n # m)
    BY <1>2, <1>3, <1>6
  <2>4. k <= n
    BY <2>1, <2>2, <2>3
  <2>5. CASE k = n
    BY <2>1, <2>5
  <2>6. CASE k < n
    BY <1>4, <2>1, <2>6, CandidatesOrdered
  <2>7. QED  BY <2>1, <2>4, <2>5, <2>6
<1>7. FirstAfter(s, t, Candidate(s, k))
  BY <1>4, <1>5, <1>6 DEF FirstAfter, Resets
<1>8. Candidate(s, k) \in Instants
  BY <1>4, MonthOfUnique
<1>9. NextReset(s, t) \in {Candidate(s, MonthOf(t)), Candidate(s, MonthOf(t) + 1)}
  BY <1>1, <1>3
<1>10. QED  BY <1>3, <1>7, <1>8, <1>9

\* What a window instant's month leaves on both sides.
LEMMA WindowFacts ==
    ASSUME NEW t \in Window
    PROVE  /\ t \in Instants /\ MonthOf(t) \in Months
           /\ MonthOf(t) >= 2 /\ MonthOf(t) + 1 \in Months
<1>1. /\ Start[0] \in Int /\ Start[2] \in Int /\ Start[LastMonth] \in Int
      /\ Start[LastMonth + 1] \in Int /\ t \in Int
      /\ Start[0] <= Start[2] /\ Start[LastMonth] <= Start[LastMonth + 1]
  BY Constants, MonthAssumption DEF Window
<1>2. Start[2] <= t /\ t < Start[LastMonth] /\ t \in Instants
  BY <1>1 DEF Window, Instants
<1>3. PICK m \in Months : m = MonthOf(t) /\ Start[m] <= t /\ t < Start[m + 1]
  BY <1>2, MonthOfFacts
<1>4. m \in Int /\ Start[m] \in Int /\ Start[m + 1] \in Int
      /\ m \in 0 .. LastMonth + 1 /\ m + 1 \in 0 .. LastMonth + 1
  BY Constants
<1>5. m >= 2
  <2> SUFFICES ASSUME m < 2 PROVE FALSE
    BY <1>4
  <2>1. m + 1 <= 2 /\ 2 \in 0 .. LastMonth + 1
    BY <1>4, Constants
  <2>2. Start[m + 1] <= Start[2]
    BY <1>4, <2>1, MonthAssumption
  <2>3. QED  BY <1>1, <1>2, <1>3, <1>4, <2>2
<1>6. m < LastMonth
  <2> SUFFICES ASSUME LastMonth <= m PROVE FALSE
    BY <1>4, Constants
  <2>1. Start[LastMonth] <= Start[m]
    BY <1>4, Constants, MonthAssumption
  <2>2. QED  BY <1>1, <1>2, <1>3, <1>4, <2>1
<1>7. m + 1 \in Months
  BY <1>4, <1>6, Constants DEF Months
<1>8. QED  BY <1>2, <1>3, <1>5, <1>7

\* resetDue finds the boundary that began the present period.
LEMMA MostRecentLatest ==
    ASSUME NEW s \in Schedule, NEW t \in Window
    PROVE  LatestUpTo(s, t, MostRecent(s, t)) /\ MostRecent(s, t) \in Instants
<1>1. PICK m \in Months : /\ m = MonthOf(t) /\ m >= 2 /\ m + 1 \in Months
                         /\ Start[m] <= t /\ t < Start[m + 1] /\ t \in Instants
  BY WindowFacts, MonthOfFacts
<1>2. /\ m \in Int /\ m - 1 \in Months /\ m - 2 \in Months /\ LastMonth \in Nat
  BY <1>1, Constants DEF Months
<1> DEFINE before == Start[m - 1] - 1
           c1 == Candidate(s, m - 1)
           c2 == Candidate(s, m)
<1>3. /\ Start[m - 2] < Start[m - 1] /\ Start[m - 1] \in Int
      /\ Start[m - 2] \in Int
  <2>1. Start[(m - 2) + 1] = Start[m - 2] + Days[m - 2] * DayLen
    BY <1>2, MonthAssumption
  <2>2. (m - 2) + 1 = m - 1
    BY <1>2
  <2>3. PICK d \in Nat : d = Days[m - 2] /\ d > 0
    BY <1>2, Constants
  <2>4. d * DayLen > 0 /\ d * DayLen \in Int
    BY <2>3, Constants
  <2>5. Start[m - 2] \in Int
    BY <1>2, Constants
  <2>6. QED  BY <2>1, <2>2, <2>3, <2>4, <2>5
<1>4. before \in Instants /\ MonthOf(before) = m - 2
  <2>1. (m - 2) + 1 = m - 1
    BY <1>2
  <2>2. before \in Int /\ Start[m - 2] <= before /\ before < Start[(m - 2) + 1]
    BY <1>3, <2>1
  <2>3. QED  BY <1>2, <2>2, MonthOfUnique
<1>5. /\ c1 \in Int /\ Start[m - 1] <= c1 /\ c1 < Start[m]
      /\ c2 \in Int /\ Start[m] <= c2 /\ c2 < Start[m + 1]
      /\ Start[m] \in Int /\ Start[m + 1] \in Int /\ t \in Int
  <2>1. (m - 1) + 1 = m
    BY <1>2
  <2>2. Start[m - 1] <= c1 /\ c1 < Start[(m - 1) + 1] /\ c1 \in Int
    BY <1>2, CandidateInMonth
  <2>3. Start[m] <= c2 /\ c2 < Start[m + 1] /\ c2 \in Int
    BY CandidateInMonth
  <2>4. t \in Int /\ Start[m] \in Int /\ Start[m + 1] \in Int
    BY Constants DEF Window
  <2>5. QED  BY <2>1, <2>2, <2>3, <2>4
<1>6. NextReset(s, before) = c1
  <2>1. (m - 2) + 1 = m - 1
    BY <1>2
  <2>2. Candidate(s, m - 2) \in Int /\ Candidate(s, m - 2) < Start[m - 1]
    BY <1>2, <2>1, CandidateInMonth
  <2>3. ~(Candidate(s, m - 2) > before)
    BY <1>3, <2>2
  <2>4. QED  BY <1>4, <2>1, <2>3 DEF NextReset
<1>7. NextReset(s, c1) = c2
  <2>1. (m - 1) + 1 = m
    BY <1>2
  <2>2. MonthOf(c1) = m - 1 /\ c1 \in Instants
    BY <1>2, <1>5, <2>1, MonthOfUnique
  <2>3. QED  BY <1>5, <2>1, <2>2 DEF NextReset
<1>8. MostRecent(s, t) = IF c2 <= t THEN c2 ELSE c1
  BY <1>1, <1>6, <1>7 DEF MostRecent
<1>9. c1 \in Instants /\ c2 \in Instants /\ c1 \in Resets(s)
      /\ c2 \in Resets(s)
  <2>1. (m - 1) + 1 = m
    BY <1>2
  <2>2. QED  BY <1>2, <1>5, <2>1, MonthOfUnique DEF Resets
<1>10. ASSUME NEW n \in Months, Candidate(s, n) <= t
       PROVE  Candidate(s, n) <= MostRecent(s, t)
  <2>1. n \in Int /\ Candidate(s, n) \in Int
    BY Constants, CandidateInMonth
  <2>2. ~(m < n)
    <3> SUFFICES ASSUME m < n PROVE FALSE
      OBVIOUS
    <3>1. m + 1 <= n /\ m + 1 \in 0 .. LastMonth + 1 /\ n \in 0 .. LastMonth + 1
          /\ Start[n] \in Int
      BY <1>2, <2>1, Constants
    <3>2. Start[m + 1] <= Start[n] /\ Start[n] <= Candidate(s, n)
      BY <3>1, MonthAssumption, CandidateInMonth
    <3>3. QED  BY <1>1, <1>5, <1>10, <2>1, <3>1, <3>2
  <2>3. CASE n = m
    BY <1>5, <1>8, <1>10, <2>3
  <2>4. CASE n = m - 1
    BY <1>5, <1>8, <2>4
  <2>5. CASE n < m - 1
    <3>1. Candidate(s, n) < c1
      BY <1>2, <2>5, CandidatesOrdered
    <3>2. QED  BY <1>5, <1>8, <2>1, <3>1
  <2>6. QED  BY <1>2, <2>1, <2>2, <2>3, <2>4, <2>5
<1>11. MostRecent(s, t) <= t
  BY <1>1, <1>5, <1>8
<1>12. QED  BY <1>8, <1>9, <1>10, <1>11 DEF LatestUpTo, Resets

-----------------------------------------------------------------------------
\* For every calendar: what NextReset finds is the first reset to come.
THEOREM NextResetIsFirst ==
    ASSUME NEW s \in Schedule, NEW t \in Window
    PROVE  FirstAfter(s, t, NextReset(s, t))
<1>1. QED  BY WindowFacts, NextResetFirst

\* For every calendar and downtime: what resetDue finds began the present
\* period.
THEOREM MostRecentIsLatest ==
    ASSUME NEW s \in Schedule, NEW t \in Window
    PROVE  LatestUpTo(s, t, MostRecent(s, t))
<1>1. QED  BY MostRecentLatest

-----------------------------------------------------------------------------
(* The periods *)

\* TrafficPeriods reckons with the same calendar.
LEMMA SameCalendar ==
    /\ Periods!Window = Window /\ Periods!Schedule = Schedule
    /\ Periods!Instants = Instants
    /\ \A s, t : /\ Periods!NextReset(s, t) = NextReset(s, t)
                 /\ Periods!MostRecent(s, t) = MostRecent(s, t)
                 /\ Periods!Resets(s) = Resets(s)
BY DEF Periods!Window, Window, Periods!Schedule, Schedule,
       Periods!NextReset, NextReset, Periods!MostRecent, MostRecent,
       Periods!MonthOf, MonthOf, Periods!Candidate, Candidate,
       Periods!Resets, Resets, Periods!Months, Months,
       Periods!Instants, Instants

PeriodsInv == Periods!TypeOK /\ Periods!NextIsPlanned

LEMMA InitPeriods == Periods!Init => PeriodsInv
<1>1. QED  BY SameCalendar DEF Periods!Init, PeriodsInv, Periods!TypeOK,
                                 Periods!NextIsPlanned

\* What resetDue leaves: a reset ahead, and the period it has begun.
LEMMA RenewFacts ==
    ASSUME PeriodsInv, NEW t \in Window
    PROVE  /\ Periods!Planned(t) \in Instants \cup {Nil}
           /\ Periods!Began(t) \in Instants \cup {Nil}
           /\ Periods!Planned(t) # Nil =>
                /\ Periods!Planned(t) \in Resets(usage.sched)
                /\ Periods!Planned(t) > t
           /\ Periods!Began(t) # usage.last =>
                /\ Periods!Began(t) \in Resets(usage.sched)
                /\ Periods!Began(t) \in Instants
                /\ Periods!Began(t) >= usage.next /\ Periods!Began(t) <= t
<1>1. /\ usage.sched \in Schedule /\ usage.next \in Instants \cup {Nil}
      /\ usage.last \in Instants \cup {Nil}
      /\ usage.next # Nil => usage.next \in Resets(usage.sched)
  BY SameCalendar DEF PeriodsInv, Periods!TypeOK, Periods!NextIsPlanned
<1>2. CASE Periods!Due(t)
  <2>1. /\ FirstAfter(usage.sched, t, NextReset(usage.sched, t))
        /\ NextReset(usage.sched, t) \in Instants
    BY <1>1, WindowFacts, NextResetFirst
  <2>2. /\ LatestUpTo(usage.sched, t, MostRecent(usage.sched, t))
        /\ MostRecent(usage.sched, t) \in Instants
    BY <1>1, MostRecentLatest
  <2>3. usage.next \in Resets(usage.sched) /\ usage.next <= t
    BY <1>1, <1>2, SameCalendar DEF Periods!Due
  <2>4. MostRecent(usage.sched, t) >= usage.next
    BY <1>1, <2>2, <2>3, Constants DEF LatestUpTo, Instants
  <2>5. QED
    BY <1>2, <2>1, <2>2, <2>4, SameCalendar
       DEF Periods!Planned, Periods!Began, FirstAfter, LatestUpTo
<1>3. CASE ~Periods!Due(t)
  <2>1. usage.next # Nil => usage.next > t
    BY <1>1, <1>3, Constants, SameCalendar DEF Periods!Due, Instants, Window
  <2>2. QED  BY <1>1, <1>3, <2>1 DEF Periods!Planned, Periods!Began
<1>4. QED  BY <1>2, <1>3

\* What Plan.Apply leaves.
LEMMA ReplanFacts ==
    ASSUME PeriodsInv, NEW t \in Window, NEW s \in Schedule,
           Periods!Replan(t, s)
    PROVE  /\ usage'.next \in Instants \cup {Nil}
           /\ usage'.next # Nil => usage'.next \in Resets(s) /\ usage'.next > t
<1>1. /\ FirstAfter(s, t, NextReset(s, t))
      /\ NextReset(s, t) \in Instants
  BY WindowFacts, NextResetFirst
<1>2. Resets(s) \subseteq Instants
  BY CandidateInMonth, MonthOfUnique DEF Resets
<1>3. CASE usage'.next = Nil
  BY <1>3
<1>4. CASE usage'.next = IF s # usage.sched \/ Periods!Planned(t) = Nil
                         THEN NextReset(s, t) ELSE Periods!Planned(t)
  BY <1>1, <1>4, RenewFacts DEF FirstAfter
<1>5. CASE usage'.next \in {b \in Resets(s) : b > t}
  BY <1>2, <1>5
<1>6. QED  BY <1>3, <1>4, <1>5, SameCalendar DEF Periods!Replan

LEMMA NextPeriods == PeriodsInv /\ [Periods!Next]_(Periods!vars) => PeriodsInv'
<1> SUFFICES ASSUME PeriodsInv, [Periods!Next]_(Periods!vars) PROVE PeriodsInv'
  OBVIOUS
<1>1. usage.sched \in Schedule
  BY SameCalendar DEF PeriodsInv, Periods!TypeOK
<1>2. ASSUME NEW t \in Window, Periods!Renew(t) PROVE PeriodsInv'
  BY <1>1, <1>2, RenewFacts, SameCalendar
     DEF Periods!Renew, PeriodsInv, Periods!TypeOK, Periods!NextIsPlanned
<1>3. ASSUME NEW t \in Window, NEW s \in Schedule, Periods!Replan(t, s)
      PROVE  PeriodsInv'
  BY <1>3, RenewFacts, ReplanFacts, SameCalendar
     DEF Periods!Replan, PeriodsInv, Periods!TypeOK, Periods!NextIsPlanned
<1>4. CASE UNCHANGED Periods!vars
  BY <1>4, SameCalendar
     DEF Periods!vars, PeriodsInv, Periods!TypeOK, Periods!NextIsPlanned
<1>5. QED  BY <1>2, <1>3, <1>4, SameCalendar DEF Periods!Next

LEMMA AlwaysPeriods == Periods!Spec => []PeriodsInv
<1>1. QED  BY InitPeriods, NextPeriods, PTL DEF Periods!Spec

-----------------------------------------------------------------------------
LEMMA PeriodsFollow == Periods!Spec => Periods!PeriodsGoOn
<1>1. PeriodsInv /\ [Periods!Next]_(Periods!vars) =>
        [usage'.last # usage.last =>
            /\ usage'.last \in Resets(usage.sched) /\ usage'.last >= usage.next
            /\ usage'.next # Nil => usage'.next > usage'.last]_(Periods!vars)
  <2> SUFFICES ASSUME PeriodsInv, [Periods!Next]_(Periods!vars),
                      usage'.last # usage.last
      PROVE  /\ usage'.last \in Resets(usage.sched) /\ usage'.last >= usage.next
             /\ usage'.next # Nil => usage'.next > usage'.last
    OBVIOUS
  <2>1. PICK t \in Window :
            Periods!Renew(t) \/ \E s \in Schedule : Periods!Replan(t, s)
    BY SameCalendar DEF Periods!Next, Periods!vars
  <2>2. usage'.last = Periods!Began(t)
    BY <2>1, SameCalendar DEF Periods!Renew, Periods!Replan
  <2>3. /\ usage'.last \in Resets(usage.sched) /\ usage'.last \in Instants
        /\ usage'.last >= usage.next /\ usage'.last <= t
    BY <2>2, RenewFacts
  <2>4. /\ usage'.next \in Instants \cup {Nil}
        /\ usage'.next # Nil => usage'.next > t
    BY <2>1, RenewFacts, ReplanFacts, SameCalendar DEF Periods!Renew
  <2>5. QED  BY <2>3, <2>4, Constants DEF Instants, Window
<1>2. PeriodsInv /\ [Periods!Next]_(Periods!vars) =>
        [(usage.last)' # usage.last =>
            /\ (usage.last)' \in Periods!Resets(usage.sched)
            /\ (usage.last)' >= usage.next
            /\ (usage.next)' # Nil =>
                   (usage.next)' > (usage.last)']_(Periods!vars)
  BY <1>1, SameCalendar
<1>3. QED  BY <1>2, AlwaysPeriods, PTL DEF Periods!Spec, Periods!PeriodsGoOn

-----------------------------------------------------------------------------
(* The account's boundaries are the calendar's. *)

LEMMA BoundariesAreResets ==
    ASSUME NEW s \in Schedules, NEW t \in Time
    PROVE  /\ t \in Window /\ s \in Schedule /\ Boundaries[s] \subseteq Resets(s)
           /\ NextBoundary(s, t) = NextReset(s, t)
           /\ LastBoundary(s, t) = MostRecent(s, t)
<1>1. /\ t \in Window /\ s \in Schedule /\ Boundaries[s] \subseteq Resets(s)
      /\ Boundaries[s] \subseteq Int
      /\ \E b \in Boundaries[s] : FirstAfter(s, t, b)
      /\ \E b \in Boundaries[s] : LatestUpTo(s, t, b)
  BY PeriodsAssumption, TrafficAssumption
<1>2. /\ NextReset(s, t) \in Boundaries[s] /\ MostRecent(s, t) \in Boundaries[s]
      /\ FirstAfter(s, t, NextReset(s, t)) /\ LatestUpTo(s, t, MostRecent(s, t))
  <2>1. FirstAfter(s, t, NextReset(s, t)) /\ LatestUpTo(s, t, MostRecent(s, t))
    BY <1>1, NextResetIsFirst, MostRecentIsLatest
  <2>2. PICK b \in Boundaries[s] : FirstAfter(s, t, b)
    BY <1>1
  <2>3. PICK c \in Boundaries[s] : LatestUpTo(s, t, c)
    BY <1>1
  <2>4. /\ NextReset(s, t) \in Resets(s) /\ MostRecent(s, t) \in Resets(s)
        /\ Resets(s) \subseteq Int
    BY <1>1, <2>1, CandidateInMonth DEF FirstAfter, LatestUpTo, Resets
  <2>5. NextReset(s, t) = b /\ MostRecent(s, t) = c
    BY <1>1, <2>1, <2>2, <2>3, <2>4 DEF FirstAfter, LatestUpTo
  <2>6. QED  BY <2>1, <2>2, <2>3, <2>5
<1>3. /\ NextBoundary(s, t) \in Boundaries[s] /\ NextBoundary(s, t) > t
      /\ \A c \in Boundaries[s] : c > t => NextBoundary(s, t) <= c
  <2>1. \E b \in Boundaries[s] :
            b > t /\ \A c \in Boundaries[s] : c > t => b <= c
    BY CalendarAssumption DEF Time
  <2>2. QED  BY <2>1 DEF NextBoundary
<1>4. /\ LastBoundary(s, t) \in Boundaries[s] /\ LastBoundary(s, t) <= t
      /\ \A c \in Boundaries[s] : c <= t => c <= LastBoundary(s, t)
  <2>1. \E b \in Boundaries[s] :
            b <= t /\ \A c \in Boundaries[s] : c <= t => c <= b
    BY CalendarAssumption DEF Time
  <2>2. QED  BY <2>1 DEF LastBoundary
<1>5. NextBoundary(s, t) = NextReset(s, t)
  BY <1>1, <1>2, <1>3 DEF FirstAfter
<1>6. LastBoundary(s, t) = MostRecent(s, t)
  BY <1>1, <1>2, <1>4 DEF LatestUpTo
<1>7. QED  BY <1>1, <1>5, <1>6

PlanIsRenewed ==
    tx # NoTx /\ tx.op = "plan"
        => tx.usage.next = Nil \/ tx.usage.next > tx.time

PInv == IInv /\ PlanIsRenewed

-----------------------------------------------------------------------------
(* Initially, and in every step *)

LEMMA InitPInv == Init => PInv
<1>1. Init => PlanIsRenewed
  BY DEF Init, PlanIsRenewed
<1>2. QED  BY <1>1, InitIInv DEF PInv

LEMMA BeginsRenewed ==
    ASSUME IInv, NEW t \in 0 .. now,
           \/ \E s \in Sample : BeginObserve(s, t)
           \/ BeginSync(t)
           \/ \E p \in Plan : BeginPlan(p, t)
    PROVE  PlanIsRenewed'
<1>1. CASE \E s \in Sample : BeginObserve(s, t)
  BY <1>1 DEF BeginObserve, Begin, PlanIsRenewed
<1>2. CASE BeginSync(t)
  BY <1>2 DEF BeginSync, Begin, PlanIsRenewed
<1>3. CASE \E p \in Plan : BeginPlan(p, t)
  <2>1. /\ usage \in Usage /\ PlannedReset(usage) /\ t \in Time
        /\ usage.sched \in Schedules
    BY TrafficAssumption DEF IInv, TypeOK, Time, Usage
  <2>2. ResetDue(usage, t).next = Nil \/ ResetDue(usage, t).next > t
    <3>1. CASE ~usage.auto \/ usage.next = Nil \/ usage.next > t
      BY <2>1, <3>1 DEF ResetDue, PlannedReset
    <3>2. CASE ~(~usage.auto \/ usage.next = Nil \/ usage.next > t)
      <4>1. ResetDue(usage, t).next = NextBoundary(usage.sched, t)
        BY <2>1, <3>2 DEF ResetDue, Usage
      <4>2. QED  BY <2>1, <4>1, BoundaryFacts
    <3>3. QED  BY <3>1, <3>2
  <2>3. tx'.usage = ResetDue(usage, t) /\ tx'.time = t
    BY <1>3 DEF BeginPlan, Begin
  <2>4. QED  BY <2>2, <2>3 DEF PlanIsRenewed
<1>4. QED  BY <1>1, <1>2, <1>3

LEMMA SyncRowRenewed ==
    ASSUME PInv, SyncRow
    PROVE  PlanIsRenewed'
<1>1. PICK s \in tx.todo : tx' = [Observed(tx, s) EXCEPT !.todo = @ \ {s}]
  BY DEF SyncRow
<1>2. tx \in Tx /\ tx # NoTx /\ tx.usage.used <= tx.usage.total
  BY DEF SyncRow, PInv, IInv, TypeOK, UsedWithinTotal
<1>3. s \in Sample
  BY <1>2 DEF Tx
<1>4. /\ Observed(tx, s) \in Tx /\ Observed(tx, s).op = tx.op
      /\ Observed(tx, s).time = tx.time
      /\ Observed(tx, s).usage.next = tx.usage.next
  BY <1>2, <1>3, ObservedFacts
<1>5. tx'.op = tx.op /\ tx'.time = tx.time /\ tx'.usage.next = tx.usage.next
  BY <1>1, <1>4 DEF Tx
<1>6. QED  BY <1>2, <1>5 DEF PInv, PlanIsRenewed

LEMMA NextPInv == PInv /\ [Next]_vars => PInv'
<1> SUFFICES ASSUME PInv, [Next]_vars PROVE PlanIsRenewed'
  BY NextIInv DEF PInv
<1>1. CASE \E t \in 0 .. now : \/ \E s \in Sample : BeginObserve(s, t)
                               \/ BeginSync(t)
                               \/ \E p \in Plan : BeginPlan(p, t)
  BY <1>1, BeginsRenewed DEF PInv
<1>2. CASE SyncRow
  BY <1>2, SyncRowRenewed
<1>3. CASE UNCHANGED tx
  BY <1>3 DEF PInv, PlanIsRenewed
<1>4. CASE tx' = NoTx
  BY <1>4 DEF PlanIsRenewed
<1>5. QED
  BY <1>1, <1>2, <1>3, <1>4
     DEF Next, vars, Tick, OthersWrite, Rollback, CommitObserve, CommitSync,
         CommitPlan, Publish

-----------------------------------------------------------------------------
(* A commit is a step of TrafficPeriods. *)

PeriodStep == [Periods!Next]_(Periods!vars)

\* A copy that replaces the account has renewed its period, or nothing.
LEMMA CopyIsStep ==
    ASSUME usage \in Usage, NEW v \in Usage, NEW t \in Time,
           CopyOf(usage, v, t), usage' = v
    PROVE  PeriodStep
<1>1. usage.sched \in Schedules /\ v.sched = usage.sched
  BY DEF Usage, CopyOf
<1>2. CASE v.last = usage.last /\ v.next = usage.next
  BY <1>1, <1>2 DEF PeriodStep, Periods!vars
<1>3. CASE /\ usage.next # Nil /\ usage.next <= t
           /\ v.last = LastBoundary(usage.sched, t)
           /\ v.next = NextBoundary(usage.sched, t)
  <2>1. /\ v.last = Periods!MostRecent(usage.sched, t)
        /\ v.next = Periods!NextReset(usage.sched, t)
        /\ t \in Periods!Window
    BY <1>1, <1>3, BoundariesAreResets, SameCalendar
  <2>2. Periods!Renew(t)
    BY <1>1, <1>3, <2>1
       DEF Periods!Renew, Periods!Planned, Periods!Began, Periods!Due
  <2>3. QED  BY <2>1, <2>2 DEF PeriodStep, Periods!Next
<1>4. QED  BY <1>2, <1>3 DEF CopyOf, Renewed

LEMMA CommitPlanIsStep ==
    ASSUME PInv, CommitPlan
    PROVE  PeriodStep
<1> DEFINE t == tx.time
           p == tx.plan
           m == Initialized(tx).usage
<1>1. tx # NoTx
  BY DEF CommitPlan, NoTx
<1>2. /\ tx \in Tx /\ usage \in Usage
      /\ CopyOf(usage, tx.usage, t) /\ PlannedReset(tx.usage) /\ p \in Plan
      /\ tx.usage.next = Nil \/ tx.usage.next > t
  BY <1>1 DEF PInv, IInv, TypeOK, CopyOK, CommitPlan, PlanIsRenewed
<1>3. /\ tx.usage \in Usage /\ t \in Time /\ p.sched \in Schedules
      /\ p.auto \in BOOLEAN /\ usage.sched \in Schedules
  BY <1>2 DEF Tx, Plan, Usage
<1>4. /\ m \in Usage /\ m.sched = usage.sched /\ m.auto = tx.usage.auto
      /\ m.last = tx.usage.last /\ m.next = tx.usage.next
      /\ m.next # Nil => m.auto
  <2>1. m = [tx.usage EXCEPT !.initialized = TRUE] /\ m \in Usage
    BY <1>2, InitializedFacts
  <2>2. QED  BY <1>2, <1>3, <2>1 DEF Usage, CopyOf, PlannedReset
<1>5. m.last = Periods!Began(t) /\ m.next = Periods!Planned(t)
  <2>1. CASE m.last = usage.last /\ m.next = usage.next
    <3>1. ~(usage.next # Nil /\ usage.next <= t)
      <4>1. usage.next = Nil \/ (usage.next \in Int /\ usage.next > t)
        BY <1>2, <1>4, <2>1 DEF Usage
      <4>2. QED  BY <1>3, <4>1, TrafficAssumption DEF Time
    <3>2. QED
      BY <2>1, <3>1 DEF Periods!Began, Periods!Planned, Periods!Due
  <2>2. CASE /\ usage.next # Nil /\ usage.next <= t
             /\ m.last = LastBoundary(usage.sched, t)
             /\ m.next = NextBoundary(usage.sched, t)
    <3>1. /\ m.last = Periods!MostRecent(usage.sched, t)
          /\ m.next = Periods!NextReset(usage.sched, t)
      BY <1>3, <2>2, BoundariesAreResets, SameCalendar
    <3>2. QED
      BY <2>2, <3>1 DEF Periods!Began, Periods!Planned, Periods!Due
  <2>3. QED  BY <1>2, <1>4, <2>1, <2>2 DEF CopyOf, Renewed
<1>6. PICK first \in {Nil} \cup {b \in Boundaries[p.sched] : b > t} :
          Publish([Initialized(tx) EXCEPT !.usage = Applied(@, p, t, first)])
  BY DEF CommitPlan
<1> DEFINE next == IF ~p.auto THEN Nil
                   ELSE IF first # Nil THEN first
                   ELSE IF m.auto # p.auto \/ m.sched # p.sched \/ m.next = Nil
                   THEN NextBoundary(p.sched, t) ELSE m.next
<1>7. /\ usage'.sched = p.sched /\ usage'.last = m.last
      /\ usage'.next = next
  <2>1. Applied(m, p, t, first)
           = [m EXCEPT !.auto = p.auto, !.sched = p.sched, !.next = next]
    BY <1>4 DEF Applied, Usage
  <2>2. usage' = Applied(m, p, t, first)
    <3>1. Initialized(tx) \in Tx
      BY <1>2, InitializedFacts
    <3>2. QED  BY <1>6, <3>1 DEF Publish, Tx
  <2>3. QED  BY <1>4, <2>1, <2>2 DEF Usage
<1>8. /\ t \in Periods!Window /\ p.sched \in Periods!Schedule
      /\ Boundaries[p.sched] \subseteq Periods!Resets(p.sched)
      /\ NextBoundary(p.sched, t) = Periods!NextReset(p.sched, t)
  BY <1>3, BoundariesAreResets, SameCalendar
<1>9. \/ next = Nil
      \/ next = IF p.sched # usage.sched \/ Periods!Planned(t) = Nil
                THEN Periods!NextReset(p.sched, t) ELSE Periods!Planned(t)
      \/ next \in {b \in Periods!Resets(p.sched) : b > t}
  <2>1. CASE ~p.auto
    BY <2>1
  <2>2. CASE p.auto /\ first # Nil
    BY <1>6, <1>8, <2>2
  <2>3. CASE p.auto /\ first = Nil
    <3>1. m.auto # p.auto => m.next = Nil
      BY <1>3, <1>4, <2>3
    <3>2. QED  BY <1>4, <1>5, <1>8, <2>3, <3>1
  <2>4. QED  BY <1>3, <2>1, <2>2, <2>3
<1> HIDE DEF next, m, p, t
<1>10. Periods!Replan(tx.time, tx.plan.sched)
  BY <1>5, <1>7, <1>9 DEF Periods!Replan, t, p
<1>11. QED
  BY <1>8, <1>10 DEF PeriodStep, Periods!Next, t, p

LEMMA StepIsPeriodStep == PInv /\ [Next]_vars => PeriodStep
<1> SUFFICES ASSUME PInv, [Next]_vars PROVE PeriodStep
  OBVIOUS
<1>1. CASE UNCHANGED usage
  BY <1>1 DEF PeriodStep, Periods!vars
<1>2. CASE CommitPlan
  BY <1>2, CommitPlanIsStep
<1>3. CASE (CommitObserve \/ CommitSync) /\ RowsWritten
  <2>1. PICK w : Committed(w) /\ CopyOf(usage, w.usage, tx.time)
    BY <1>3, CommitObserveFacts, CommitSyncFacts DEF PInv
  <2>2. /\ usage' = w.usage /\ w.usage \in Usage /\ usage \in Usage
        /\ tx.time \in Time
    <3>1. tx # NoTx
      BY <1>3 DEF CommitObserve, CommitSync, NoTx
    <3>2. QED  BY <2>1, <3>1 DEF Committed, Publish, Tx, PInv, IInv, TypeOK
  <2>3. QED  BY <2>1, <2>2, CopyIsStep
<1>4. QED
  BY <1>1, <1>2, <1>3, AccountSteps DEF CommitStep, PInv

LEMMA InitIsPeriodInit == Init => Periods!Init
<1> SUFFICES ASSUME Init PROVE Periods!Init
  OBVIOUS
<1>1. PICK s \in Schedules :
          usage = [total |-> 0, used |-> 0, initialized |-> FALSE,
                   auto |-> FALSE, sched |-> s, last |-> Nil, next |-> Nil]
  BY DEF Init
<1>2. s \in Periods!Schedule
  BY PeriodsAssumption, SameCalendar
<1>3. QED  BY <1>1, <1>2 DEF Periods!Init

-----------------------------------------------------------------------------
\* For every calendar, sample, plan and order of transactions: the account's
\* plan and periods are what NextReset and resetDue make of them.
THEOREM KeepsPeriods == Spec => PeriodsSpec
<1>1. PInv /\ [Next]_vars => [Periods!Next]_(Periods!vars)
  BY StepIsPeriodStep DEF PeriodStep
<1>2. QED
  BY <1>1, InitPInv, NextPInv, InitIsPeriodInit, PTL
     DEF Spec, PeriodsSpec, Periods!Spec

\* For every calendar and order of transactions: the reset the account waits
\* for is one of its present schedule's.
THEOREM AwaitsItsOwn == Spec => []Periods!TypeOK /\ []Periods!NextIsPlanned
<1>1. PeriodsInv => Periods!TypeOK /\ Periods!NextIsPlanned
  BY DEF PeriodsInv
<1>2. QED  BY <1>1, AlwaysPeriods, KeepsPeriods, PTL DEF PeriodsSpec

\* For every calendar, downtime and change of plan: the account resets no
\* period twice.
THEOREM ResetCatchesUp == Spec => Periods!PeriodsGoOn
<1>1. QED  BY PeriodsFollow, KeepsPeriods, PTL DEF PeriodsSpec
=============================================================================
