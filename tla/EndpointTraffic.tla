--------------------------- MODULE EndpointTraffic ---------------------------
(***************************************************************************)
(* The traffic account of one endpoint, internal/endpointtraffic: a total, *)
(* the usage of the current billing period, one cursor per Portal instance *)
(* and the plan that says when the usage starts over.                      *)
(*                                                                         *)
(* Observe, SyncEndpoint and UpdatePlan are transactions that hold the     *)
(* endpoint's row lock: they copy the account, work through samples one by *)
(* one and commit, or roll back.  Callers come with any sample at any time *)
(* and the tunnel rows syncStored reads change under everybody's hands, so *)
(* here both are arbitrary; PortalTraffic composes the account with the    *)
(* callers the program has.                                                *)
(*                                                                         *)
(* The four counters of an instance are added up alike; one stands for     *)
(* them.  Boundaries gives the instants at which a schedule starts a new   *)
(* period; TrafficCalendar checks the arithmetic that finds them.          *)
(***************************************************************************)
EXTENDS Integers

CONSTANTS
    Insts,          \* Portal instance ids
    Readings,       \* what a counter may be reported as, negatives included
    MaxCount,       \* math.MaxInt64
    Schedules,      \* day, time and timezone of the monthly reset
    Boundaries,     \* the reset instants of each schedule
    Nil,            \* a NULL time, or no tunnel row
    MaxTime         \* bound of the model's clock

ASSUME TrafficAssumption ==
    /\ MaxCount \in Nat /\ MaxTime \in Nat
    /\ Readings \subseteq Int /\ \A r \in Readings : r <= MaxCount
    /\ Boundaries \in [Schedules -> SUBSET Int]
    /\ Nil \notin Int

\* Every instant has a next boundary and a most recent one.
ASSUME CalendarAssumption ==
    \A s \in Schedules, t \in 0 .. MaxTime :
        /\ \E b \in Boundaries[s] :
              b > t /\ \A c \in Boundaries[s] : c > t => b <= c
        /\ \E b \in Boundaries[s] :
              b <= t /\ \A c \in Boundaries[s] : c <= t => c <= b

VARIABLES
    now,            \* the clock
    usage,          \* the accounting columns of the endpoint row
    cursors,        \* the rows of endpoint_traffic_cursors
    rows,           \* the endpoint's rows in tunnels
    tx              \* the transaction that holds the endpoint's lock

vars == <<now, usage, cursors, rows, tx>>

Time == 0 .. MaxTime
Count == 0 .. MaxCount
Sample == [inst : Insts, at : Time, count : Readings]
Usage == [total : Count, used : Count, initialized : BOOLEAN,
          auto : BOOLEAN, sched : Schedules,
          last : Int \cup {Nil}, next : Int \cup {Nil}]
Cursor == [at : Time \cup {Nil}, count : Count]
Row == [count : Readings, event : Time \cup {Nil}, updated : Time]
Plan == [auto : BOOLEAN, sched : Schedules]
NoTx == [op |-> "none"]
Tx == [op : {"observe", "sync", "plan"}, time : Time, usage : Usage,
       cursors : [Insts -> Cursor], todo : SUBSET Sample,
       sample : Sample \cup {Nil}, plan : Plan \cup {Nil}]

TypeOK ==
    /\ now \in Time
    /\ usage \in Usage
    /\ cursors \in [Insts -> Cursor]
    /\ rows \in [Insts -> Row \cup {Nil}]
    /\ tx \in Tx \cup {NoTx}

Init ==
    /\ now = 0
    /\ \E s \in Schedules :
          usage = [total |-> 0, used |-> 0, initialized |-> FALSE,
                   auto |-> FALSE, sched |-> s, last |-> Nil, next |-> Nil]
    /\ cursors = [i \in Insts |-> [at |-> Nil, count |-> 0]]
    /\ rows \in [Insts -> [count : Readings, event : {Nil}, updated : {0}]
                          \cup {Nil}]
    /\ tx = NoTx

-----------------------------------------------------------------------------
(* Arithmetic *)

\* Mutant: the sum wraps around.
AddWraps(a, b) == (a + b) % (MaxCount + 1)

\* The sum, or the largest value there is.
Add(a, b) == IF b > MaxCount - a THEN MaxCount ELSE a + b

\* Mutant: a counter below zero is believed.
Believed(n) == n

AtLeastZero(n) == IF n < 0 THEN 0 ELSE n

\* A counter below its last value has started over: all of it is new.
CounterDelta(current, previous) ==
    IF current < previous THEN current ELSE current - previous

\* The first boundary after t, and the last one up to t.
NextBoundary(s, t) ==
    CHOOSE b \in Boundaries[s] :
        b > t /\ \A c \in Boundaries[s] : c > t => b <= c
LastBoundary(s, t) ==
    CHOOSE b \in Boundaries[s] :
        b <= t /\ \A c \in Boundaries[s] : c <= t => c <= b

-----------------------------------------------------------------------------
(* What a transaction does to its copy of the account. *)

\* Mutant: a sample is never stale.
ObservedStale(w, s) ==
    LET previous == w.cursors[s.inst]
        count == AtLeastZero(s.count)
        delta == CounterDelta(count, previous.count)
    IN [w EXCEPT !.cursors[s.inst] = [at |-> s.at, count |-> count],
                 !.usage.total = Add(@, delta),
                 !.usage.used = IF w.usage.last = Nil \/ s.at >= w.usage.last
                                THEN Add(@, delta) ELSE @]

\* Mutant: the used bytes take a sample the total has already refused.
ObservedUsedFirst(w, s) ==
    LET previous == w.cursors[s.inst]
        count == AtLeastZero(s.count)
        delta == CounterDelta(count, previous.count)
    IN IF previous.at # Nil /\ s.at <= previous.at
       THEN [w EXCEPT !.usage.used = Add(@, count)]
       ELSE [w EXCEPT !.cursors[s.inst] = [at |-> s.at, count |-> count],
                      !.usage.total = Add(@, delta),
                      !.usage.used = Add(@, delta)]

\* observe: a sample that is not newer than the cursor is ignored; a newer
\* one moves it, and counts for the period unless it was taken before it.
Observed(w, s) ==
    LET previous == w.cursors[s.inst]
        count == AtLeastZero(s.count)
        delta == CounterDelta(count, previous.count)
    IN IF previous.at # Nil /\ s.at <= previous.at
       THEN w
       ELSE [w EXCEPT !.cursors[s.inst] = [at |-> s.at, count |-> count],
                      !.usage.total = Add(@, delta),
                      !.usage.used = IF w.usage.last = Nil \/ s.at >= w.usage.last
                                     THEN Add(@, delta) ELSE @]

\* Mutant: the usage starts over, the next reset stays where it is.
ResetDueAgain(u, t) ==
    IF ~u.auto \/ u.next = Nil \/ u.next > t
    THEN u
    ELSE [u EXCEPT !.used = 0, !.last = LastBoundary(u.sched, t)]

\* resetDue: however late, start the period that contains t.
ResetDue(u, t) ==
    IF ~u.auto \/ u.next = Nil \/ u.next > t
    THEN u
    ELSE [u EXCEPT !.used = 0, !.last = LastBoundary(u.sched, t),
                   !.next = NextBoundary(u.sched, t)]

\* Plan.Apply: another schedule, or renewal switched on, plans the next reset
\* anew; a later first renewal date may be asked for.
Applied(u, plan, t, first) ==
    [u EXCEPT !.auto = plan.auto, !.sched = plan.sched,
              !.next = IF ~plan.auto THEN Nil
                       ELSE IF first # Nil THEN first
                       ELSE IF \/ u.auto # plan.auto \/ u.sched # plan.sched
                               \/ u.next = Nil
                       THEN NextBoundary(plan.sched, t)
                       ELSE u.next]

\* The samples syncStored finds in the tunnel rows.
SampledAt(row) == IF row.event # Nil THEN row.event ELSE row.updated
Stored == {[inst |-> i, at |-> SampledAt(rows[i]), count |-> rows[i].count] :
              i \in {j \in Insts : rows[j] # Nil}}

-----------------------------------------------------------------------------
(* The transactions.  The time a caller passes was read before the lock    *)
(* was taken.                                                              *)

Begin(op, t, u, todo, sample, plan) ==
    /\ tx = NoTx
    /\ tx' = [op |-> op, time |-> t, usage |-> u, cursors |-> cursors,
              todo |-> todo, sample |-> sample, plan |-> plan]
    /\ UNCHANGED <<now, usage, cursors, rows>>

BeginObserve(s, t) ==
    Begin("observe", t, usage, IF usage.initialized THEN {} ELSE Stored, s, Nil)

BeginSync(t) ==
    Begin("sync", t, ResetDue(usage, t), Stored, Nil, Nil)

BeginPlan(plan, t) ==
    Begin("plan", t, ResetDue(usage, t), Stored, Nil, plan)

\* syncStored's loop.
SyncRow ==
    /\ tx # NoTx
    /\ \E s \in tx.todo : tx' = [Observed(tx, s) EXCEPT !.todo = @ \ {s}]
    /\ UNCHANGED <<now, usage, cursors, rows>>

\* A handler may write or delete tunnel rows in the same transaction.
RowsWritten ==
    rows' \in {r \in [Insts -> Row \cup {Nil}] :
                 \A i \in Insts :
                    \/ r[i] \in {rows[i], Nil}
                    \/ r[i].updated = now /\ r[i].event \in {Nil} \cup 0 .. now}

Publish(w) ==
    /\ usage' = w.usage /\ cursors' = w.cursors
    /\ tx' = NoTx
    /\ UNCHANGED now

Initialized(w) == [w EXCEPT !.usage.initialized = TRUE]

CommitObserve ==
    /\ tx.op = "observe" /\ tx.todo = {}
    /\ LET w == Initialized(tx) IN
       Publish(Observed([w EXCEPT !.usage = ResetDue(@, tx.time)], tx.sample))

CommitSync ==
    /\ tx.op = "sync" /\ tx.todo = {}
    /\ Publish(Initialized(tx))

CommitPlan ==
    /\ tx.op = "plan" /\ tx.todo = {}
    /\ \E first \in {Nil} \cup
                    {b \in Boundaries[tx.plan.sched] : b > tx.time} :
          LET w == Initialized(tx) IN
          Publish([w EXCEPT !.usage = Applied(@, tx.plan, tx.time, first)])

\* Any statement may fail, and so may the process.
Rollback ==
    /\ tx # NoTx /\ tx' = NoTx
    /\ UNCHANGED <<now, usage, cursors, rows>>

-----------------------------------------------------------------------------
(* Everybody else *)

Tick ==
    /\ now < MaxTime /\ now' = now + 1
    /\ UNCHANGED <<usage, cursors, rows, tx>>

\* Tunnel rows are written and deleted; their writers know nothing of the
\* lock.
OthersWrite ==
    /\ RowsWritten
    /\ UNCHANGED <<now, usage, cursors, tx>>

Next ==
    \/ \E t \in 0 .. now :
          \/ \E s \in Sample : BeginObserve(s, t)
          \/ BeginSync(t)
          \/ \E p \in Plan : BeginPlan(p, t)
    \/ SyncRow \/ Rollback \/ Tick
    \/ (CommitObserve \/ CommitSync \/ CommitPlan) /\ RowsWritten
    \/ OthersWrite

Spec == Init /\ [][Next]_vars

-----------------------------------------------------------------------------
(* Properties *)

\* The bytes of a period are among the bytes of all time, in the committed
\* account and in every transaction's copy: no sample counts for the period
\* without counting for the total, saturation and resets included.
UsedWithinTotal ==
    /\ usage.used <= usage.total
    /\ tx # NoTx => tx.usage.used <= tx.usage.total

\* No sample, reset, plan or overflow takes anything off the total.
TotalNeverShrinks == [][usage'.total >= usage.total]_vars

\* A cursor only moves forward in time: an older database snapshot or a late
\* event never becomes the base the next difference is taken from.
CursorNeverRewinds ==
    [][\A i \in Insts :
          cursors'[i] # cursors[i] =>
              /\ cursors'[i].at # Nil
              /\ cursors[i].at # Nil => cursors'[i].at > cursors[i].at]_vars

\* The period's usage goes down only when a period ends: a reset moves the
\* next boundary past the time it was made for, so it is made once.
ResetOncePerBoundary ==
    [][usage'.used < usage.used =>
          /\ usage.auto /\ usage.next # Nil /\ usage.next <= tx.time
          /\ usage'.last # Nil /\ usage'.last >= usage.next
          /\ usage'.next # Nil => usage'.next > tx.time]_vars
=============================================================================
