------------------------ MODULE EndpointTrafficProofs ------------------------
(***************************************************************************)
(* Whatever samples, plans and tunnel rows come: the account keeps its     *)
(* types, the period stays within the total, the total never shrinks, no   *)
(* cursor goes back, and a period is started once per boundary.            *)
(*                                                                         *)
(* The argument: the transaction that holds the lock works on a copy of    *)
(* the account, which nobody else writes meanwhile; CopyOK says how far    *)
(* the copy may have moved from the account it will replace.               *)
(***************************************************************************)
EXTENDS EndpointTraffic, TLAPS

\* A planned reset is a boundary of the schedule in force.
PlannedReset(u) ==
    u.next # Nil => u.auto /\ u.next \in Boundaries[u.sched]

\* The account as it was, or with the reset that was due.
Renewed(u, v, t) ==
    \/ u.last = v.last /\ u.next = v.next /\ u.used <= v.used
    \/ /\ u.auto /\ u.next # Nil /\ u.next <= t
       /\ v.last = LastBoundary(u.sched, t)
       /\ v.next = NextBoundary(u.sched, t)

CopyOf(u, v, t) ==
    /\ u.total <= v.total
    /\ u.auto = v.auto /\ u.sched = v.sched
    /\ Renewed(u, v, t)

Ahead(c, d) ==
    \A i \in Insts : d[i] # c[i] =>
        /\ d[i].at # Nil
        /\ c[i].at # Nil => d[i].at > c[i].at

CopyOK ==
    tx # NoTx =>
        /\ CopyOf(usage, tx.usage, tx.time) /\ PlannedReset(tx.usage)
        /\ Ahead(cursors, tx.cursors)
        /\ tx.op = "observe" => tx.sample \in Sample
        /\ tx.op = "plan" => tx.plan \in Plan

IInv ==
    /\ TypeOK /\ UsedWithinTotal /\ CopyOK
    /\ PlannedReset(usage)

-----------------------------------------------------------------------------
(* Arithmetic *)

\* The sum saturates; it never falls below its first argument.
LEMMA AddFacts ==
    ASSUME NEW a \in Count, NEW b \in Count
    PROVE  Add(a, b) \in Count /\ Add(a, b) >= a
BY TrafficAssumption DEF Add, Count

LEMMA AddMonotone ==
    ASSUME NEW a \in Count, NEW b \in Count, NEW d \in Count, a <= b
    PROVE  Add(a, d) <= Add(b, d)
BY TrafficAssumption DEF Add, Count

LEMMA ReadingFacts ==
    ASSUME NEW r \in Readings, NEW p \in Count
    PROVE  AtLeastZero(r) \in Count /\ CounterDelta(AtLeastZero(r), p) \in Count
BY TrafficAssumption DEF AtLeastZero, CounterDelta, Count

LEMMA BoundaryFacts ==
    ASSUME NEW s \in Schedules, NEW t \in Time
    PROVE  /\ NextBoundary(s, t) \in Boundaries[s] /\ NextBoundary(s, t) \in Int
           /\ NextBoundary(s, t) > t
           /\ LastBoundary(s, t) \in Boundaries[s] /\ LastBoundary(s, t) \in Int
           /\ \A c \in Boundaries[s] : c <= t => c <= LastBoundary(s, t)
<1>1. \E b \in Boundaries[s] :
          b > t /\ \A c \in Boundaries[s] : c > t => b <= c
  BY CalendarAssumption DEF Time
<1>2. \E b \in Boundaries[s] :
          b <= t /\ \A c \in Boundaries[s] : c <= t => c <= b
  BY CalendarAssumption DEF Time
<1>3. NextBoundary(s, t) \in Boundaries[s] /\ NextBoundary(s, t) > t
  BY <1>1 DEF NextBoundary
<1>4. /\ LastBoundary(s, t) \in Boundaries[s]
      /\ \A c \in Boundaries[s] : c <= t => c <= LastBoundary(s, t)
  BY <1>2 DEF LastBoundary
<1>5. Boundaries[s] \subseteq Int
  BY TrafficAssumption
<1>6. QED  BY <1>3, <1>4, <1>5

-----------------------------------------------------------------------------
(* The operations on a copy. *)

\* What observe does to the account and to the cursors of a copy.
LEMMA ObservedFacts ==
    ASSUME NEW w \in Tx, NEW s \in Sample, w.usage.used <= w.usage.total
    PROVE  /\ Observed(w, s) \in Tx
           /\ Observed(w, s).usage.used <= Observed(w, s).usage.total
           /\ Observed(w, s).usage.total >= w.usage.total
           /\ Observed(w, s).usage.used >= w.usage.used
           /\ Observed(w, s).usage.initialized = w.usage.initialized
           /\ Observed(w, s).usage.auto = w.usage.auto
           /\ Observed(w, s).usage.sched = w.usage.sched
           /\ Observed(w, s).usage.last = w.usage.last
           /\ Observed(w, s).usage.next = w.usage.next
           /\ Observed(w, s).op = w.op /\ Observed(w, s).time = w.time
           /\ Observed(w, s).todo = w.todo
           /\ Observed(w, s).sample = w.sample /\ Observed(w, s).plan = w.plan
           /\ Ahead(w.cursors, Observed(w, s).cursors)
<1> DEFINE i == s.inst
           previous == w.cursors[i]
           count == AtLeastZero(s.count)
           delta == CounterDelta(count, previous.count)
<1>1. /\ i \in Insts /\ s.at \in Time /\ s.count \in Readings
      /\ w.cursors \in [Insts -> Cursor] /\ w.usage \in Usage
      /\ previous \in Cursor
  BY DEF Sample, Tx
<1>2. count \in Count /\ delta \in Count
  BY <1>1, ReadingFacts DEF Cursor
<1>3. CASE previous.at # Nil /\ s.at <= previous.at
  <2>1. Observed(w, s) = w
    BY <1>3 DEF Observed
  <2>2. w.usage.total \in Count /\ w.usage.used \in Count
    BY <1>1 DEF Usage
  <2>3. QED
    BY <2>1, <2>2, TrafficAssumption DEF Ahead, Count
<1>4. CASE ~(previous.at # Nil /\ s.at <= previous.at)
  <2> DEFINE total == Add(w.usage.total, delta)
             used == IF w.usage.last = Nil \/ s.at >= w.usage.last
                     THEN Add(w.usage.used, delta) ELSE w.usage.used
             u == [w.usage EXCEPT !.total = total, !.used = used]
             c == [w.cursors EXCEPT ![i] = [at |-> s.at, count |-> count]]
  <2>1. Observed(w, s) = [w EXCEPT !.cursors = c, !.usage = u]
    BY <1>4, <1>1 DEF Observed, Tx, Usage
  <2>2. w.usage.total \in Count /\ w.usage.used \in Count
    BY <1>1 DEF Usage
  <2>3. /\ total \in Count /\ used \in Count /\ used <= total
        /\ total >= w.usage.total /\ used >= w.usage.used
    <3>1. total \in Count /\ total >= w.usage.total
      BY <1>2, <2>2, AddFacts
    <3>2. /\ Add(w.usage.used, delta) \in Count
          /\ Add(w.usage.used, delta) >= w.usage.used
      BY <1>2, <2>2, AddFacts
    <3>3. Add(w.usage.used, delta) <= total
      BY <1>2, <2>2, AddMonotone
    <3> HIDE DEF delta
    <3>4. QED
      BY <2>2, <3>1, <3>2, <3>3, TrafficAssumption DEF Count
  <2>4. u \in Usage
    BY <1>1, <2>3 DEF Usage
  <2>5. c \in [Insts -> Cursor] /\ Ahead(w.cursors, c)
    <3>1. [at |-> s.at, count |-> count] \in Cursor
      BY <1>1, <1>2 DEF Cursor
    <3>2. c \in [Insts -> Cursor]
      BY <1>1, <3>1
    <3>3. /\ c[i].at = s.at /\ s.at # Nil
          /\ \A j \in Insts : j # i => c[j] = w.cursors[j]
      BY <1>1, TrafficAssumption DEF Time
    <3>4. previous.at # Nil => s.at > previous.at
      BY <1>1, <1>4, TrafficAssumption DEF Cursor, Time
    <3>5. QED  BY <3>2, <3>3, <3>4 DEF Ahead
  <2>6. /\ Observed(w, s) \in Tx
        /\ Observed(w, s).usage = u /\ Observed(w, s).cursors = c
        /\ Observed(w, s).op = w.op /\ Observed(w, s).time = w.time
        /\ Observed(w, s).todo = w.todo
        /\ Observed(w, s).sample = w.sample /\ Observed(w, s).plan = w.plan
    BY <2>1, <2>4, <2>5 DEF Tx
  <2>7. /\ u.total = total /\ u.used = used
        /\ u.initialized = w.usage.initialized /\ u.auto = w.usage.auto
        /\ u.sched = w.usage.sched /\ u.last = w.usage.last
        /\ u.next = w.usage.next
    BY <1>1 DEF Usage
  <2>8. QED  BY <2>3, <2>5, <2>6, <2>7
<1>5. QED  BY <1>3, <1>4

\* What resetDue does: nothing, or a new period.
LEMMA ResetFacts ==
    ASSUME NEW u \in Usage, NEW t \in Time, u.used <= u.total, PlannedReset(u)
    PROVE  /\ ResetDue(u, t) \in Usage
           /\ ResetDue(u, t).used <= ResetDue(u, t).total
           /\ ResetDue(u, t).total = u.total
           /\ CopyOf(u, ResetDue(u, t), t)
           /\ PlannedReset(ResetDue(u, t))
<1>0. u.used \in Int /\ u.total \in Nat /\ u.sched \in Schedules
  BY TrafficAssumption DEF Usage, Count
<1>1. CASE ~u.auto \/ u.next = Nil \/ u.next > t
  BY <1>0, <1>1 DEF ResetDue, CopyOf, Renewed
<1>2. CASE ~(~u.auto \/ u.next = Nil \/ u.next > t)
  <2>1. ResetDue(u, t) = [u EXCEPT !.used = 0, !.last = LastBoundary(u.sched, t),
                                   !.next = NextBoundary(u.sched, t)]
    BY <1>2 DEF ResetDue
  <2>2. ResetDue(u, t) \in Usage
    <3>1. LastBoundary(u.sched, t) \in Int /\ NextBoundary(u.sched, t) \in Int
      BY <1>0, BoundaryFacts
    <3>2. 0 \in Count
      BY TrafficAssumption DEF Count
    <3>3. QED  BY <2>1, <3>1, <3>2 DEF Usage
  <2>3. u.next \in Int /\ u.next <= t
    BY <1>2, TrafficAssumption DEF Usage, Time
  <2>4. /\ ResetDue(u, t).used = 0 /\ ResetDue(u, t).total = u.total
        /\ ResetDue(u, t).auto = u.auto /\ ResetDue(u, t).sched = u.sched
        /\ ResetDue(u, t).last = LastBoundary(u.sched, t)
        /\ ResetDue(u, t).next = NextBoundary(u.sched, t)
    BY <2>1 DEF Usage
  <2>5. QED
    BY <1>0, <1>2, <2>2, <2>3, <2>4, BoundaryFacts
       DEF CopyOf, Renewed, PlannedReset
<1>3. QED  BY <1>1, <1>2

\* A copy stays a copy while samples are added to it.
LEMMA CopyGrows ==
    ASSUME NEW u \in Usage, NEW v \in Usage, NEW w \in Usage, NEW t \in Time,
           CopyOf(u, v, t), v.total <= w.total, v.used <= w.used,
           w.auto = v.auto, w.sched = v.sched, w.last = v.last, w.next = v.next
    PROVE  CopyOf(u, w, t)
BY TrafficAssumption DEF CopyOf, Renewed, Usage, Count

LEMMA AheadTransitive ==
    ASSUME NEW c \in [Insts -> Cursor], NEW d \in [Insts -> Cursor],
           NEW e \in [Insts -> Cursor], Ahead(c, d), Ahead(d, e)
    PROVE  Ahead(c, e)
BY TrafficAssumption DEF Ahead, Cursor, Time

\* syncStored's samples are samples.
LEMMA StoredType == TypeOK => Stored \subseteq Sample
BY TrafficAssumption DEF TypeOK, Stored, Sample, SampledAt, Row
-----------------------------------------------------------------------------
(* Initially, and in every step *)

LEMMA InitIInv == Init => IInv
<1> SUFFICES ASSUME Init PROVE IInv
  OBVIOUS
<1>1. TypeOK
  BY TrafficAssumption DEF Init, TypeOK, Time, Count, Usage, Cursor, Row
<1>2. UsedWithinTotal /\ CopyOK /\ PlannedReset(usage)
  BY DEF Init, UsedWithinTotal, CopyOK, PlannedReset
<1>3. QED  BY <1>1, <1>2 DEF IInv

LEMMA NoTxFacts == NoTx \notin Tx
<1>1. ASSUME NEW w \in Tx PROVE w.op # "none"
  BY DEF Tx
<1>2. QED  BY <1>1 DEF NoTx

\* A transaction begins with a copy of the account, reset or not.
LEMMA BeginInv ==
    ASSUME IInv, NEW op \in {"observe", "sync", "plan"}, NEW t \in Time,
           NEW u \in Usage, NEW todo \in SUBSET Sample,
           NEW sample \in Sample \cup {Nil}, NEW plan \in Plan \cup {Nil},
           u.used <= u.total, CopyOf(usage, u, t), PlannedReset(u),
           op = "observe" => sample \in Sample, op = "plan" => plan \in Plan,
           Begin(op, t, u, todo, sample, plan)
    PROVE  IInv'
<1>1. /\ tx' = [op |-> op, time |-> t, usage |-> u, cursors |-> cursors,
                todo |-> todo, sample |-> sample, plan |-> plan]
      /\ UNCHANGED <<now, usage, cursors, rows>>
  BY DEF Begin
<1>2. TypeOK'
  BY <1>1 DEF IInv, TypeOK, Tx
<1>3. UsedWithinTotal' /\ CopyOK'
  BY <1>1 DEF IInv, UsedWithinTotal, CopyOK, Ahead
<1>4. PlannedReset(usage)'
  BY <1>1 DEF IInv, PlannedReset
<1>5. QED  BY <1>2, <1>3, <1>4 DEF IInv

LEMMA BeginsInv ==
    ASSUME IInv, NEW t \in 0 .. now,
           \/ \E s \in Sample : BeginObserve(s, t)
           \/ BeginSync(t)
           \/ \E p \in Plan : BeginPlan(p, t)
    PROVE  IInv'
<1>1. /\ usage \in Usage /\ usage.used <= usage.total /\ t \in Time
      /\ PlannedReset(usage) /\ Stored \subseteq Sample
  BY StoredType, TrafficAssumption DEF IInv, TypeOK, UsedWithinTotal, Time
<1>2. CASE \E s \in Sample : BeginObserve(s, t)
  <2>1. PICK s \in Sample : BeginObserve(s, t)
    BY <1>2
  <2>2. CopyOf(usage, usage, t)
    BY <1>1, TrafficAssumption DEF CopyOf, Renewed, Usage, Count
  <2>3. (IF usage.initialized THEN {} ELSE Stored) \in SUBSET Sample
    BY <1>1
  <2>4. QED
    BY <1>1, <2>1, <2>2, <2>3, BeginInv DEF BeginObserve
<1>3. CASE BeginSync(t)
  BY <1>1, <1>3, ResetFacts, BeginInv DEF BeginSync
<1>4. CASE \E p \in Plan : BeginPlan(p, t)
  <2>1. PICK p \in Plan : BeginPlan(p, t)
    BY <1>4
  <2>2. QED  BY <1>1, <2>1, ResetFacts, BeginInv DEF BeginPlan
<1>5. QED  BY <1>2, <1>3, <1>4

LEMMA SyncRowInv == IInv /\ SyncRow => IInv'
<1> SUFFICES ASSUME IInv, SyncRow PROVE IInv'
  OBVIOUS
<1>1. /\ tx \in Tx /\ tx.usage.used <= tx.usage.total
      /\ CopyOf(usage, tx.usage, tx.time) /\ Ahead(cursors, tx.cursors)
  BY DEF SyncRow, IInv, TypeOK, UsedWithinTotal, CopyOK
<1>9. UNCHANGED <<now, usage, cursors, rows>> /\ tx # NoTx
  BY DEF SyncRow
<1>2. PICK s \in tx.todo : tx' = [Observed(tx, s) EXCEPT !.todo = @ \ {s}]
  BY DEF SyncRow
<1> DEFINE w == Observed(tx, s)
<1>3. s \in Sample /\ tx.usage \in Usage /\ tx.time \in Time
  BY <1>1, <1>2 DEF Tx
<1>4. w \in Tx /\ w.usage.used <= w.usage.total
  BY <1>1, <1>3, ObservedFacts
<1>5. /\ w.op = tx.op /\ w.time = tx.time
      /\ w.sample = tx.sample /\ w.plan = tx.plan
  BY <1>1, <1>3, ObservedFacts
<1>6. CopyOf(usage, w.usage, tx.time)
  <2>1. w.usage \in Usage /\ usage \in Usage
    BY <1>4 DEF Tx, IInv, TypeOK
  <2>2. /\ tx.usage.total <= w.usage.total /\ tx.usage.used <= w.usage.used
        /\ w.usage.auto = tx.usage.auto /\ w.usage.sched = tx.usage.sched
        /\ w.usage.last = tx.usage.last /\ w.usage.next = tx.usage.next
    <3>1. /\ w.usage.total >= tx.usage.total /\ w.usage.used >= tx.usage.used
          /\ w.usage.auto = tx.usage.auto /\ w.usage.sched = tx.usage.sched
          /\ w.usage.last = tx.usage.last /\ w.usage.next = tx.usage.next
      BY <1>1, <1>3, ObservedFacts
    <3>2. QED  BY <1>3, <2>1, <3>1, TrafficAssumption DEF Usage, Count
  <2>3. QED  BY <1>1, <1>3, <2>1, <2>2, CopyGrows
<1>14. PlannedReset(w.usage)
  <2>1. /\ w.usage.auto = tx.usage.auto /\ w.usage.sched = tx.usage.sched
        /\ w.usage.next = tx.usage.next
    BY <1>1, <1>3, ObservedFacts
  <2>2. PlannedReset(tx.usage)
    BY <1>9 DEF IInv, CopyOK
  <2>3. QED  BY <2>1, <2>2 DEF PlannedReset
<1>7. Ahead(cursors, w.cursors)
  <2>1. Ahead(tx.cursors, w.cursors)
    BY <1>1, <1>3, ObservedFacts
  <2>2. QED
    BY <1>1, <1>4, <2>1, AheadTransitive DEF Tx, IInv, TypeOK
<1>8. /\ tx' \in Tx /\ tx'.usage = w.usage /\ tx'.cursors = w.cursors
      /\ tx'.op = w.op /\ tx'.time = w.time
      /\ tx'.sample = w.sample /\ tx'.plan = w.plan
  BY <1>2, <1>4 DEF Tx
<1>10. TypeOK' /\ PlannedReset(usage)'
  BY <1>8, <1>9 DEF IInv, TypeOK, PlannedReset
<1>11. UsedWithinTotal'
  BY <1>4, <1>8, <1>9 DEF IInv, UsedWithinTotal
<1>12. CopyOK'
  BY <1>5, <1>6, <1>7, <1>8, <1>9, <1>14 DEF IInv, CopyOK, Ahead, PlannedReset
<1>13. QED  BY <1>10, <1>11, <1>12 DEF IInv

-----------------------------------------------------------------------------
(* Commits *)

\* The period started over only because its boundary had come.
StartedOver(u, v, t) ==
    v.used < u.used =>
        /\ u.auto /\ u.next # Nil /\ u.next <= t
        /\ v.last # Nil /\ v.last >= u.next
        /\ v.next # Nil => v.next > t

Committed(w) ==
    /\ Publish(w) /\ RowsWritten
    /\ w \in Tx /\ w.usage.used <= w.usage.total /\ PlannedReset(w.usage)
    /\ usage.total <= w.usage.total
    /\ Ahead(cursors, w.cursors)
    /\ StartedOver(usage, w.usage, tx.time)

LEMMA CopyStartedOver ==
    ASSUME NEW u \in Usage, NEW v \in Usage, NEW t \in Time,
           PlannedReset(u), CopyOf(u, v, t)
    PROVE  StartedOver(u, v, t)
<1> SUFFICES ASSUME v.used < u.used PROVE StartedOver(u, v, t)
  BY DEF StartedOver
<1>1. u.used \in Int /\ v.used \in Int /\ u.sched \in Schedules
  BY TrafficAssumption DEF Usage, Count
<1>2. /\ u.auto /\ u.next # Nil /\ u.next <= t
      /\ v.last = LastBoundary(u.sched, t) /\ v.next = NextBoundary(u.sched, t)
  BY <1>1 DEF CopyOf, Renewed
<1>3. v.last >= u.next /\ v.next > t /\ v.last \in Int
  <2>1. u.next \in Boundaries[u.sched] /\ u.next \in Int
    BY <1>2 DEF PlannedReset, Usage
  <2>2. /\ LastBoundary(u.sched, t) \in Int /\ NextBoundary(u.sched, t) > t
        /\ \A c \in Boundaries[u.sched] : c <= t => c <= LastBoundary(u.sched, t)
    BY <1>1, BoundaryFacts
  <2>3. QED  BY <1>2, <2>1, <2>2
<1>4. QED  BY <1>2, <1>3, TrafficAssumption DEF StartedOver

\* Two moves of a copy at the same time are one.
LEMMA CopyTransitive ==
    ASSUME NEW u \in Usage, NEW v \in Usage, NEW w \in Usage, NEW t \in Time,
           CopyOf(u, v, t), CopyOf(v, w, t)
    PROVE  CopyOf(u, w, t)
BY TrafficAssumption DEF CopyOf, Renewed, Usage, Count

LEMMA InitializedFacts ==
    ASSUME NEW w \in Tx
    PROVE  /\ Initialized(w) \in Tx
           /\ Initialized(w).usage = [w.usage EXCEPT !.initialized = TRUE]
           /\ Initialized(w).usage \in Usage
           /\ Initialized(w).cursors = w.cursors
<1>1. w.usage \in Usage
  BY DEF Tx
<1>2. [w.usage EXCEPT !.initialized = TRUE] \in Usage
  BY <1>1 DEF Usage
<1>3. Initialized(w) = [w EXCEPT !.usage = [w.usage EXCEPT !.initialized = TRUE]]
  BY <1>1 DEF Initialized, Tx, Usage
<1>4. QED  BY <1>2, <1>3 DEF Tx

LEMMA MarkedFacts ==
    ASSUME NEW u \in Usage, NEW v \in Usage, NEW t \in Time, CopyOf(u, v, t)
    PROVE  LET m == [v EXCEPT !.initialized = TRUE]
           IN  /\ CopyOf(u, m, t)
               /\ PlannedReset(v) => PlannedReset(m)
               /\ m.used = v.used /\ m.total = v.total
BY DEF CopyOf, Renewed, PlannedReset, Usage

\* What these two publish is still a copy of the account, renewed or not.
LEMMA CommitSyncFacts ==
    IInv /\ CommitSync /\ RowsWritten
        => \E w : Committed(w) /\ CopyOf(usage, w.usage, tx.time)
<1> SUFFICES ASSUME IInv, CommitSync, RowsWritten
             PROVE  /\ Committed(Initialized(tx))
                    /\ CopyOf(usage, Initialized(tx).usage, tx.time)
  OBVIOUS
<1>1. tx # NoTx
  BY DEF CommitSync, NoTx
<1>2. /\ tx \in Tx /\ usage \in Usage /\ PlannedReset(usage)
      /\ tx.usage.used <= tx.usage.total
      /\ CopyOf(usage, tx.usage, tx.time) /\ PlannedReset(tx.usage)
      /\ Ahead(cursors, tx.cursors)
  BY <1>1 DEF IInv, TypeOK, UsedWithinTotal, CopyOK
<1>3. tx.usage \in Usage /\ tx.time \in Time
  BY <1>2 DEF Tx
<1> DEFINE m == [tx.usage EXCEPT !.initialized = TRUE]
<1>4. /\ CopyOf(usage, m, tx.time) /\ PlannedReset(m)
      /\ m.used = tx.usage.used /\ m.total = tx.usage.total
  BY <1>2, <1>3, MarkedFacts
<1>5. /\ Initialized(tx) \in Tx /\ Initialized(tx).usage = m /\ m \in Usage
      /\ Initialized(tx).cursors = tx.cursors
  BY <1>2, InitializedFacts
<1>6. StartedOver(usage, m, tx.time)
  BY <1>2, <1>3, <1>4, <1>5, CopyStartedOver
<1>7. usage.total <= m.total
  BY <1>4 DEF CopyOf
<1>8. QED
  BY <1>2, <1>4, <1>5, <1>6, <1>7 DEF Committed, CommitSync

LEMMA CommitObserveFacts ==
    IInv /\ CommitObserve /\ RowsWritten
        => \E w : Committed(w) /\ CopyOf(usage, w.usage, tx.time)
<1> SUFFICES ASSUME IInv, CommitObserve, RowsWritten
             PROVE  \E w : Committed(w) /\ CopyOf(usage, w.usage, tx.time)
  OBVIOUS
<1> DEFINE t == tx.time
           m == Initialized(tx).usage
           r == ResetDue(m, t)
           x == [Initialized(tx) EXCEPT !.usage = r]
           w == Observed(x, tx.sample)
<1>1. tx # NoTx
  BY DEF CommitObserve, NoTx
<1>2. /\ tx \in Tx /\ usage \in Usage /\ PlannedReset(usage)
      /\ cursors \in [Insts -> Cursor]
      /\ tx.usage.used <= tx.usage.total
      /\ CopyOf(usage, tx.usage, t) /\ PlannedReset(tx.usage)
      /\ Ahead(cursors, tx.cursors) /\ tx.sample \in Sample
  BY <1>1 DEF IInv, TypeOK, UsedWithinTotal, CopyOK, CommitObserve
<1>3. tx.usage \in Usage /\ t \in Time /\ tx.cursors \in [Insts -> Cursor]
  BY <1>2 DEF Tx
<1>4. /\ Initialized(tx) \in Tx
      /\ m = [tx.usage EXCEPT !.initialized = TRUE] /\ m \in Usage
      /\ Initialized(tx).cursors = tx.cursors
  BY <1>2, InitializedFacts
<1>5. /\ CopyOf(usage, m, t) /\ PlannedReset(m) /\ m.used <= m.total
  BY <1>2, <1>3, <1>4, MarkedFacts
<1>6. /\ r \in Usage /\ r.used <= r.total /\ r.total = m.total
      /\ CopyOf(m, r, t) /\ PlannedReset(r)
  BY <1>3, <1>4, <1>5, ResetFacts
<1>7. CopyOf(usage, r, t)
  BY <1>2, <1>3, <1>4, <1>5, <1>6, CopyTransitive
<1>8. x \in Tx /\ x.usage = r /\ x.cursors = tx.cursors
  BY <1>4, <1>6 DEF Tx
<1>9. /\ w \in Tx /\ w.usage.used <= w.usage.total
      /\ w.usage.total >= r.total /\ w.usage.used >= r.used
      /\ w.usage.auto = r.auto /\ w.usage.sched = r.sched
      /\ w.usage.last = r.last /\ w.usage.next = r.next
      /\ Ahead(tx.cursors, w.cursors)
  <2> HIDE DEF x, r, m
  <2>1. x \in Tx /\ x.usage.used <= x.usage.total
    BY <1>6, <1>8
  <2>2. QED  BY <1>2, <1>8, <2>1, ObservedFacts
<1>10. w.usage \in Usage /\ w.cursors \in [Insts -> Cursor]
  BY <1>9 DEF Tx
<1>11. CopyOf(usage, w.usage, t)
  <2>1. r.total <= w.usage.total /\ r.used <= w.usage.used
    BY <1>6, <1>9, <1>10, TrafficAssumption DEF Usage, Count
  <2>2. QED  BY <1>2, <1>3, <1>6, <1>7, <1>9, <1>10, <2>1, CopyGrows
<1>12. PlannedReset(w.usage)
  BY <1>6, <1>9 DEF PlannedReset
<1>13. Ahead(cursors, w.cursors)
  BY <1>2, <1>3, <1>9, <1>10, AheadTransitive
<1>14. StartedOver(usage, w.usage, t)
  BY <1>2, <1>3, <1>10, <1>11, CopyStartedOver
<1>15. Publish(w)
  BY DEF CommitObserve
<1>16. usage.total <= w.usage.total
  BY <1>11 DEF CopyOf
<1>17. Committed(w)
  BY <1>9, <1>12, <1>13, <1>14, <1>15, <1>16 DEF Committed
<1>18. QED  BY <1>11, <1>17

LEMMA CommitPlanFacts == IInv /\ CommitPlan /\ RowsWritten
                            => \E w : Committed(w)
<1> SUFFICES ASSUME IInv, CommitPlan, RowsWritten
             PROVE  \E w : Committed(w)
  OBVIOUS
<1> DEFINE t == tx.time
           p == tx.plan
           m == Initialized(tx).usage
<1>1. tx # NoTx
  BY DEF CommitPlan, NoTx
<1>2. /\ tx \in Tx /\ usage \in Usage /\ PlannedReset(usage)
      /\ tx.usage.used <= tx.usage.total
      /\ CopyOf(usage, tx.usage, t) /\ PlannedReset(tx.usage)
      /\ Ahead(cursors, tx.cursors) /\ p \in Plan
  BY <1>1 DEF IInv, TypeOK, UsedWithinTotal, CopyOK, CommitPlan
<1>3. tx.usage \in Usage /\ t \in Time /\ p.sched \in Schedules
      /\ p.auto \in BOOLEAN
  BY <1>2 DEF Tx, Plan
<1>4. /\ Initialized(tx) \in Tx
      /\ m = [tx.usage EXCEPT !.initialized = TRUE] /\ m \in Usage
      /\ Initialized(tx).cursors = tx.cursors
  BY <1>2, InitializedFacts
<1>5. /\ CopyOf(usage, m, t) /\ PlannedReset(m) /\ m.used <= m.total
  BY <1>2, <1>3, <1>4, MarkedFacts
<1>6. PICK first \in {Nil} \cup {b \in Boundaries[p.sched] : b > t} :
          Publish([Initialized(tx) EXCEPT !.usage = Applied(@, p, t, first)])
  BY DEF CommitPlan
<1> DEFINE u == Applied(m, p, t, first)
           w == [Initialized(tx) EXCEPT !.usage = u]
<1>7. /\ NextBoundary(p.sched, t) \in Boundaries[p.sched]
      /\ NextBoundary(p.sched, t) > t /\ Boundaries[p.sched] \subseteq Int
  BY <1>3, BoundaryFacts, TrafficAssumption
<1> DEFINE next == IF ~p.auto THEN Nil
                   ELSE IF first # Nil THEN first
                   ELSE IF m.auto # p.auto \/ m.sched # p.sched \/ m.next = Nil
                   THEN NextBoundary(p.sched, t) ELSE m.next
<1>8. next \in Int \cup {Nil}
  BY <1>4, <1>6, <1>7 DEF Usage
<1>9. u = [m EXCEPT !.auto = p.auto, !.sched = p.sched, !.next = next]
  BY <1>4 DEF Applied, Usage
<1>10. /\ u \in Usage /\ u.used = m.used /\ u.total = m.total
       /\ u.last = m.last /\ u.auto = p.auto /\ u.sched = p.sched
       /\ u.next = next
  BY <1>3, <1>4, <1>8, <1>9 DEF Usage
<1>11. next # Nil => p.auto /\ next \in Boundaries[p.sched]
  <2>1. m.next # Nil => m.auto /\ m.next \in Boundaries[m.sched]
    BY <1>5 DEF PlannedReset
  <2>2. CASE next = m.next /\ m.auto = p.auto /\ m.sched = p.sched
    BY <2>1, <2>2
  <2>3. CASE next = Nil
    BY <2>3
  <2>4. CASE p.auto /\ next = first /\ first # Nil
    BY <1>6, <2>4
  <2>5. CASE p.auto /\ next = NextBoundary(p.sched, t)
    BY <1>7, <2>5
  <2>6. QED  BY <2>2, <2>3, <2>4, <2>5
<1>12. PlannedReset(u)
  BY <1>10, <1>11 DEF PlannedReset
<1>13. w \in Tx /\ w.usage = u /\ w.cursors = tx.cursors
  BY <1>4, <1>10 DEF Tx
<1>14. StartedOver(usage, u, t)
  <2>1. SUFFICES ASSUME u.used < usage.used PROVE StartedOver(usage, u, t)
    BY DEF StartedOver
  <2>2. StartedOver(usage, m, t) /\ m.used < usage.used
    BY <1>2, <1>3, <1>4, <1>5, <1>10, <2>1, CopyStartedOver
  <2>3. /\ usage.auto /\ usage.next # Nil /\ usage.next <= t
        /\ m.last # Nil /\ m.last >= usage.next
        /\ m.next # Nil => m.next > t
    BY <2>2 DEF StartedOver
  <2>4. next # Nil => next > t
    BY <1>6, <1>7, <2>3
  <2>5. QED  BY <1>10, <2>3, <2>4 DEF StartedOver
<1>15. usage.total <= u.total /\ u.used <= u.total
  BY <1>5, <1>10 DEF CopyOf
<1>16. Committed(w)
  BY <1>2, <1>6, <1>12, <1>13, <1>14, <1>15 DEF Committed
<1>17. QED  BY <1>16

LEMMA CommittedInv ==
    ASSUME IInv, NEW w, Committed(w)
    PROVE  IInv'
<1>1. /\ usage' = w.usage /\ cursors' = w.cursors /\ tx' = NoTx
      /\ UNCHANGED now /\ w \in Tx /\ rows' \in [Insts -> Row \cup {Nil}]
  BY DEF Committed, Publish, RowsWritten
<1>2. w.usage \in Usage /\ w.cursors \in [Insts -> Cursor]
  BY <1>1 DEF Tx
<1>3. TypeOK'
  BY <1>1, <1>2 DEF IInv, TypeOK
<1>4. UsedWithinTotal' /\ CopyOK' /\ PlannedReset(usage)'
  BY <1>1 DEF Committed, UsedWithinTotal, CopyOK, PlannedReset
<1>5. QED  BY <1>3, <1>4 DEF IInv

-----------------------------------------------------------------------------
(* Every step *)

CommitStep == (CommitObserve \/ CommitSync \/ CommitPlan) /\ RowsWritten

LEMMA CommitStepFacts == IInv /\ CommitStep => \E w : Committed(w)
BY CommitObserveFacts, CommitSyncFacts, CommitPlanFacts DEF CommitStep

\* The clock and the tunnel rows; the account is left alone.
LEMMA OutsideInv ==
    ASSUME IInv, Tick \/ OthersWrite
    PROVE  IInv' /\ UNCHANGED <<usage, cursors>>
<1>1. UNCHANGED <<usage, cursors, tx>>
  BY DEF Tick, OthersWrite
<1>2. now' \in Time
  BY TrafficAssumption DEF Tick, OthersWrite, IInv, TypeOK, Time
<1>3. rows' \in [Insts -> Row \cup {Nil}]
  BY DEF Tick, OthersWrite, RowsWritten, IInv, TypeOK
<1>4. QED
  BY <1>1, <1>2, <1>3 DEF IInv, TypeOK, UsedWithinTotal, CopyOK, PlannedReset

LEMMA RollbackInv == IInv /\ Rollback => IInv' /\ UNCHANGED <<usage, cursors>>
BY DEF Rollback, IInv, TypeOK, UsedWithinTotal, CopyOK, PlannedReset

LEMMA NextIInv == IInv /\ [Next]_vars => IInv'
<1> SUFFICES ASSUME IInv, [Next]_vars PROVE IInv'
  OBVIOUS
<1>1. CASE CommitStep
  BY <1>1, CommitStepFacts, CommittedInv
<1>2. CASE UNCHANGED vars
  BY <1>2 DEF vars, IInv, TypeOK, UsedWithinTotal, CopyOK, PlannedReset
<1>3. CASE Tick \/ OthersWrite
  BY <1>3, OutsideInv
<1>4. CASE SyncRow \/ Rollback
  BY <1>4, SyncRowInv, RollbackInv
<1>5. QED
  BY <1>1, <1>2, <1>3, <1>4, BeginsInv DEF Next, CommitStep

\* Only a commit changes the account.
LEMMA AccountSteps ==
    IInv /\ [Next]_vars => UNCHANGED <<usage, cursors>> \/ CommitStep
<1> SUFFICES ASSUME IInv, [Next]_vars, ~CommitStep
             PROVE  UNCHANGED <<usage, cursors>>
  OBVIOUS
<1>1. CASE \E t \in 0 .. now : \/ \E s \in Sample : BeginObserve(s, t)
                               \/ BeginSync(t)
                               \/ \E p \in Plan : BeginPlan(p, t)
  BY <1>1 DEF BeginObserve, BeginSync, BeginPlan, Begin
<1>2. CASE SyncRow
  BY <1>2 DEF SyncRow
<1>3. CASE UNCHANGED vars
  BY <1>3 DEF vars
<1>4. CASE Rollback
  BY <1>4, RollbackInv
<1>5. CASE Tick \/ OthersWrite
  BY <1>5, OutsideInv
<1>6. QED
  BY <1>1, <1>2, <1>3, <1>4, <1>5 DEF Next, CommitStep

\* The account, the cursors and every transaction's copy keep their types:
\* no counter leaves 0 .. MaxCount, however the samples add up.
THEOREM TypeCorrect == Spec => []TypeOK
<1>1. IInv => TypeOK
  BY DEF IInv
<1>2. QED  BY <1>1, InitIInv, NextIInv, PTL DEF Spec

\* The period's usage is never more than the total.
THEOREM PeriodWithinTotal == Spec => []UsedWithinTotal
<1>1. IInv => UsedWithinTotal
  BY DEF IInv
<1>2. QED  BY <1>1, InitIInv, NextIInv, PTL DEF Spec

\* No step of anybody takes bytes off the total.
THEOREM TotalMonotone == Spec => TotalNeverShrinks
<1>1. IInv /\ [Next]_vars => [usage'.total >= usage.total]_vars
  <2> SUFFICES ASSUME IInv, [Next]_vars PROVE usage'.total >= usage.total
    OBVIOUS
  <2>1. usage \in Usage /\ usage' \in Usage
    BY NextIInv DEF IInv, TypeOK
  <2>2. usage' = usage \/ usage.total <= usage'.total
    BY AccountSteps, CommitStepFacts DEF Committed, Publish
  <2>3. QED  BY <2>1, <2>2, TrafficAssumption DEF Usage, Count
<1>2. QED
  BY <1>1, InitIInv, NextIInv, PTL DEF Spec, TotalNeverShrinks

\* Every cursor moves forward in time only.
THEOREM CursorMonotone == Spec => CursorNeverRewinds
<1>1. IInv /\ [Next]_vars =>
        [\A i \in Insts :
            cursors'[i] # cursors[i] =>
                /\ cursors'[i].at # Nil
                /\ cursors[i].at # Nil => cursors'[i].at > cursors[i].at]_vars
  BY AccountSteps, CommitStepFacts DEF Committed, Publish, Ahead
<1>2. QED
  BY <1>1, InitIInv, NextIInv, PTL DEF Spec, CursorNeverRewinds

\* The usage goes down only by a reset that was due and is planned anew.
THEOREM ResetIsDue == Spec => ResetOncePerBoundary
<1>1. IInv /\ [Next]_vars =>
        [usage'.used < usage.used =>
            /\ usage.auto /\ usage.next # Nil /\ usage.next <= tx.time
            /\ usage'.last # Nil /\ usage'.last >= usage.next
            /\ usage'.next # Nil => usage'.next > tx.time]_vars
  <2> SUFFICES ASSUME IInv, [Next]_vars, usage'.used < usage.used
               PROVE  /\ usage.auto /\ usage.next # Nil /\ usage.next <= tx.time
                      /\ usage'.last # Nil /\ usage'.last >= usage.next
                      /\ usage'.next # Nil => usage'.next > tx.time
    OBVIOUS
  <2>1. usage.used \in Int
    BY TrafficAssumption DEF IInv, TypeOK, Usage, Count
  <2>2. usage' # usage
    BY <2>1
  <2>3. QED
    BY <2>2, AccountSteps, CommitStepFacts DEF Committed, Publish, StartedOver
<1>2. QED
  BY <1>1, InitIInv, NextIInv, PTL DEF Spec, ResetOncePerBoundary
=============================================================================
