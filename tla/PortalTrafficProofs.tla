------------------------- MODULE PortalTrafficProofs -------------------------
(***************************************************************************)
(* For any number of Portals, events, calls and schedules: the program's   *)
(* callers use the account of EndpointTraffic as its Next allows, so all   *)
(* that EndpointTrafficProofs shows of the account holds for the program;  *)
(* a row with an event time has been accounted; a late event does not undo *)
(* an edit; and while Portals are only reported and deleted, no byte is    *)
(* counted twice and none a row gives up is lost.                          *)
(*                                                                         *)
(* The argument: whose the transaction is that holds the lock (OwnOK), and *)
(* that nothing bears a time still to come; that the account has seen what *)
(* is about to be written to a row (EditedOK); that a row is no younger    *)
(* than the events that may still overwrite it (OrderOK).  For the bytes:  *)
(* some history of what the Portals carried explains every sample and the  *)
(* total (HistoryOK), which stays below the largest number (Unsaturated);  *)
(* the books follow the cursors (BooksOK); and every report is news when   *)
(* the account gets it (FreshOK), so that what a row says is booked for    *)
(* its instance and run (RowsIn).  P is the account with what has been     *)
(* proved of it.                                                           *)
(***************************************************************************)
EXTENDS PortalLedger, FiniteSetTheorems, SequenceTheorems, TLAPS

P == INSTANCE EndpointTrafficProofs

CountsOK == \A i \in Insts : portal[i].count <= sent

\* No time is one to come.
RowsOK == \A i \in Insts :
    rows[i] # Nil => rows[i].event = Nil \/ rows[i].event <= now

StreamOK == \A k \in 1 .. Len(stream) : stream[k].at <= now

WorkerOK ==
    worker.pc # "idle" =>
        /\ worker.event \in Event /\ worker.event.at <= now
        /\ worker.event.kind # "shutdown"

ApiOK ==
    /\ api.at <= now
    /\ api.pc # "idle" => api.inst \in Insts /\ api.op \in Calls
    /\ api.pc \in {"observe", "observing"} => api.op \in {"update", "reset"}
    /\ api.pc = "write" => api.op \in {"update", "delete", "create"}
    /\ api.pc \in {"observe", "observing", "write"} =>
          api.seen[api.inst] \in 0 .. MaxBytes

\* Whose the transaction is.
OwnOK ==
    /\ worker.pc = "observing" =>
          /\ tx.op = "observe" /\ tx.sample = EventSample(worker.event)
          /\ api.pc # "observing"
    /\ api.pc = "observing" =>
          /\ tx.op = "observe" /\ tx.sample.inst = api.inst
          /\ tx.sample.at <= now
    /\ api.pc = "syncing" => tx.op = "sync"

Parts ==
    /\ portal \in [Insts -> [state : {"unborn", "up", "gone"},
                             count : 0 .. MaxBytes]]
    /\ sent \in 0 .. MaxBytes
    /\ told \in [Insts -> T!Time \cup {Nil}]
    /\ stream \in Seq(Event) /\ Len(stream) <= MaxQueue
    /\ worker \in [pc : {"idle", "observing", "insert", "update", "check",
                         "delete"}, event : Event \cup {Nil}]
    /\ api \in [pc : {"idle", "sync", "syncing", "call", "observe",
                      "observing", "write"},
                op : Calls \cup {"none"}, inst : Insts \cup {Nil},
                seen : [Insts -> (0 .. MaxBytes) \cup {Nil}], at : T!Time]
    /\ asof \in [Insts -> T!Time]
    /\ mix \in Mixes

Base ==
    /\ T!TypeOK /\ Parts /\ P!IInv
    /\ CountsOK /\ RowsOK /\ StreamOK /\ WorkerOK /\ ApiOK /\ OwnOK

-----------------------------------------------------------------------------
(* The account of the callers is the account of its own proofs. *)

LEMMA AccountConstants == P!TrafficAssumption /\ P!CalendarAssumption
BY AccountAssumption
   DEF T!TrafficAssumption, P!TrafficAssumption, T!CalendarAssumption,
       P!CalendarAssumption

LEMMA Numbers ==
    /\ MaxTime \in Nat /\ MaxBytes \in Nat /\ MaxQueue \in Nat /\ Nil \notin Int
    /\ T!Time = 0 .. MaxTime /\ Readings = 0 .. MaxBytes
    /\ \A m \in Mixes : m.time \in 0 .. MaxTime
BY AccountConstants, PortalAssumption DEF P!TrafficAssumption, T!Time

LEMMA SameTypes ==
    /\ T!Time = P!Time /\ T!Sample = P!Sample /\ T!Row = P!Row /\ T!Tx = P!Tx
    /\ T!NoTx = P!NoTx /\ T!Plan = P!Plan /\ T!Usage = P!Usage
    /\ T!Cursor = P!Cursor
    /\ T!TypeOK <=> P!TypeOK
BY DEF T!TypeOK, P!TypeOK, T!Time, P!Time, T!Usage, P!Usage, T!Count, P!Count,
       T!Cursor, P!Cursor, T!Row, P!Row, T!Tx, P!Tx, T!Sample, P!Sample,
       T!Plan, P!Plan, T!NoTx, P!NoTx

LEMMA SameTypesNext == P!TypeOK' => T!TypeOK'
BY DEF T!TypeOK, P!TypeOK, T!Time, P!Time, T!Usage, P!Usage, T!Count, P!Count,
       T!Cursor, P!Cursor, T!Row, P!Row, T!Tx, P!Tx, T!Sample, P!Sample,
       T!Plan, P!Plan, T!NoTx, P!NoTx

LEMMA SameOperations ==
    /\ \A u, t : T!ResetDue(u, t) = P!ResetDue(u, t)
    /\ \A w, s : T!Observed(w, s) = P!Observed(w, s)
    /\ \A w : T!Initialized(w) = P!Initialized(w)
    /\ \A u, p, t, b : T!Applied(u, p, t, b) = P!Applied(u, p, t, b)
    /\ T!Stored = P!Stored
BY DEF T!ResetDue, P!ResetDue, T!Observed, P!Observed, T!Initialized,
       P!Initialized, T!Applied, P!Applied, T!Stored, P!Stored, T!SampledAt,
       P!SampledAt, T!NextBoundary, P!NextBoundary, T!LastBoundary,
       P!LastBoundary, T!Add, P!Add, T!AtLeastZero, P!AtLeastZero,
       T!CounterDelta, P!CounterDelta

LEMMA SameSteps ==
    /\ T!Init <=> P!Init
    /\ [T!Next]_(T!vars) <=> [P!Next]_(P!vars)
BY SameTypes, SameOperations
   DEF T!Init, P!Init, T!Next, P!Next, T!vars, P!vars, T!BeginObserve,
       P!BeginObserve, T!BeginSync, P!BeginSync, T!BeginPlan, P!BeginPlan,
       T!Begin, P!Begin, T!SyncRow, P!SyncRow, T!Rollback, P!Rollback,
       T!Tick, P!Tick, T!CommitObserve, P!CommitObserve, T!CommitSync,
       P!CommitSync, T!CommitPlan, P!CommitPlan, T!Publish, P!Publish,
       T!RowsWritten, P!RowsWritten, T!OthersWrite, P!OthersWrite

-----------------------------------------------------------------------------
(* What a step writes, the account allows. *)

Written(i) ==
    /\ rows'[i] \in T!Row
    /\ rows'[i].updated = now /\ rows'[i].event \in {Nil} \cup 0 .. now

LEMMA RowsMayBe ==
    ASSUME T!TypeOK, rows' = [i \in Insts |-> rows'[i]],
           \A i \in Insts : rows'[i] \in {rows[i], Nil} \/ Written(i)
    PROVE  T!RowsWritten
<1>1. rows \in [Insts -> T!Row \cup {Nil}]
  BY DEF T!TypeOK
<1>2. \A i \in Insts : rows'[i] \in T!Row \cup {Nil}
  BY <1>1 DEF Written
<1>3. rows' \in [Insts -> T!Row \cup {Nil}]
  BY <1>2
<1>4. QED  BY <1>3 DEF T!RowsWritten, Written

LEMMA RowsUnchanged ==
    ASSUME T!TypeOK, rows' = rows
    PROVE  T!RowsWritten
BY RowsMayBe DEF T!TypeOK

\* One row is written.
LEMMA RowIsWritten ==
    ASSUME T!TypeOK, NEW i \in Insts, NEW r,
           rows' = [rows EXCEPT ![i] = r],
           \/ r = Nil
           \/ r \in T!Row /\ r.updated = now /\ r.event \in {Nil} \cup 0 .. now
    PROVE  T!RowsWritten
<1>1. rows = [j \in Insts |-> rows[j]]
  BY DEF T!TypeOK
<1>2. /\ rows' = [j \in Insts |-> rows'[j]]
      /\ \A j \in Insts : rows'[j] = IF j = i THEN r ELSE rows[j]
  BY <1>1
<1>3. \A j \in Insts : rows'[j] \in {rows[j], Nil} \/ Written(j)
  BY <1>2 DEF Written
<1>4. QED  BY <1>2, <1>3, RowsMayBe

\* A row as the worker and the API write it.
LEMMA RowIs ==
    ASSUME Base, NEW count \in 0 .. MaxBytes, NEW at \in {Nil} \cup 0 .. now
    PROVE  /\ [count |-> count, event |-> at, updated |-> now] \in T!Row
           /\ now \in T!Time /\ now \in Nat
<1>1. now \in T!Time /\ now \in Nat /\ 0 .. now \subseteq T!Time
  BY Numbers DEF Base, T!TypeOK
<1>2. QED  BY <1>1, Numbers DEF T!Row

AccountStep == [T!Next]_(T!vars)

LEMMA Rests ==
    ASSUME UNCHANGED <<now, usage, cursors, rows, tx>>
    PROVE  AccountStep
BY DEF AccountStep, T!vars

LEMMA RowsStep ==
    ASSUME T!RowsWritten, UNCHANGED <<now, usage, cursors, tx>>
    PROVE  AccountStep
BY DEF AccountStep, T!Next, T!OthersWrite

\* Only updated_at moves; a row's event time is not one to come.
LEMMA Touched ==
    ASSUME Base, NEW i \in Insts, rows[i] # Nil,
           rows' = [rows EXCEPT ![i].updated = now]
    PROVE  T!RowsWritten
<1>1. rows[i] \in T!Row /\ rows \in [Insts -> T!Row \cup {Nil}] /\ T!TypeOK
  BY DEF Base, T!TypeOK
<1>2. rows[i].event \in {Nil} \cup 0 .. now
  BY <1>1, Numbers DEF Base, RowsOK, T!Row, T!TypeOK
<1>3. rows' = [rows EXCEPT ![i] = [rows[i] EXCEPT !.updated = now]]
  BY <1>1
<1>4. QED  BY <1>1, <1>2, <1>3, RowIsWritten DEF T!Row, Base, T!TypeOK

\* The worker's steps.
LEMMA WorkerSteps ==
    ASSUME Base, WorkerStep
    PROVE  AccountStep
<1> DEFINE e == worker.event
<1>0. T!TypeOK /\ now \in T!Time /\ now \in Nat /\ now \in 0 .. now
  BY Numbers DEF Base, T!TypeOK
<1>1. CASE WorkerTake
  <2>1. Head(stream) \in Event
    BY <1>1 DEF WorkerTake, Base, Parts
  <2>2. EventSample(Head(stream)) \in T!Sample
    BY <2>1, Numbers DEF Event, EventSample, T!Sample
  <2>3. QED  BY <1>0, <1>1, <2>2 DEF WorkerTake, AccountStep, T!Next
<1>2. CASE WorkerObserved
  <2>1. rows' = rows /\ T!CommitObserve
    BY <1>2 DEF WorkerObserved
  <2>2. T!RowsWritten
    BY <1>0, <2>1, RowsUnchanged
  <2>3. QED  BY <2>1, <2>2 DEF AccountStep, T!Next
<1>3. CASE WorkerFails
  BY <1>3 DEF WorkerFails, AccountStep, T!Next
<1>4. CASE WorkerInsert \/ WorkerUpdate
  <2>1. worker.pc # "idle" /\ UNCHANGED <<now, usage, cursors, tx>>
    BY <1>4 DEF WorkerInsert, WorkerUpdate, Outside, account
  <2>2. e \in Event /\ e.at <= now
    BY <2>1 DEF Base, WorkerOK
  <2>3. e.inst \in Insts /\ e.count \in 0 .. MaxBytes /\ e.at \in 0 .. now
    BY <1>0, <2>2, Numbers DEF Event
  <2>4. rows' = rows \/ rows' = [rows EXCEPT ![e.inst] = EventRow(e)]
    BY <1>4 DEF WorkerInsert, WorkerUpdate
  <2> HIDE DEF e
  <2>5. EventRow(e) \in T!Row /\ EventRow(e).updated = now
        /\ EventRow(e).event \in {Nil} \cup 0 .. now
    BY <2>3, RowIs DEF EventRow
  <2>6. T!RowsWritten
    BY <1>0, <2>3, <2>4, <2>5, RowsUnchanged, RowIsWritten
  <2>7. QED  BY <2>1, <2>6, RowsStep
<1>5. CASE WorkerWriteFails \/ WorkerCheckDelete
  BY <1>5, Rests DEF WorkerWriteFails, WorkerCheckDelete, Outside, account
<1>6. CASE WorkerDelete
  <2>1. e.inst \in Insts
    BY <1>6 DEF WorkerDelete, Base, WorkerOK, Event
  <2>2. rows' = rows \/ rows' = [rows EXCEPT ![e.inst] = Nil]
    BY <1>6 DEF WorkerDelete
  <2>3. T!RowsWritten
    BY <1>0, <2>1, <2>2, RowsUnchanged, RowIsWritten
  <2>4. QED  BY <1>6, <2>3, RowsStep DEF WorkerDelete, Outside, account
<1>7. CASE WorkerShutdown
  <2>1. rows' = [i \in Insts |-> IF rows[i] = Nil THEN Nil
                                 ELSE [rows[i] EXCEPT !.event = now,
                                                      !.updated = now]]
    BY <1>7 DEF WorkerShutdown
  <2>2. \A i \in Insts : rows'[i] = Nil \/ Written(i)
    <3> SUFFICES ASSUME NEW i \in Insts, rows[i] # Nil PROVE Written(i)
      BY <2>1
    <3>1. rows[i] \in T!Row
      BY DEF Base, T!TypeOK
    <3>2. rows'[i] = [rows[i] EXCEPT !.event = now, !.updated = now]
      BY <2>1
    <3>3. QED  BY <1>0, <3>1, <3>2 DEF Written, T!Row
  <2>3. T!RowsWritten
    BY <1>0, <2>1, <2>2, RowsMayBe
  <2>4. QED  BY <1>7, <2>3, RowsStep DEF WorkerShutdown, Outside, account
<1>8. QED
  BY <1>1, <1>2, <1>3, <1>4, <1>5, <1>6, <1>7 DEF WorkerStep

LEMMA OverwriteWrites ==
    ASSUME Base, NEW i \in Insts, NEW count \in 0 .. MaxBytes,
           NEW at \in 0 .. now, Overwrite(i, count, at)
    PROVE  T!RowsWritten
<1>1. T!TypeOK
  BY DEF Base
<1>2. \/ rows' = rows
      \/ rows' = [rows EXCEPT ![i] = [count |-> count, event |-> at,
                                      updated |-> now]]
  BY DEF Overwrite
<1>3. QED  BY <1>1, <1>2, RowIs, RowsUnchanged, RowIsWritten

LEMMA ApiFacts ==
    ASSUME Base
    PROVE  /\ T!TypeOK /\ now \in Nat /\ now \in T!Time /\ now \in 0 .. now
           /\ api.at \in T!Time /\ api.at \in 0 .. now /\ 0 .. now \subseteq T!Time
           /\ api.pc # "idle" => api.inst \in Insts
           /\ api.pc \in {"observe", "observing", "write"} =>
                 api.seen[api.inst] \in 0 .. MaxBytes
<1>1. api.at \in T!Time /\ api.at <= now /\ now \in T!Time
  BY DEF Base, ApiOK, Parts, T!TypeOK
<1>2. QED  BY <1>1, Numbers DEF Base, ApiOK

LEMMA SampleTime ==
    ASSUME Base, api.pc = "observing"
    PROVE  tx.sample.at \in Int /\ tx.sample.at \in 0 .. now
<1>1. tx.op = "observe" /\ tx.sample.at <= now
  BY DEF Base, OwnOK
<1>2. tx # T!NoTx
  BY <1>1 DEF T!NoTx
<1>3. tx \in P!Tx /\ tx.sample \in P!Sample
  BY <1>1, <1>2, SameTypes DEF Base, T!TypeOK, P!IInv, P!CopyOK
<1>4. tx.sample.at \in T!Time
  BY <1>3, SameTypes DEF P!Sample
<1>5. QED  BY <1>1, <1>4, Numbers, ApiFacts

\* The API's steps.
LEMMA ApiSteps ==
    ASSUME Base, ApiStep
    PROVE  AccountStep
<1>1. CASE ApiSync
  BY <1>1, ApiFacts DEF ApiSync, AccountStep, T!Next
<1>2. CASE ApiSynced
  <2>1. T!RowsWritten
    BY <1>2, ApiFacts, RowsUnchanged DEF ApiSynced
  <2>2. QED  BY <1>2, <2>1 DEF ApiSynced, AccountStep, T!Next
<1>3. CASE ApiCall
  BY <1>3, Rests DEF ApiCall, Elsewhere, account
<1>4. CASE ApiObserve
  <2>1. PICK at \in api.at .. now :
           T!BeginObserve([inst |-> api.inst, at |-> at,
                           count |-> api.seen[api.inst]], now)
    BY <1>4 DEF ApiObserve
  <2>2. [inst |-> api.inst, at |-> at, count |-> api.seen[api.inst]]
           \in T!Sample
    <3>1. at \in T!Time
      BY ApiFacts, Numbers
    <3>2. QED  BY <1>4, <3>1, ApiFacts, Numbers DEF ApiObserve, T!Sample
  <2>3. QED  BY <2>1, <2>2, ApiFacts DEF AccountStep, T!Next
<1>5. CASE ApiObserved
  <2>1. api.pc = "observing" /\ T!CommitObserve
    BY <1>5 DEF ApiObserved
  <2>2. tx.sample.at \in 0 .. now
    BY <2>1, SampleTime
  <2>3. 0 \in 0 .. MaxBytes
    BY Numbers
  <2>4. rows' = rows \/ Overwrite(api.inst, 0, tx.sample.at)
    BY <1>5 DEF ApiObserved
  <2>5. T!RowsWritten
    BY <2>1, <2>2, <2>3, <2>4, ApiFacts, OverwriteWrites, RowsUnchanged
  <2>6. QED  BY <2>1, <2>5 DEF AccountStep, T!Next
<1>6. CASE ApiWrite
  <2>1. api.pc = "write" /\ api.inst \in Insts
        /\ api.seen[api.inst] \in 0 .. MaxBytes
    BY <1>6, ApiFacts DEF ApiWrite
  <2>2. \/ Overwrite(api.inst, api.seen[api.inst], api.at)
        \/ rows' = [rows EXCEPT ![api.inst] = Nil]
        \/ rows' = [rows EXCEPT ![api.inst] = [count |-> api.seen[api.inst],
                                               event |-> Nil, updated |-> now]]
        \/ /\ rows[api.inst] # Nil
           /\ rows' = [rows EXCEPT ![api.inst].updated = now]
    BY <1>6 DEF ApiWrite
  <2>3. T!RowsWritten
    <3>1. CASE Overwrite(api.inst, api.seen[api.inst], api.at)
      BY <2>1, <3>1, ApiFacts, OverwriteWrites
    <3>2. CASE rows' = [rows EXCEPT ![api.inst] = Nil]
      BY <2>1, <3>2, ApiFacts, RowIsWritten
    <3>3. CASE rows' = [rows EXCEPT ![api.inst] =
                           [count |-> api.seen[api.inst],
                            event |-> Nil, updated |-> now]]
      BY <2>1, <3>3, ApiFacts, RowIs, RowIsWritten
    <3>4. CASE /\ rows[api.inst] # Nil
               /\ rows' = [rows EXCEPT ![api.inst].updated = now]
      BY <2>1, <3>4, Touched
    <3>5. QED  BY <2>2, <3>1, <3>2, <3>3, <3>4
  <2>4. QED  BY <1>6, <2>3, RowsStep DEF ApiWrite, Elsewhere, account
<1>7. CASE ApiRefresh
  <2>1. T!CommitSync
    BY <1>7 DEF ApiRefresh
  <2>2. rows' = [i \in Insts |-> IF api.seen[i] = Nil THEN Nil
                                 ELSE [count |-> api.seen[i], event |-> Nil,
                                       updated |-> now]]
    BY <1>7 DEF ApiRefresh
  <2>3. \A i \in Insts : rows'[i] = Nil \/ Written(i)
    <3> SUFFICES ASSUME NEW i \in Insts, api.seen[i] # Nil PROVE Written(i)
      BY <2>2
    <3>1. api.seen[i] \in 0 .. MaxBytes
      BY DEF Base, Parts
    <3>2. QED  BY <2>2, <3>1, RowIs DEF Written
  <2>4. T!RowsWritten
    BY <2>2, <2>3, ApiFacts, RowsMayBe
  <2>5. QED  BY <2>1, <2>4 DEF AccountStep, T!Next
<1>8. CASE ApiFails
  BY <1>8, Rests DEF ApiFails, account, AccountStep, T!Next
<1>9. QED
  BY <1>1, <1>2, <1>3, <1>4, <1>5, <1>6, <1>7, <1>8 DEF ApiStep

\* The scheduler, OpenCtrl and the process itself.
LEMMA OtherSteps ==
    ASSUME Base,
           \/ SchedulerSync \/ SchedulerCommit \/ SchedulerFails \/ SyncRow
           \/ Lose \/ Tick \/ Crash
           \/ \E i \in Insts :
                 \/ Carry(i) \/ InstanceRestarts(i) \/ Report(i) \/ Shutdown(i)
                 \/ ApiTouch(i)
                 \/ \E op \in Calls : ApiStart(op, i)
    PROVE  AccountStep
<1>1. CASE SchedulerSync \/ SchedulerFails \/ SyncRow \/ Tick
  BY <1>1, ApiFacts
     DEF SchedulerSync, SchedulerFails, SyncRow, Tick, AccountStep, T!Next
<1>2. CASE SchedulerCommit
  <2>1. T!CommitSync /\ T!RowsWritten
    BY <1>2, ApiFacts, RowsUnchanged DEF SchedulerCommit
  <2>2. QED  BY <2>1 DEF AccountStep, T!Next
<1>3. CASE Crash
  <2>1. CASE tx = T!NoTx
    BY <1>3, <2>1, Rests DEF Crash
  <2>2. CASE tx # T!NoTx
    BY <1>3, <2>2 DEF Crash, T!Rollback, AccountStep, T!Next
  <2>3. QED  BY <2>1, <2>2
<1>4. CASE Lose \/ \E i \in Insts :
                      \/ Carry(i) \/ InstanceRestarts(i) \/ Report(i)
                      \/ Shutdown(i) \/ \E op \in Calls : ApiStart(op, i)
  BY <1>4, Rests DEF Lose, Carry, InstanceRestarts, Report, Shutdown, ApiStart,
                     Others, Elsewhere, account
<1>5. ASSUME NEW i \in Insts, ApiTouch(i) PROVE AccountStep
  <2>1. T!RowsWritten
    BY <1>5, Touched DEF ApiTouch
  <2>2. QED  BY <1>5, <2>1, RowsStep DEF ApiTouch, Elsewhere, account
<1>6. QED  BY <1>1, <1>2, <1>3, <1>4, <1>5

LEMMA EveryStep == Base /\ [Next]_vars => AccountStep
<1> SUFFICES ASSUME Base, [Next]_vars PROVE AccountStep
  OBVIOUS
<1>1. CASE UNCHANGED vars
  BY <1>1, Rests DEF vars
<1>2. QED
  BY <1>1, WorkerSteps, ApiSteps, OtherSteps DEF Next

\* The clock does not go back, and what is proved of the account goes on.
LEMMA AccountGoesOn ==
    ASSUME Base, AccountStep
    PROVE  /\ T!TypeOK' /\ P!IInv' /\ RowsOK'
           /\ now \in Nat /\ now' \in Nat /\ now' >= now /\ now' \in T!Time
<1>1. P!IInv'
  BY SameSteps, AccountConstants, P!NextIInv DEF Base, AccountStep
<1>2. T!TypeOK'
  BY <1>1, SameTypesNext DEF P!IInv
<1>3. now \in Nat /\ now' \in Nat /\ now' \in T!Time
  BY <1>2, Numbers DEF Base, T!TypeOK
<1>4. now' = now \/ (now' = now + 1 /\ rows' = rows)
  BY DEF AccountStep, T!Next, T!vars, T!BeginObserve, T!BeginSync, T!BeginPlan,
         T!Begin, T!SyncRow, T!Rollback, T!Tick, T!CommitObserve, T!CommitSync,
         T!CommitPlan, T!Publish, T!OthersWrite
<1>5. rows' = rows \/ T!RowsWritten
  BY DEF AccountStep, T!Next, T!vars, T!BeginObserve, T!BeginSync, T!BeginPlan,
         T!Begin, T!SyncRow, T!Rollback, T!Tick, T!OthersWrite
<1>6. \A i \in Insts : rows'[i] # Nil =>
         \/ rows'[i] = rows[i]
         \/ rows'[i].event \in {Nil} \cup 0 .. now
  BY <1>5 DEF T!RowsWritten
<1>7. now' >= now
  BY <1>3, <1>4
<1>8. RowsOK'
  <2> SUFFICES ASSUME NEW i \in Insts, rows'[i] # Nil
               PROVE  rows'[i].event = Nil \/ rows'[i].event <= now'
    BY DEF RowsOK
  <2>1. CASE rows'[i] = rows[i]
    <3>1. rows[i] \in T!Row /\ (rows[i].event = Nil \/ rows[i].event <= now)
      BY <2>1 DEF Base, RowsOK, T!TypeOK
    <3>2. rows[i].event = Nil \/ rows[i].event \in Nat
      BY <3>1, Numbers DEF T!Row
    <3>3. QED  BY <1>3, <1>7, <2>1, <3>1, <3>2
  <2>2. CASE rows'[i].event \in {Nil} \cup 0 .. now
    BY <1>3, <1>7, <2>2
  <2>3. QED  BY <1>6, <2>1, <2>2
<1>9. QED  BY <1>1, <1>2, <1>3, <1>7, <1>8

-----------------------------------------------------------------------------
(* Queues *)

LEMMA QueueTail ==
    ASSUME Base, stream # << >>
    PROVE  /\ Tail(stream) \in Seq(Event) /\ Len(Tail(stream)) <= MaxQueue
           /\ \A k \in 1 .. Len(Tail(stream)) :
                 /\ k + 1 \in 1 .. Len(stream)
                 /\ Tail(stream)[k] = stream[k + 1]
           /\ Head(stream) \in Event /\ Head(stream).at <= now
           /\ 1 \in 1 .. Len(stream) /\ Head(stream) = stream[1]
<1>1. stream \in Seq(Event) /\ Len(stream) <= MaxQueue
      /\ Len(stream) \in Nat /\ Len(stream) >= 1
  BY DEF Base, Parts
<1>2. Head(stream) = stream[1] /\ 1 \in 1 .. Len(stream)
      /\ stream[1] \in Event
  BY <1>1
<1>3. stream[1].at <= now
  BY <1>2 DEF Base, StreamOK
<1>4. /\ Tail(stream) \in Seq(Event) /\ Len(Tail(stream)) = Len(stream) - 1
      /\ \A k \in 1 .. Len(Tail(stream)) : Tail(stream)[k] = stream[k + 1]
  BY <1>1, HeadTailProperties
<1>5. QED  BY <1>1, <1>2, <1>3, <1>4, Numbers

LEMMA QueueAppend ==
    ASSUME Base, NEW e \in Event, Len(stream) < MaxQueue
    PROVE  /\ Append(stream, e) \in Seq(Event)
           /\ Len(Append(stream, e)) <= MaxQueue
           /\ \A k \in 1 .. Len(Append(stream, e)) :
                 \/ Append(stream, e)[k] = e
                 \/ k \in 1 .. Len(stream) /\ Append(stream, e)[k] = stream[k]
<1>1. stream \in Seq(Event) /\ Len(stream) \in Nat /\ MaxQueue \in Nat
  BY Numbers DEF Base, Parts
<1>2. Append(stream, e) \in Seq(Event) /\ Len(Append(stream, e)) = Len(stream) + 1
  BY <1>1
<1>3. ASSUME NEW k \in 1 .. Len(Append(stream, e)), k # Len(stream) + 1
      PROVE  k \in 1 .. Len(stream) /\ Append(stream, e)[k] = stream[k]
  BY <1>1, <1>2, <1>3
<1>4. Append(stream, e)[Len(stream) + 1] = e
  BY <1>1
<1>5. QED  BY <1>1, <1>2, <1>3, <1>4

LEMMA QueueStart ==
    ASSUME Base, NEW n \in 0 .. Len(stream) - 1
    PROVE  /\ SubSeq(stream, 1, n) \in Seq(Event)
           /\ Len(SubSeq(stream, 1, n)) <= MaxQueue
           /\ \A k \in 1 .. Len(SubSeq(stream, 1, n)) :
                 k \in 1 .. Len(stream) /\ SubSeq(stream, 1, n)[k] = stream[k]
BY Numbers DEF Base, Parts

-----------------------------------------------------------------------------
(* The callers' own state. *)

\* What each step has to leave; the account's part is AccountGoesOn.
CallersOK ==
    /\ Parts /\ CountsOK /\ StreamOK /\ WorkerOK /\ ApiOK /\ OwnOK

\* OpenCtrl.
LEMMA PortalKeeps ==
    ASSUME Base, NEW i \in Insts, Carry(i) \/ InstanceRestarts(i)
    PROVE  CallersOK'
<1>1. /\ portal \in [Insts -> [state : {"unborn", "up", "gone"},
                               count : 0 .. MaxBytes]]
      /\ sent \in 0 .. MaxBytes /\ MaxBytes \in Nat
      /\ \A j \in Insts : portal[j].count <= sent
  BY Numbers DEF Base, Parts, CountsOK
<1> DEFINE n == IF Carry(i) THEN portal[i].count + 1 ELSE 0
<1>2. /\ sent' \in 0 .. MaxBytes /\ sent' >= sent
      /\ n \in 0 .. MaxBytes /\ n <= sent'
  <2>1. CASE Carry(i)
    <3>1. portal[i].count + 1 \in 0 .. MaxBytes
          /\ portal[i].count + 1 <= sent + 1 /\ sent + 1 \in 0 .. MaxBytes
      BY <1>1, <2>1 DEF Carry
    <3>2. sent' = sent + 1 /\ n = portal[i].count + 1
      BY <2>1 DEF Carry
    <3>3. QED  BY <1>1, <3>1, <3>2
  <2>2. CASE ~Carry(i)
    <3>1. sent' = sent /\ n = 0
      BY <2>2 DEF InstanceRestarts
    <3>2. QED  BY <1>1, <3>1
  <2>3. QED  BY <2>1, <2>2
<1>3. portal' = [portal EXCEPT ![i].count = n]
  <2>1. CASE Carry(i)
    BY <2>1 DEF Carry
  <2>2. CASE ~Carry(i)
    BY <2>2 DEF InstanceRestarts
  <2>3. QED  BY <2>1, <2>2
<1> HIDE DEF n
<1>4. /\ portal' \in [Insts -> [state : {"unborn", "up", "gone"},
                                count : 0 .. MaxBytes]]
      /\ \A j \in Insts : portal'[j].count = IF j = i THEN n
                                             ELSE portal[j].count
  BY <1>1, <1>2, <1>3
<1>5. CountsOK'
  BY <1>1, <1>2, <1>3, <1>4 DEF CountsOK
<1>6. UNCHANGED <<now, told, stream, worker, api, tx, asof, mix>>
  BY DEF Carry, InstanceRestarts, Others
<1>7. Parts'
  BY <1>2, <1>4, <1>6 DEF Base, Parts
<1>8. StreamOK' /\ WorkerOK' /\ ApiOK' /\ OwnOK'
  BY <1>6 DEF Base, StreamOK, WorkerOK, ApiOK, OwnOK
<1>9. QED  BY <1>5, <1>7, <1>8 DEF CallersOK

LEMMA EmitKeeps ==
    ASSUME Base, NEW i \in Insts, NEW kind \in {"report", "delete", "shutdown"},
           Len(stream) < MaxQueue, Emit(kind, i)
    PROVE  /\ stream' \in Seq(Event) /\ Len(stream') <= MaxQueue
           /\ \A k \in 1 .. Len(stream') : stream'[k].at <= now
           /\ \A k \in 1 .. Len(stream') :
                 \/ stream'[k] = [kind |-> kind, inst |-> i, at |-> now,
                                  count |-> portal[i].count]
                 \/ k \in 1 .. Len(stream) /\ stream'[k] = stream[k]
<1> DEFINE e == [kind |-> kind, inst |-> i, at |-> now,
                 count |-> portal[i].count]
<1>1. now \in T!Time /\ now \in Nat /\ portal[i].count \in 0 .. MaxBytes
  BY ApiFacts DEF Base, Parts
<1>2. e \in Event /\ e.at = now
  BY <1>1 DEF Event
<1>3. stream' = Append(stream, e)
  BY DEF Emit
<1> HIDE DEF e
<1>4. QED
  BY <1>1, <1>2, <1>3, QueueAppend DEF Base, StreamOK, e

LEMMA StreamKeeps ==
    ASSUME Base,
           Lose \/ \E i \in Insts : Report(i) \/ Shutdown(i)
    PROVE  CallersOK'
<1>1. UNCHANGED <<now, portal, sent, worker, api, tx, asof, mix>>
  BY DEF Lose, Report, Shutdown, Others
<1>2. told' \in [Insts -> T!Time \cup {Nil}]
  <2>1. told \in [Insts -> T!Time \cup {Nil}] /\ now \in T!Time
    BY ApiFacts DEF Base, Parts
  <2>2. CASE \E i \in Insts : Report(i)
    BY <2>1, <2>2 DEF Report
  <2>3. CASE Lose \/ \E i \in Insts : Shutdown(i)
    BY <2>1, <2>3 DEF Lose, Shutdown
  <2>4. QED  BY <2>2, <2>3
<1>3. /\ stream' \in Seq(Event) /\ Len(stream') <= MaxQueue
      /\ \A k \in 1 .. Len(stream') : stream'[k].at <= now
  <2>1. CASE \E i \in Insts : Report(i) \/ Shutdown(i)
    BY <2>1, EmitKeeps DEF Report, Shutdown
  <2>2. CASE Lose
    BY <2>2, QueueStart DEF Lose, Base, StreamOK
  <2>3. QED  BY <2>1, <2>2
<1>4. Parts' /\ StreamOK'
  BY <1>1, <1>2, <1>3 DEF Base, Parts, StreamOK
<1>5. CountsOK' /\ WorkerOK' /\ ApiOK' /\ OwnOK'
  BY <1>1 DEF Base, CountsOK, WorkerOK, ApiOK, OwnOK
<1>6. QED  BY <1>4, <1>5 DEF CallersOK

\* Time, touched rows, a crash and the start of a call.
LEMMA TickKeeps ==
    ASSUME Base, Tick
    PROVE  CallersOK'
<1>1. UNCHANGED <<portal, sent, told, stream, worker, api, tx, asof, mix>>
      /\ now' = now + 1
  BY DEF Tick, T!Tick
<1>2. now \in Nat /\ api.at \in Int
      /\ \A e \in Event : e.at \in Int
  BY ApiFacts, Numbers DEF Event
<1>3. Parts' /\ CountsOK'
  BY <1>1 DEF Base, Parts, CountsOK
<1>4. StreamOK'
  <2>1. \A k \in 1 .. Len(stream) : stream[k] \in Event
    BY DEF Base, Parts
  <2>2. QED  BY <1>1, <1>2, <2>1 DEF Base, StreamOK
<1>5. WorkerOK' /\ ApiOK'
  BY <1>1, <1>2 DEF Base, WorkerOK, ApiOK
<1>6. OwnOK'
  <2>1. api.pc = "observing" => tx.sample.at \in Int
    BY SampleTime
  <2>2. QED  BY <1>1, <1>2, <2>1 DEF Base, OwnOK
<1>7. QED  BY <1>3, <1>4, <1>5, <1>6 DEF CallersOK

LEMMA TouchKeeps ==
    ASSUME Base, NEW i \in Insts, ApiTouch(i)
    PROVE  CallersOK'
<1>1. UNCHANGED <<now, portal, sent, told, stream, worker, api, tx, asof, mix>>
  BY DEF ApiTouch, Elsewhere, account
<1>2. QED
  BY <1>1 DEF Base, CallersOK, Parts, CountsOK, StreamOK, WorkerOK, ApiOK,
              OwnOK

LEMMA NoCallFacts ==
    /\ 0 \in T!Time /\ NoCall.at = 0 /\ NoCall.pc = "idle"
    /\ NoCall \in [pc : {"idle", "sync", "syncing", "call", "observe",
                         "observing", "write"},
                   op : Calls \cup {"none"}, inst : Insts \cup {Nil},
                   seen : [Insts -> (0 .. MaxBytes) \cup {Nil}], at : T!Time]
BY Numbers DEF NoCall

LEMMA CrashKeeps ==
    ASSUME Base, Crash
    PROVE  CallersOK'
<1>1. /\ stream' = << >> /\ worker' = [pc |-> "idle", event |-> Nil]
      /\ api' = NoCall
      /\ UNCHANGED <<now, portal, sent, told, asof, mix>>
  BY DEF Crash, WorkerIdle
<1>2. now \in Nat /\ << >> \in Seq(Event) /\ Len(<< >>) = 0
  BY ApiFacts
<1>3. Parts'
  BY <1>1, <1>2, NoCallFacts, Numbers DEF Base, Parts
<1>4. CountsOK' /\ StreamOK' /\ WorkerOK' /\ ApiOK' /\ OwnOK'
  BY <1>1, <1>2, NoCallFacts DEF Base, CountsOK, StreamOK, WorkerOK, ApiOK, OwnOK
<1>5. QED  BY <1>3, <1>4 DEF CallersOK

LEMMA StartKeeps ==
    ASSUME Base, NEW i \in Insts, NEW op \in Calls, ApiStart(op, i)
    PROVE  CallersOK'
<1> DEFINE pc == IF op \in {"create", "refresh"} THEN "call" ELSE "sync"
<1>1. /\ api' = [NoCall EXCEPT !.op = op, !.inst = i, !.pc = pc]
      /\ UNCHANGED <<now, portal, sent, told, stream, worker, tx, asof, mix>>
  BY DEF ApiStart, Elsewhere, account
<1>2. /\ api' \in [pc : {"idle", "sync", "syncing", "call", "observe",
                         "observing", "write"},
                   op : Calls \cup {"none"}, inst : Insts \cup {Nil},
                   seen : [Insts -> (0 .. MaxBytes) \cup {Nil}], at : T!Time]
      /\ api'.pc \in {"call", "sync"} /\ api'.op = op /\ api'.inst = i
      /\ api'.at = 0
  BY <1>1, NoCallFacts
<1>3. Parts'
  BY <1>1, <1>2 DEF Base, Parts
<1>4. now \in Nat
  BY ApiFacts
<1>5. CountsOK' /\ StreamOK' /\ WorkerOK' /\ ApiOK' /\ OwnOK'
  BY <1>1, <1>2, <1>4 DEF Base, CountsOK, StreamOK, WorkerOK, ApiOK, OwnOK
<1>6. QED  BY <1>3, <1>5 DEF CallersOK

-----------------------------------------------------------------------------
(* Whose transaction begins, ends or goes on. *)

LEMMA ObserveBegins ==
    ASSUME NEW s, NEW t, T!BeginObserve(s, t)
    PROVE  /\ tx = T!NoTx /\ tx.op = "none" /\ tx'.op = "observe"
           /\ tx'.sample = s /\ UNCHANGED <<now, usage, cursors, rows>>
BY DEF T!BeginObserve, T!Begin, T!NoTx

LEMMA SyncBegins ==
    ASSUME NEW t, T!BeginSync(t)
    PROVE  /\ tx = T!NoTx /\ tx.op = "none" /\ tx'.op = "sync"
           /\ UNCHANGED <<now, usage, cursors, rows>>
BY DEF T!BeginSync, T!Begin, T!NoTx

LEMMA TransactionEnds ==
    /\ T!CommitObserve => tx.op = "observe" /\ UNCHANGED now
    /\ T!CommitSync => tx.op = "sync" /\ UNCHANGED now
    /\ T!Rollback => UNCHANGED <<now, usage, cursors, rows>>
BY DEF T!CommitObserve, T!CommitSync, T!Rollback, T!Publish

\* Nobody has a transaction of the other kind.
LEMMA Owner ==
    ASSUME Base
    PROVE  /\ worker.pc = "observing" =>
                 tx.op = "observe" /\ ~ApiOwns
           /\ ApiOwns => worker.pc # "observing"
           /\ tx.op = "none" => worker.pc # "observing" /\ ~ApiOwns
           /\ tx.op = "sync" => worker.pc # "observing"
                                /\ api.pc # "observing"
BY DEF Base, OwnOK, ApiOwns

LEMMA SyncRowKeepsOp ==
    ASSUME Base, T!SyncRow
    PROVE  tx'.op = tx.op /\ tx'.sample = tx.sample /\ UNCHANGED now
<1>1. tx \in P!Tx /\ tx.usage.used <= tx.usage.total
  BY SameTypes
     DEF T!SyncRow, Base, T!TypeOK, P!IInv, P!UsedWithinTotal
<1>2. PICK s \in tx.todo : tx' = [T!Observed(tx, s) EXCEPT !.todo = @ \ {s}]
  BY DEF T!SyncRow
<1> DEFINE w == P!Observed(tx, s)
<1>3. s \in P!Sample
  BY <1>1, <1>2 DEF P!Tx
<1>4. w \in P!Tx /\ w.op = tx.op /\ w.sample = tx.sample
  BY <1>1, <1>3, AccountConstants, P!ObservedFacts
<1>5. tx' = [w EXCEPT !.todo = @ \ {s}]
  BY <1>2, SameOperations
<1> HIDE DEF w
<1>6. tx'.op = w.op /\ tx'.sample = w.sample
  BY <1>4, <1>5 DEF P!Tx
<1>7. QED  BY <1>4, <1>6 DEF T!SyncRow

LEMMA SchedulerKeeps ==
    ASSUME Base,
           SchedulerSync \/ SchedulerCommit \/ SchedulerFails \/ SyncRow
    PROVE  CallersOK'
<1>1. UNCHANGED <<portal, sent, told, stream, worker, api, asof, mix>>
  BY DEF SchedulerSync, SchedulerCommit, SchedulerFails, SyncRow, Unmoved
<1>2. UNCHANGED now
  BY SyncBegins, TransactionEnds, SyncRowKeepsOp
     DEF SchedulerSync, SchedulerCommit, SchedulerFails, SyncRow
<1>3. Parts' /\ CountsOK' /\ StreamOK' /\ WorkerOK' /\ ApiOK'
  BY <1>1, <1>2 DEF Base, Parts, CountsOK, StreamOK, WorkerOK, ApiOK
<1>4. OwnOK'
  <2>1. CASE SyncRow
    <3>1. tx'.op = tx.op /\ tx'.sample = tx.sample
      BY <2>1, SyncRowKeepsOp DEF SyncRow
    <3>2. QED  BY <1>1, <1>2, <3>1 DEF Base, OwnOK, EventSample
  <2>2. CASE SchedulerSync \/ SchedulerCommit \/ SchedulerFails
    <3>1. worker.pc # "observing" /\ ~ApiOwns
      BY <2>2, Owner, SyncBegins, TransactionEnds
         DEF SchedulerSync, SchedulerCommit, SchedulerFails
    <3>2. QED  BY <1>1, <3>1 DEF OwnOK, ApiOwns
  <2>3. QED  BY <2>1, <2>2
<1>5. QED  BY <1>3, <1>4 DEF CallersOK

-----------------------------------------------------------------------------
(* The worker's steps. *)

LEMMA WorkerTakeKeeps ==
    ASSUME Base, WorkerTake
    PROVE  CallersOK'
<1> DEFINE e == Head(stream)
<1>1. /\ stream' = Tail(stream) /\ worker' = [pc |-> "observing", event |-> e]
      /\ e.kind # "shutdown" /\ stream # << >>
      /\ T!BeginObserve(EventSample(e), now)
      /\ UNCHANGED <<portal, sent, told, api, asof, mix>>
  BY DEF WorkerTake
<1>2. /\ UNCHANGED now /\ tx'.op = "observe" /\ tx'.sample = EventSample(e)
      /\ ~ApiOwns
  BY <1>1, ObserveBegins, Owner
<1>3. /\ Tail(stream) \in Seq(Event) /\ Len(Tail(stream)) <= MaxQueue
      /\ e \in Event /\ e.at <= now
      /\ \A k \in 1 .. Len(Tail(stream)) : Tail(stream)[k].at <= now
  BY <1>1, QueueTail DEF Base, StreamOK
<1> HIDE DEF e
<1>4. Parts'
  BY <1>1, <1>2, <1>3 DEF Base, Parts
<1>5. StreamOK' /\ CountsOK' /\ WorkerOK' /\ ApiOK'
  BY <1>1, <1>2, <1>3 DEF Base, StreamOK, CountsOK, WorkerOK, ApiOK
<1>6. OwnOK'
  BY <1>1, <1>2 DEF OwnOK, ApiOwns
<1>7. QED  BY <1>4, <1>5, <1>6 DEF CallersOK

LEMMA WorkerShutdownKeeps ==
    ASSUME Base, WorkerShutdown
    PROVE  CallersOK'
<1>1. /\ stream' = Tail(stream) /\ stream # << >>
      /\ UNCHANGED <<now, portal, sent, told, worker, api, tx, asof, mix>>
  BY DEF WorkerShutdown, Outside, account
<1>2. /\ Tail(stream) \in Seq(Event) /\ Len(Tail(stream)) <= MaxQueue
      /\ \A k \in 1 .. Len(Tail(stream)) : Tail(stream)[k].at <= now
  BY <1>1, QueueTail DEF Base, StreamOK
<1>3. Parts'
  BY <1>1, <1>2 DEF Base, Parts
<1>4. StreamOK' /\ CountsOK' /\ WorkerOK' /\ ApiOK' /\ OwnOK'
  BY <1>1, <1>2 DEF Base, StreamOK, CountsOK, WorkerOK, ApiOK, OwnOK
<1>5. QED  BY <1>3, <1>4 DEF CallersOK

\* Any other step moves the worker on, or lets it go.
LEMMA WorkerMoves ==
    ASSUME Base,
           \/ WorkerObserved \/ WorkerFails \/ WorkerInsert \/ WorkerUpdate
           \/ WorkerWriteFails \/ WorkerCheckDelete \/ WorkerDelete
    PROVE  /\ UNCHANGED <<now, portal, sent, told, stream, api, mix>>
           /\ worker.pc # "idle"
           /\ \/ WorkerIdle
              \/ WorkerAt("insert") \/ WorkerAt("check") \/ WorkerAt("update")
              \/ WorkerAt("delete")
           /\ \/ UNCHANGED asof
              \/ asof' = [asof EXCEPT ![worker.event.inst] = worker.event.at]
           /\ worker.pc = "observing" \/ UNCHANGED tx
<1>1. CASE WorkerObserved
  BY <1>1 DEF WorkerObserved, Outside
<1>2. CASE WorkerFails
  BY <1>2, TransactionEnds DEF WorkerFails
<1>3. CASE WorkerInsert \/ WorkerUpdate
  BY <1>3 DEF WorkerInsert, WorkerUpdate, Outside, account
<1>4. CASE WorkerWriteFails \/ WorkerCheckDelete \/ WorkerDelete
  BY <1>4 DEF WorkerWriteFails, WorkerCheckDelete, WorkerDelete, Outside, account
<1>5. QED  BY <1>1, <1>2, <1>3, <1>4

LEMMA WorkerMovesKeeps ==
    ASSUME Base,
           \/ WorkerObserved \/ WorkerFails \/ WorkerInsert \/ WorkerUpdate
           \/ WorkerWriteFails \/ WorkerCheckDelete \/ WorkerDelete
    PROVE  CallersOK'
<1> DEFINE e == worker.event
<1>1. /\ UNCHANGED <<now, portal, sent, told, stream, api, mix>>
      /\ worker.pc # "idle"
      /\ \/ WorkerIdle
         \/ WorkerAt("insert") \/ WorkerAt("check") \/ WorkerAt("update")
         \/ WorkerAt("delete")
      /\ UNCHANGED asof \/ asof' = [asof EXCEPT ![e.inst] = e.at]
      /\ worker.pc = "observing" \/ UNCHANGED tx
  BY WorkerMoves
<1>2. e \in Event /\ e.at <= now /\ e.kind # "shutdown" /\ e.at \in T!Time
  BY <1>1 DEF Base, WorkerOK, Event
<1>3. /\ worker' \in [pc : {"idle", "insert", "update", "check", "delete"},
                      event : Event \cup {Nil}]
      /\ worker'.pc # "idle" => worker'.event = e
  <2>1. worker \in [pc : {"idle", "observing", "insert", "update", "check",
                          "delete"}, event : Event \cup {Nil}]
    BY DEF Base, Parts
  <2>2. QED  BY <1>1, <2>1 DEF WorkerIdle, WorkerAt
<1>4. asof' \in [Insts -> T!Time]
  BY <1>1, <1>2 DEF Base, Parts
<1>5. Parts'
  BY <1>1, <1>3, <1>4 DEF Base, Parts
<1>6. StreamOK' /\ CountsOK' /\ WorkerOK' /\ ApiOK'
  BY <1>1, <1>2, <1>3 DEF Base, StreamOK, CountsOK, WorkerOK, ApiOK
<1>7. OwnOK'
  <2>1. worker'.pc # "observing"
    BY <1>3
  <2>2. CASE UNCHANGED tx
    BY <1>1, <2>1, <2>2 DEF Base, OwnOK
  <2>3. CASE worker.pc = "observing"
    BY <1>1, <2>1, <2>3, Owner DEF OwnOK, ApiOwns
  <2>4. QED  BY <1>1, <2>2, <2>3
<1>8. QED  BY <1>5, <1>6, <1>7 DEF CallersOK

-----------------------------------------------------------------------------
(* The API's steps. *)

ApiType ==
    [pc : {"idle", "sync", "syncing", "call", "observe", "observing", "write"},
     op : Calls \cup {"none"}, inst : Insts \cup {Nil},
     seen : [Insts -> (0 .. MaxBytes) \cup {Nil}], at : T!Time]

\* A step that ends the call.
LEMMA CallEnds ==
    ASSUME Base, api' = NoCall,
           UNCHANGED <<now, portal, sent, told, stream, worker, mix>>,
           asof' \in [Insts -> T!Time],
           UNCHANGED tx \/ ApiOwns
    PROVE  CallersOK'
<1>1. Parts'
  BY NoCallFacts DEF Base, Parts
<1>2. StreamOK' /\ CountsOK' /\ WorkerOK'
  BY DEF Base, StreamOK, CountsOK, WorkerOK
<1>3. ApiOK'
  BY NoCallFacts, ApiFacts DEF ApiOK
<1>4. OwnOK'
  BY NoCallFacts, Owner DEF Base, OwnOK
<1>5. QED  BY <1>1, <1>2, <1>3, <1>4 DEF CallersOK

LEMMA OverwriteAsof ==
    ASSUME Base, NEW i \in Insts, NEW count, NEW at \in 0 .. now,
           Overwrite(i, count, at)
    PROVE  asof' \in [Insts -> T!Time]
BY ApiFacts DEF Overwrite, Base, Parts

LEMMA ApiEndsKeeps ==
    ASSUME Base,
           \/ ApiWrite \/ ApiRefresh \/ ApiFails
           \/ ApiObserved /\ api.op = "reset"
    PROVE  CallersOK'
<1>1. asof \in [Insts -> T!Time] /\ api \in ApiType
  BY DEF Base, Parts, ApiType
<1>2. CASE ApiWrite
  <2>1. api.inst \in Insts /\ api.at \in 0 .. now /\ api.at \in T!Time
    BY <1>2, ApiFacts DEF ApiWrite
  <2>2. asof' \in [Insts -> T!Time]
    BY <1>1, <1>2, <2>1, OverwriteAsof DEF ApiWrite
  <2>3. QED
    BY <1>2, <2>2, CallEnds DEF ApiWrite, Elsewhere, account
<1>3. CASE ApiRefresh
  <2>1. asof' \in [Insts -> T!Time]
    BY <1>1, <1>3, ApiFacts DEF ApiRefresh
  <2>2. ApiOwns
    BY <1>3 DEF ApiRefresh, ApiOwns
  <2>3. QED
    BY <1>3, <2>1, <2>2, CallEnds, TransactionEnds DEF ApiRefresh, Elsewhere
<1>4. CASE ApiFails
  BY <1>1, <1>4, CallEnds, TransactionEnds DEF ApiFails, account
<1>5. CASE ApiObserved /\ api.op = "reset"
  <2>1. api.pc = "observing" /\ api' = NoCall /\ T!CommitObserve
        /\ Overwrite(api.inst, 0, tx.sample.at)
        /\ UNCHANGED <<sent, told, worker, mix, portal, stream>>
    BY <1>5 DEF ApiObserved, Elsewhere
  <2>2. tx.sample.at \in 0 .. now /\ api.inst \in Insts
    BY <2>1, SampleTime, ApiFacts
  <2>3. asof' \in [Insts -> T!Time] /\ ApiOwns
    BY <2>1, <2>2, OverwriteAsof DEF ApiOwns
  <2>4. QED  BY <2>1, <2>3, CallEnds, TransactionEnds
<1>6. QED  BY <1>2, <1>3, <1>4, <1>5

\* A step that leaves OpenCtrl alone and goes on with the call.
LEMMA CallGoesOn ==
    ASSUME Base, api.pc # "idle",
           NEW pc \in {"sync", "syncing", "call", "observe", "observing",
                       "write"},
           NEW at \in 0 .. now,
           api' = [api EXCEPT !.pc = pc, !.at = at],
           pc \in {"observe", "observing"} => api.op \in {"update", "reset"},
           pc = "write" => api.op \in {"update", "delete", "create"},
           pc \in {"observe", "observing", "write"} =>
              api.seen[api.inst] \in 0 .. MaxBytes,
           UNCHANGED <<now, portal, sent, told, stream, worker, mix, asof>>,
           worker.pc # "observing",
           pc = "observing" => /\ tx'.op = "observe"
                               /\ tx'.sample.inst = api.inst
                               /\ tx'.sample.at <= now,
           pc = "syncing" => tx'.op = "sync"
    PROVE  CallersOK'
<1>1. api \in ApiType /\ at \in T!Time
  BY ApiFacts DEF Base, Parts, ApiType
<1>2. /\ api' \in ApiType /\ api'.pc = pc /\ api'.at = at /\ api'.op = api.op
      /\ api'.inst = api.inst /\ api'.seen = api.seen
  BY <1>1 DEF ApiType
<1>3. Parts'
  BY <1>2 DEF Base, Parts, ApiType
<1>4. StreamOK' /\ CountsOK' /\ WorkerOK'
  BY DEF Base, StreamOK, CountsOK, WorkerOK
<1>5. ApiOK'
  BY <1>2 DEF Base, ApiOK
<1>6. OwnOK'
  BY <1>2 DEF OwnOK
<1>7. QED  BY <1>3, <1>4, <1>5, <1>6 DEF CallersOK

LEMMA ApiGoesOnKeeps ==
    ASSUME Base,
           \/ ApiSync \/ ApiSynced \/ ApiObserve
           \/ ApiObserved /\ api.op = "update"
    PROVE  CallersOK'
<1>1. api \in ApiType /\ api.at \in 0 .. now
  BY ApiFacts DEF Base, Parts, ApiType
<1>2. \A pc : [api EXCEPT !.pc = pc] = [api EXCEPT !.pc = pc, !.at = api.at]
  BY <1>1 DEF ApiType
<1>3. CASE ApiSync
  <2>1. /\ api.pc = "sync" /\ tx'.op = "sync" /\ UNCHANGED now
        /\ worker.pc # "observing"
        /\ api' = [api EXCEPT !.pc = "syncing", !.at = api.at]
        /\ UNCHANGED <<portal, sent, told, stream, worker, asof, mix>>
    BY <1>2, <1>3, SyncBegins, Owner DEF ApiSync, ApiAt
  <2>2. QED  BY <1>1, <2>1, CallGoesOn
<1>4. CASE ApiSynced
  <2>1. /\ api.pc = "syncing" /\ UNCHANGED now /\ worker.pc # "observing"
        /\ api' = [api EXCEPT !.pc = "call", !.at = api.at]
        /\ UNCHANGED <<portal, sent, told, stream, worker, asof, mix>>
    BY <1>2, <1>4, TransactionEnds, Owner DEF ApiSynced, ApiAt, Elsewhere
  <2>2. QED  BY <1>1, <2>1, CallGoesOn
<1>5. CASE ApiObserve
  <2>1. PICK at \in api.at .. now :
           T!BeginObserve([inst |-> api.inst, at |-> at,
                           count |-> api.seen[api.inst]], now)
    BY <1>5 DEF ApiObserve
  <2> DEFINE s == [inst |-> api.inst, at |-> at, count |-> api.seen[api.inst]]
  <2>2. s.inst = api.inst /\ s.at <= now
    BY <1>1, <2>1, ApiFacts
  <2> HIDE DEF s
  <2>3. /\ tx'.op = "observe" /\ tx'.sample = s /\ UNCHANGED now
        /\ worker.pc # "observing"
    BY <2>1, ObserveBegins, Owner DEF s
  <2>4. /\ api.pc = "observe"
        /\ api' = [api EXCEPT !.pc = "observing", !.at = api.at]
        /\ UNCHANGED <<portal, sent, told, stream, worker, asof, mix>>
    BY <1>2, <1>5 DEF ApiObserve, ApiAt
  <2>5. api.op \in {"update", "reset"} /\ api.seen[api.inst] \in 0 .. MaxBytes
    BY <2>4 DEF Base, ApiOK
  <2>6. QED  BY <1>1, <2>2, <2>3, <2>4, <2>5, CallGoesOn
<1>6. CASE ApiObserved /\ api.op = "update"
  <2>1. /\ api.pc = "observing" /\ T!CommitObserve /\ api.op = "update"
        /\ api' = [api EXCEPT !.pc = "write", !.at = tx.sample.at]
        /\ UNCHANGED <<portal, sent, told, stream, worker, asof, mix>>
    BY <1>6 DEF ApiObserved, Elsewhere
  <2>2. UNCHANGED now /\ worker.pc # "observing" /\ tx.sample.at \in 0 .. now
        /\ api.seen[api.inst] \in 0 .. MaxBytes
    BY <2>1, TransactionEnds, Owner, SampleTime, ApiFacts DEF ApiOwns
  <2>3. QED  BY <2>1, <2>2, CallGoesOn
<1>7. QED  BY <1>3, <1>4, <1>5, <1>6

LEMMA ApiCallKeeps ==
    ASSUME Base, ApiCall
    PROVE  CallersOK'
<1> DEFINE i == api.inst
           seen == IF api.op = "refresh"
                   THEN [j \in Insts |-> IF portal[j].state = "up"
                                         THEN portal[j].count ELSE Nil]
                   ELSE [NoCall.seen EXCEPT ![i] = IF api.op = "reset" THEN 0
                                                   ELSE portal[i].count]
           pc == CASE api.op \in {"create", "delete"} -> "write"
                   [] api.op \in {"update", "reset"} -> "observe"
                   [] OTHER -> "sync"
<1>1. /\ api.pc = "call" /\ i \in Insts /\ api.op \in Calls
      /\ api \in ApiType /\ now \in T!Time /\ now \in Nat
  BY ApiFacts DEF ApiCall, Base, ApiOK, Parts, ApiType
<1>2. portal \in [Insts -> [state : {"unborn", "up", "gone"},
                            count : 0 .. MaxBytes]]
      /\ sent \in Nat /\ 0 \in 0 .. MaxBytes
  BY Numbers DEF Base, Parts
<1>3. /\ api' = [api EXCEPT !.seen = seen, !.at = now, !.pc = pc]
      /\ UNCHANGED <<now, sent, told, worker, tx, asof, mix>>
  BY DEF ApiCall, Elsewhere, account
<1>4. /\ seen \in [Insts -> (0 .. MaxBytes) \cup {Nil}]
      /\ api.op # "refresh" => seen[i] \in 0 .. MaxBytes
  <2>1. CASE api.op = "refresh"
    BY <1>2, <2>1
  <2>2. CASE api.op # "refresh"
    <3>1. NoCall.seen \in [Insts -> (0 .. MaxBytes) \cup {Nil}]
      BY NoCallFacts
    <3>2. (IF api.op = "reset" THEN 0 ELSE portal[i].count) \in 0 .. MaxBytes
      BY <1>1, <1>2
    <3>3. QED  BY <1>1, <2>2, <3>1, <3>2
  <2>3. QED  BY <2>1, <2>2
<1>5. /\ pc \in {"write", "observe", "sync"}
      /\ pc = "write" => api.op \in {"create", "delete"}
      /\ pc = "observe" => api.op \in {"update", "reset"}
      /\ pc # "sync" => api.op # "refresh"
  BY <1>1 DEF Calls
<1> HIDE DEF seen, pc
<1>6. /\ api' \in ApiType /\ api'.pc = pc /\ api'.at = now /\ api'.op = api.op
      /\ api'.inst = i /\ api'.seen = seen
  BY <1>1, <1>3, <1>4, <1>5 DEF ApiType
<1>7. /\ portal' \in [Insts -> [state : {"unborn", "up", "gone"},
                                count : 0 .. MaxBytes]]
      /\ \A j \in Insts : portal'[j].count \in {0, portal[j].count}
  <2>1. \/ portal' = portal
        \/ portal' = [portal EXCEPT ![i].state = "up"]
        \/ portal' = [portal EXCEPT ![i].state = "gone"]
        \/ portal' = [portal EXCEPT ![i].count = 0]
    BY DEF ApiCall
  <2> HIDE DEF i
  <2>2. QED  BY <1>1, <1>2, <2>1
<1>8. /\ stream' \in Seq(Event) /\ Len(stream') <= MaxQueue
      /\ \A k \in 1 .. Len(stream') : stream'[k].at <= now
  <2>1. CASE stream' = stream
    BY <2>1 DEF Base, Parts, StreamOK
  <2>2. CASE Len(stream) < MaxQueue /\ Emit("delete", i)
    BY <1>1, <2>2, EmitKeeps
  <2>3. QED  BY <2>1, <2>2 DEF ApiCall
<1>9. Parts'
  BY <1>3, <1>6, <1>7, <1>8 DEF Base, Parts, ApiType
<1>10. StreamOK' /\ CountsOK' /\ WorkerOK'
  BY <1>2, <1>3, <1>7, <1>8 DEF Base, StreamOK, CountsOK, WorkerOK
<1>11. ApiOK'
  BY <1>1, <1>3, <1>4, <1>5, <1>6 DEF ApiOK
<1>12. OwnOK'
  BY <1>3, <1>5, <1>6 DEF Base, OwnOK
<1>13. QED  BY <1>9, <1>10, <1>11, <1>12 DEF CallersOK

-----------------------------------------------------------------------------
(* Every step, and the beginning. *)

LEMMA NextCallers ==
    ASSUME Base, [Next]_vars
    PROVE  CallersOK'
<1>1. CASE UNCHANGED vars
  BY <1>1 DEF vars, Base, CallersOK, Parts, CountsOK, StreamOK, WorkerOK,
              ApiOK, OwnOK, EventSample
<1>2. ASSUME NEW i \in Insts,
             \/ Carry(i) \/ InstanceRestarts(i) \/ Report(i) \/ Shutdown(i)
             \/ ApiTouch(i) \/ \E op \in Calls : ApiStart(op, i)
      PROVE  CallersOK'
  BY <1>2, PortalKeeps, StreamKeeps, TouchKeeps, StartKeeps
<1>3. CASE WorkerStep
  BY <1>3, WorkerTakeKeeps, WorkerShutdownKeeps, WorkerMovesKeeps DEF WorkerStep
<1>4. CASE ApiStep
  <2>1. ApiObserved => api.op \in {"reset", "update"}
    BY DEF ApiObserved
  <2>2. QED
    BY <1>4, <2>1, ApiEndsKeeps, ApiGoesOnKeeps, ApiCallKeeps DEF ApiStep
<1>5. CASE SchedulerSync \/ SchedulerCommit \/ SchedulerFails \/ SyncRow
  BY <1>5, SchedulerKeeps
<1>6. CASE Lose \/ Tick \/ Crash
  BY <1>6, StreamKeeps, TickKeeps, CrashKeeps
<1>7. QED  BY <1>1, <1>2, <1>3, <1>4, <1>5, <1>6 DEF Next

LEMMA NextBase == Base /\ [Next]_vars => Base'
<1> SUFFICES ASSUME Base, [Next]_vars PROVE Base'
  OBVIOUS
<1>1. AccountStep
  BY EveryStep
<1>2. T!TypeOK' /\ P!IInv' /\ RowsOK'
  BY <1>1, AccountGoesOn
<1>3. CallersOK'
  BY NextCallers
<1>4. QED  BY <1>2, <1>3 DEF Base, CallersOK

LEMMA InitBase == Init => Base
<1> SUFFICES ASSUME Init PROVE Base
  OBVIOUS
<1>1. P!IInv /\ T!TypeOK
  BY SameSteps, SameTypes, AccountConstants, P!InitIInv DEF Init, P!IInv
<1>2. /\ portal \in [Insts -> {[state |-> "unborn", count |-> 0],
                               [state |-> "up", count |-> 1]}]
      /\ stream = << >> /\ worker = [pc |-> "idle", event |-> Nil]
      /\ api = NoCall /\ asof = [i \in Insts |-> 0] /\ mix \in Mixes
      /\ now = 0
      /\ rows \in [Insts -> [count : Readings, event : {Nil}, updated : {0}]
                            \cup {Nil}]
  BY DEF Init, T!Init
<1> DEFINE carried == {i \in Insts : portal[i].count = 1}
<1>3. /\ sent = Cardinality(carried) /\ carried \subseteq Insts
      /\ IsFiniteSet(carried) /\ Cardinality(carried) \in Nat
      /\ Cardinality(carried) <= Cardinality(Insts)
      /\ Cardinality(Insts) \in Nat
  BY PortalAssumption, FS_Subset, FS_CardinalityType DEF Init
<1>4. sent \in 0 .. MaxBytes
  BY <1>3, PortalAssumption
<1>5. CountsOK
  <2> SUFFICES ASSUME NEW i \in Insts PROVE portal[i].count <= sent
    BY DEF CountsOK
  <2>1. CASE portal[i].count = 1
    <3>1. carried # {}
      BY <2>1
    <3>2. Cardinality(carried) # 0
      BY <1>3, <3>1, FS_EmptySet
    <3>3. QED  BY <1>3, <2>1, <3>2
  <2>2. CASE portal[i].count # 1
    BY <1>2, <1>3, <2>2
  <2>3. QED  BY <2>1, <2>2
<1> HIDE DEF carried
<1>6. portal \in [Insts -> [state : {"unborn", "up", "gone"},
                            count : 0 .. MaxBytes]]
  <2>1. \A i \in Insts : portal[i].count <= MaxBytes
    BY <1>2, <1>4, <1>5, Numbers DEF CountsOK
  <2>2. \A i \in Insts : portal[i] \in [state : {"unborn", "up", "gone"},
                                        count : 0 .. MaxBytes]
    BY <1>2, <2>1, Numbers
  <2>3. QED  BY <1>2, <2>2
<1>7. told \in [Insts -> T!Time \cup {Nil}]
  BY NoCallFacts DEF Init
<1>8. << >> \in Seq(Event) /\ Len(<< >>) = 0
  OBVIOUS
<1>9. Parts
  BY <1>2, <1>4, <1>6, <1>7, <1>8, NoCallFacts, Numbers DEF Parts
<1>10. RowsOK /\ StreamOK /\ WorkerOK /\ ApiOK /\ OwnOK
  BY <1>2, <1>8, NoCallFacts DEF RowsOK, StreamOK, WorkerOK, ApiOK, OwnOK
<1>11. QED  BY <1>1, <1>5, <1>9, <1>10 DEF Base

\* Init and every step of the program: what follows may use Base.
LEMMA AlwaysBase == Spec => []Base
BY InitBase, NextBase, PTL DEF Spec

-----------------------------------------------------------------------------
(* Events under way, and the rows they may overwrite. *)

Seen(i, t) == cursors[i].at # Nil /\ cursors[i].at >= t

\* The events under way.
Pending ==
    {stream[k] : k \in 1 .. Len(stream)}
        \cup (IF worker.pc = "idle" THEN {} ELSE {worker.event})

\* No event of i that is under way is older than t.
NoneOlder(i, t) ==
    \A e \in Pending : e.kind # "shutdown" /\ e.inst = i => e.at >= t

\* What is about to be written to a row has been accounted.
EditedOK ==
    "shutdown" \notin mix.callers =>
        /\ \A e \in Pending : e.kind # "shutdown"
        /\ worker.pc \in {"insert", "update"} =>
              Seen(worker.event.inst, worker.event.at)
        /\ api.op = "update" /\ api.pc = "write" => Seen(api.inst, api.at)
        /\ EditedIsAccounted

CreateOK ==
    api.op = "create" =>
        /\ api.pc \in {"call", "write"}
        /\ api.pc = "call" => portal[api.inst].state = "unborn"
        /\ api.pc = "write" => NoneOlder(api.inst, api.at)

UnbornOK ==
    \A i \in Insts : portal[i].state = "unborn" =>
        \A e \in Pending : e.kind # "shutdown" => e.inst # i

AsofOK ==
    \A i \in Insts :
        /\ asof[i] <= now
        /\ rows[i] # Nil =>
              IF rows[i].event # Nil
              THEN asof[i] <= rows[i].event
              ELSE "refresh" \notin mix.callers => NoneOlder(i, asof[i])

OrderOK ==
    /\ CreateOK /\ UnbornOK /\ AsofOK
    /\ api.pc # "idle" => api.op \in mix.callers

LEMMA PendingFacts ==
    ASSUME Base
    PROVE  Pending \subseteq Event /\ \A e \in Pending : e.at \in Nat /\ e.at <= now
<1>1. \A k \in 1 .. Len(stream) : stream[k] \in Event /\ stream[k].at <= now
  BY DEF Base, Parts, StreamOK
<1>2. worker.pc # "idle" => worker.event \in Event /\ worker.event.at <= now
  BY DEF Base, WorkerOK
<1>3. \A e \in Event : e.at \in Nat
  BY Numbers DEF Event
<1>4. QED  BY <1>1, <1>2, <1>3 DEF Pending

\* What is new among the events is what OpenCtrl says now of a Portal that is
\* up, or a shutdown.
NewEvent(e) ==
    \/ e.kind = "shutdown" /\ "shutdown" \in mix.callers
    \/ /\ e.kind # "shutdown" /\ portal[e.inst].state = "up"
       /\ e.at = now /\ e.count = portal[e.inst].count

LEMMA PendingEmit ==
    ASSUME Base, NEW i \in Insts, NEW kind \in {"report", "delete", "shutdown"},
           Len(stream) < MaxQueue, Emit(kind, i), UNCHANGED worker,
           \/ kind = "shutdown" /\ "shutdown" \in mix.callers
           \/ kind # "shutdown" /\ portal[i].state = "up"
    PROVE  \A e \in Pending' : e \in Pending \/ NewEvent(e)
<1> DEFINE new == [kind |-> kind, inst |-> i, at |-> now,
                   count |-> portal[i].count]
<1>1. NewEvent(new)
  BY DEF NewEvent
<1> HIDE DEF new
<1>2. \A k \in 1 .. Len(stream') :
         stream'[k] = new \/ (k \in 1 .. Len(stream) /\ stream'[k] = stream[k])
  BY EmitKeeps DEF new
<1>3. QED  BY <1>1, <1>2 DEF Pending

LEMMA PendingSteps ==
    ASSUME Base, [Next]_vars
    PROVE  \A e \in Pending' : e \in Pending \/ NewEvent(e)
<1>1. CASE UNCHANGED <<stream, worker>>
  BY <1>1 DEF Pending
<1>2. ASSUME NEW i \in Insts, Report(i) \/ Shutdown(i)
      PROVE  \A e \in Pending' : e \in Pending \/ NewEvent(e)
  BY <1>2, PendingEmit DEF Report, Shutdown, Others
<1>3. CASE ApiCall
  <2>1. UNCHANGED worker /\ api.inst \in Insts
    BY <1>3, ApiFacts DEF ApiCall, Elsewhere
  <2>2. \/ UNCHANGED stream
        \/ /\ portal[api.inst].state = "up" /\ Len(stream) < MaxQueue
           /\ Emit("delete", api.inst)
    BY <1>3 DEF ApiCall
  <2>3. QED  BY <1>1, <2>1, <2>2, PendingEmit
<1>4. CASE Lose
  <2>1. PICK n \in 0 .. Len(stream) - 1 : stream' = SubSeq(stream, 1, n)
    BY <1>4 DEF Lose
  <2>2. \A k \in 1 .. Len(stream') :
           k \in 1 .. Len(stream) /\ stream'[k] = stream[k]
    BY <2>1, QueueStart
  <2>3. QED  BY <1>4, <2>2 DEF Pending, Lose, Others
<1>5. CASE Crash
  <2>1. Pending' = {}
    BY <1>5 DEF Crash, WorkerIdle, Pending
  <2>2. QED  BY <2>1
<1>6. CASE WorkerTake \/ WorkerShutdown
  <2>1. stream # << >> /\ stream' = Tail(stream)
        /\ \/ UNCHANGED worker
           \/ worker.pc = "idle" /\ worker'.event = Head(stream)
    <3>1. CASE WorkerTake
      BY <3>1 DEF WorkerTake
    <3>2. CASE WorkerShutdown
      BY <3>2 DEF WorkerShutdown
    <3>3. QED  BY <1>6, <3>1, <3>2
  <2>2. /\ \A k \in 1 .. Len(stream') :
              k + 1 \in 1 .. Len(stream) /\ stream'[k] = stream[k + 1]
        /\ 1 \in 1 .. Len(stream) /\ Head(stream) = stream[1]
    BY <2>1, QueueTail
  <2>3. QED  BY <2>1, <2>2 DEF Pending
<1>7. CASE \/ WorkerObserved \/ WorkerFails \/ WorkerInsert \/ WorkerUpdate
           \/ WorkerWriteFails \/ WorkerCheckDelete \/ WorkerDelete
  <2>1. /\ UNCHANGED stream /\ worker.pc # "idle"
        /\ \/ WorkerIdle
           \/ WorkerAt("insert") \/ WorkerAt("check") \/ WorkerAt("update")
           \/ WorkerAt("delete")
    BY <1>7, WorkerMoves
  <2>2. worker'.pc = "idle" \/ worker'.event = worker.event
    <3>1. worker \in [pc : {"idle", "observing", "insert", "update", "check",
                            "delete"}, event : Event \cup {Nil}]
      BY DEF Base, Parts
    <3>2. QED  BY <2>1, <3>1 DEF WorkerIdle, WorkerAt
  <2>3. QED  BY <2>1, <2>2 DEF Pending
<1>8. CASE UNCHANGED vars
  BY <1>1, <1>8 DEF vars
<1>9. ASSUME NEW i \in Insts,
             \/ Carry(i) \/ InstanceRestarts(i) \/ ApiTouch(i)
             \/ \E op \in Calls : ApiStart(op, i)
      PROVE  UNCHANGED <<stream, worker>>
  BY <1>9 DEF Carry, InstanceRestarts, ApiTouch, ApiStart, Others, Elsewhere
<1>10. CASE ApiSync \/ ApiSynced \/ ApiObserve \/ ApiObserved \/ ApiWrite
            \/ ApiRefresh \/ ApiFails
  BY <1>1, <1>10 DEF ApiSync, ApiSynced, ApiObserve, ApiObserved, ApiWrite,
                     ApiRefresh, ApiFails, Elsewhere
<1>11. CASE SchedulerSync \/ SchedulerCommit \/ SchedulerFails \/ SyncRow \/ Tick
  BY <1>1, <1>11 DEF SchedulerSync, SchedulerCommit, SchedulerFails, SyncRow,
                     Unmoved, Tick
<1>12. QED
  BY <1>1, <1>2, <1>3, <1>4, <1>5, <1>6, <1>7, <1>8, <1>9, <1>10, <1>11
     DEF Next, WorkerStep, ApiStep

\* A row keeps its event time, unless it is deleted or one of these writes it.
Kept(i) ==
    /\ rows[i] # Nil /\ rows'[i].event = rows[i].event
    /\ asof'[i] = asof[i]
ByWorker(i) ==
    /\ worker.pc \in {"insert", "update"} /\ worker.event.inst = i
    /\ rows'[i].event = worker.event.at /\ asof'[i] = worker.event.at
ByUpdate(i) ==
    /\ api.op = "update" /\ api.pc = "write" /\ api.inst = i
    /\ rows'[i].event = api.at /\ asof'[i] = api.at
ByReset(i) ==
    /\ api.pc = "observing" /\ T!CommitObserve /\ tx.sample.inst = i
    /\ rows'[i].event = tx.sample.at /\ asof'[i] = tx.sample.at
ByCreate(i) ==
    /\ api.op = "create" /\ api.pc = "write" /\ api.inst = i
    /\ rows'[i].event = Nil /\ asof'[i] = api.at
ByRefresh(i) ==
    /\ api.op = "refresh" /\ api.pc = "syncing"
    /\ rows'[i].event = Nil /\ asof'[i] = api.at
ByShutdown(i) ==
    /\ worker.pc = "idle" /\ stream # << >> /\ Head(stream).kind = "shutdown"
    /\ rows'[i].event = now /\ asof'[i] = asof[i]

RowStep(i) ==
    \/ rows'[i] = Nil /\ asof'[i] = asof[i]
    \/ Kept(i) \/ ByWorker(i) \/ ByUpdate(i) \/ ByReset(i) \/ ByCreate(i)
    \/ ByRefresh(i) \/ ByShutdown(i)

LEMMA RowsRest ==
    ASSUME UNCHANGED <<rows, asof>>, NEW i \in Insts
    PROVE  RowStep(i)
BY DEF RowStep, Kept

\* A row is written, or there is none.
LEMMA OverwriteRow ==
    ASSUME Base, NEW i \in Insts, NEW count, NEW at, Overwrite(i, count, at),
           NEW j \in Insts
    PROVE  \/ RowStep(j)
           \/ j = i /\ rows'[j].event = at /\ asof'[j] = at
<1>1. rows \in [Insts -> T!Row \cup {Nil}] /\ asof \in [Insts -> T!Time]
  BY DEF Base, T!TypeOK, Parts
<1>2. CASE UNCHANGED <<rows, asof>>
  BY <1>2, RowsRest
<1>3. CASE /\ rows' = [rows EXCEPT ![i] = [count |-> count, event |-> at,
                                           updated |-> now]]
           /\ asof' = [asof EXCEPT ![i] = at]
  BY <1>1, <1>3 DEF RowStep, Kept
<1>4. QED  BY <1>2, <1>3 DEF Overwrite

LEMMA WorkerRows ==
    ASSUME Base, WorkerStep, NEW j \in Insts
    PROVE  RowStep(j)
<1>1. rows \in [Insts -> T!Row \cup {Nil}] /\ asof \in [Insts -> T!Time]
  BY DEF Base, T!TypeOK, Parts
<1>2. CASE WorkerInsert \/ WorkerUpdate
  <2> DEFINE e == worker.event
  <2>1. worker.pc \in {"insert", "update"}
    BY <1>2 DEF WorkerInsert, WorkerUpdate
  <2>2. e.inst \in Insts
    BY <2>1 DEF Base, WorkerOK, Event
  <2>3. CASE UNCHANGED <<rows, asof>>
    BY <2>3, RowsRest
  <2>4. CASE /\ rows' = [rows EXCEPT ![e.inst] = EventRow(e)]
             /\ asof' = [asof EXCEPT ![e.inst] = e.at]
    <3>1. CASE j = e.inst
      BY <1>1, <2>1, <2>4, <3>1 DEF RowStep, ByWorker, EventRow
    <3>2. CASE j # e.inst
      BY <1>1, <2>4, <3>2 DEF RowStep, Kept
    <3>3. QED  BY <3>1, <3>2
  <2>5. QED  BY <1>2, <2>3, <2>4 DEF WorkerInsert, WorkerUpdate
<1>3. CASE WorkerShutdown
  <2>1. /\ worker.pc = "idle" /\ stream # << >>
        /\ Head(stream).kind = "shutdown" /\ UNCHANGED asof
        /\ rows' = [i \in Insts |-> IF rows[i] = Nil THEN Nil
                                    ELSE [rows[i] EXCEPT !.event = now,
                                                         !.updated = now]]
    BY <1>3 DEF WorkerShutdown
  <2>2. rows[j] = Nil => rows'[j] = Nil
    BY <2>1
  <2>3. rows[j] # Nil => rows'[j].event = now
    BY <1>1, <2>1 DEF T!Row
  <2>4. QED  BY <2>1, <2>2, <2>3 DEF RowStep, ByShutdown
<1>4. CASE WorkerDelete
  <2>1. UNCHANGED asof
        /\ rows' \in {rows, [rows EXCEPT ![worker.event.inst] = Nil]}
    BY <1>4 DEF WorkerDelete
  <2>2. rows'[j] = Nil \/ rows'[j] = rows[j]
    BY <1>1, <2>1
  <2>3. QED  BY <2>1, <2>2 DEF RowStep, Kept
<1>5. CASE WorkerTake \/ WorkerObserved \/ WorkerFails \/ WorkerWriteFails
           \/ WorkerCheckDelete
  BY <1>5, RowsRest, ObserveBegins, TransactionEnds
     DEF WorkerTake, WorkerObserved, WorkerFails, WorkerWriteFails,
         WorkerCheckDelete
<1>6. QED  BY <1>2, <1>3, <1>4, <1>5 DEF WorkerStep

LEMMA ApiRows ==
    ASSUME Base, ApiStep, NEW j \in Insts
    PROVE  RowStep(j)
<1>1. rows \in [Insts -> T!Row \cup {Nil}] /\ asof \in [Insts -> T!Time]
  BY DEF Base, T!TypeOK, Parts
<1>2. CASE ApiObserved
  <2>1. api.pc = "observing" /\ T!CommitObserve
    BY <1>2 DEF ApiObserved
  <2>2. api.inst \in Insts /\ tx.sample.inst = api.inst
    BY <2>1, ApiFacts DEF Base, OwnOK
  <2>3. \/ UNCHANGED <<rows, asof>> \/ Overwrite(api.inst, 0, tx.sample.at)
    BY <1>2 DEF ApiObserved
  <2>4. QED
    BY <2>1, <2>2, <2>3, RowsRest, OverwriteRow DEF RowStep, ByReset
<1>3. CASE ApiWrite
  <2> DEFINE i == api.inst
  <2>1. api.pc = "write" /\ i \in Insts
    BY <1>3, ApiFacts DEF ApiWrite
  <2>2. CASE api.op = "update" /\ Overwrite(i, api.seen[i], api.at)
    BY <2>1, <2>2, OverwriteRow DEF RowStep, ByUpdate
  <2>3. CASE rows' = [rows EXCEPT ![i] = Nil] /\ UNCHANGED asof
    BY <1>1, <2>3 DEF RowStep, Kept
  <2>4. CASE /\ api.op = "create"
             /\ rows' = [rows EXCEPT ![i] = [count |-> api.seen[i],
                                             event |-> Nil, updated |-> now]]
             /\ asof' = [asof EXCEPT ![i] = api.at]
    <3> HIDE DEF i
    <3>1. CASE j = i
      <4>1. rows'[j].event = Nil /\ asof'[j] = api.at
        BY <1>1, <2>4, <3>1
      <4>2. QED  BY <2>1, <2>4, <3>1, <4>1 DEF RowStep, ByCreate, i
    <3>2. CASE j # i
      BY <1>1, <2>4, <3>2 DEF RowStep, Kept
    <3>3. QED  BY <3>1, <3>2
  <2>5. CASE /\ rows[i] # Nil /\ UNCHANGED asof
             /\ rows' = [rows EXCEPT ![i].updated = now]
    <3>1. rows'[i].event = rows[i].event
      BY <1>1, <2>1, <2>5 DEF T!Row
    <3>2. j # i => rows'[j] = rows[j]
      BY <1>1, <2>5
    <3>3. QED  BY <2>5, <3>1, <3>2 DEF RowStep, Kept
  <2>6. QED  BY <1>3, <2>2, <2>3, <2>4, <2>5 DEF ApiWrite
<1>4. CASE ApiRefresh
  <2>1. /\ api.op = "refresh" /\ api.pc = "syncing"
        /\ rows' = [i \in Insts |-> IF api.seen[i] = Nil THEN Nil
                                ELSE [count |-> api.seen[i], event |-> Nil,
                                      updated |-> now]]
        /\ asof' = [i \in Insts |-> IF api.seen[i] = Nil THEN asof[i]
                                    ELSE api.at]
    BY <1>4 DEF ApiRefresh
  <2>2. CASE api.seen[j] = Nil
    BY <2>1, <2>2 DEF RowStep
  <2>3. CASE api.seen[j] # Nil
    BY <2>1, <2>3 DEF RowStep, ByRefresh
  <2>4. QED  BY <2>2, <2>3
<1>5. CASE ApiSync \/ ApiSynced \/ ApiCall \/ ApiObserve \/ ApiFails
  BY <1>5, RowsRest, ObserveBegins, SyncBegins, TransactionEnds
     DEF ApiSync, ApiSynced, ApiCall, ApiObserve, ApiFails
<1>6. QED  BY <1>2, <1>3, <1>4, <1>5 DEF ApiStep

LEMMA RowSteps ==
    ASSUME Base, [Next]_vars, NEW j \in Insts
    PROVE  RowStep(j)
<1>1. CASE UNCHANGED vars
  BY <1>1, RowsRest DEF vars
<1>2. ASSUME NEW i \in Insts,
             \/ Carry(i) \/ InstanceRestarts(i) \/ Report(i) \/ Shutdown(i)
             \/ \E op \in Calls : ApiStart(op, i)
      PROVE  RowStep(j)
  BY <1>2, RowsRest
     DEF Carry, InstanceRestarts, Report, Shutdown, ApiStart, Others
<1>3. ASSUME NEW i \in Insts, ApiTouch(i)
      PROVE  RowStep(j)
  <2>1. rows \in [Insts -> T!Row \cup {Nil}]
    BY DEF Base, T!TypeOK
  <2>2. rows[i] # Nil /\ rows' = [rows EXCEPT ![i].updated = now]
        /\ UNCHANGED asof
    BY <1>3 DEF ApiTouch
  <2>3. rows'[i].event = rows[i].event
    BY <2>1, <2>2 DEF T!Row
  <2>4. j # i => rows'[j] = rows[j]
    BY <2>1, <2>2
  <2>5. QED  BY <2>2, <2>3, <2>4 DEF RowStep, Kept
<1>4. CASE SchedulerSync \/ SchedulerCommit \/ SchedulerFails \/ SyncRow
           \/ Lose \/ Tick \/ Crash
  BY <1>4, RowsRest, SyncBegins, TransactionEnds
     DEF SchedulerSync, SchedulerCommit, SchedulerFails, SyncRow, T!SyncRow,
         Lose, Tick, T!Tick, Crash, Unmoved, Others
<1>5. QED  BY <1>1, <1>2, <1>3, <1>4, WorkerRows, ApiRows DEF Next

-----------------------------------------------------------------------------
(* How the worker, the API call and the Portals go on. *)

LEMMA WorkerTo ==
    ASSUME Base, [Next]_vars
    PROVE  /\ UNCHANGED mix
           /\ worker'.pc \in {"insert", "update"} =>
                 /\ worker'.event = worker.event
                 /\ \/ worker.pc \in {"insert", "update"}
                    \/ worker.pc = "observing" /\ T!CommitObserve
<1>1. worker \in [pc : {"idle", "observing", "insert", "update", "check",
                        "delete"}, event : Event \cup {Nil}]
  BY DEF Base, Parts
<1>2. CASE UNCHANGED <<worker, mix>>
  BY <1>2
<1>3. CASE WorkerTake
  BY <1>3 DEF WorkerTake
<1>4. CASE WorkerObserved
  BY <1>1, <1>4 DEF WorkerObserved, WorkerAt, Outside
<1>5. CASE WorkerInsert
  BY <1>1, <1>5 DEF WorkerInsert, WorkerAt, Outside
<1>6. CASE WorkerFails \/ WorkerUpdate \/ WorkerWriteFails \/ WorkerDelete
           \/ Crash
  BY <1>6 DEF WorkerFails, WorkerUpdate, WorkerWriteFails, WorkerDelete, Crash,
              WorkerIdle, Outside
<1>7. CASE WorkerCheckDelete
  BY <1>1, <1>7 DEF WorkerCheckDelete, WorkerIdle, WorkerAt, Outside
<1>8. CASE WorkerShutdown
  BY <1>2, <1>8 DEF WorkerShutdown, Outside
<1>9. ASSUME NEW i \in Insts,
             \/ Carry(i) \/ InstanceRestarts(i) \/ Report(i) \/ Shutdown(i)
             \/ ApiTouch(i) \/ \E op \in Calls : ApiStart(op, i)
      PROVE  UNCHANGED <<worker, mix>>
  BY <1>9 DEF Carry, InstanceRestarts, Report, Shutdown, ApiTouch, ApiStart,
              Others, Elsewhere
<1>10. CASE ApiStep
  BY <1>2, <1>10 DEF ApiStep, ApiSync, ApiSynced, ApiCall, ApiObserve,
                     ApiObserved, ApiWrite, ApiRefresh, ApiFails, Elsewhere
<1>11. CASE SchedulerSync \/ SchedulerCommit \/ SchedulerFails \/ SyncRow
            \/ Lose \/ Tick
  BY <1>2, <1>11 DEF SchedulerSync, SchedulerCommit, SchedulerFails, SyncRow,
                     Unmoved, Lose, Tick, Others
<1>12. CASE UNCHANGED vars
  BY <1>2, <1>12 DEF vars
<1>13. QED
  BY <1>2, <1>3, <1>4, <1>5, <1>6, <1>7, <1>8, <1>9, <1>10, <1>11, <1>12
     DEF Next, WorkerStep

\* The call starts, goes on, is called off or rests.
CallStarts ==
    /\ api.pc = "idle" /\ api'.op \in mix.callers /\ api'.inst \in Insts
    /\ api'.pc \in {"call", "sync"}
    /\ api'.op = "create" =>
          api'.pc = "call" /\ portal[api'.inst].state = "unborn"
CallMoves ==
    /\ api.pc # "idle" /\ api'.op = api.op /\ api'.inst = api.inst
    /\ \/ api.pc \in {"sync", "syncing", "observe"} /\ api'.pc # "write"
       \/ /\ api.pc = "call" /\ api'.at = now /\ api'.pc # "call"
          /\ api.op = "create" => api'.pc = "write"
          /\ api.op = "update" => api'.pc = "observe"
       \/ /\ api.pc = "observing" /\ T!CommitObserve /\ api.op = "update"
          /\ api'.pc = "write" /\ api'.at = tx.sample.at

LEMMA ApiTo ==
    ASSUME Base, [Next]_vars
    PROVE  /\ UNCHANGED api \/ api' = NoCall \/ CallStarts \/ CallMoves
           /\ \A i \in Insts :
                 \/ portal'[i].state = portal[i].state
                 \/ portal'[i].state # "unborn" /\ CallMoves /\ api.pc = "call"
<1>1. api \in ApiType
      /\ portal \in [Insts -> [state : {"unborn", "up", "gone"},
                               count : 0 .. MaxBytes]]
  BY DEF Base, Parts, ApiType
<1>2. CASE UNCHANGED <<api, portal>>
  BY <1>2
<1>3. ASSUME NEW i \in Insts, NEW op \in Calls, ApiStart(op, i)
      PROVE  CallStarts /\ UNCHANGED portal
  <2>1. /\ api.pc = "idle" /\ op \in mix.callers
        /\ op = "create" => portal[i].state = "unborn"
        /\ api' = [NoCall EXCEPT !.op = op, !.inst = i,
                      !.pc = IF op \in {"create", "refresh"} THEN "call"
                             ELSE "sync"]
        /\ UNCHANGED portal
    BY <1>3 DEF ApiStart
  <2>2. /\ api'.op = op /\ api'.inst = i
        /\ api'.pc = IF op \in {"create", "refresh"} THEN "call" ELSE "sync"
    BY <2>1, NoCallFacts
  <2>3. QED  BY <2>1, <2>2 DEF CallStarts
<1>4. ASSUME NEW i \in Insts, Carry(i) \/ InstanceRestarts(i)
      PROVE  UNCHANGED api /\ \A j \in Insts : portal'[j].state = portal[j].state
  BY <1>1, <1>4 DEF Carry, InstanceRestarts
<1>5. CASE ApiSync \/ ApiSynced \/ ApiObserve
  <2>1. /\ api.pc \in {"sync", "syncing", "observe"} /\ UNCHANGED portal
        /\ \E pc \in {"syncing", "call", "observing"} :
              api' = [api EXCEPT !.pc = pc]
    BY <1>5 DEF ApiSync, ApiSynced, ApiObserve, ApiAt
  <2>2. CallMoves
    BY <1>1, <2>1 DEF CallMoves, ApiType
  <2>3. QED  BY <2>1, <2>2
<1>6. CASE ApiCall
  <2>1. \E seen : api' = [api EXCEPT !.seen = seen, !.at = now,
                     !.pc = CASE api.op \in {"create", "delete"} -> "write"
                              [] api.op \in {"update", "reset"} -> "observe"
                              [] OTHER -> "sync"]
    BY <1>6 DEF ApiCall
  <2>2. /\ api'.op = api.op /\ api'.inst = api.inst /\ api'.at = now
        /\ api'.pc = CASE api.op \in {"create", "delete"} -> "write"
                       [] api.op \in {"update", "reset"} -> "observe"
                       [] OTHER -> "sync"
    BY <1>1, <2>1 DEF ApiType
  <2>3. api.pc = "call" /\ api.inst \in Insts
    BY <1>6, ApiFacts DEF ApiCall
  <2>4. CallMoves
    BY <2>2, <2>3 DEF CallMoves
  <2>5. \/ portal' = portal
        \/ portal' = [portal EXCEPT ![api.inst].state = "up"]
        \/ portal' = [portal EXCEPT ![api.inst].state = "gone"]
        \/ portal' = [portal EXCEPT ![api.inst].count = 0]
    BY <1>6 DEF ApiCall
  <2>6. \A j \in Insts : portal'[j].state \in {portal[j].state, "up", "gone"}
    BY <1>1, <2>3, <2>5
  <2>7. QED  BY <2>3, <2>4, <2>6
<1>7. CASE ApiObserved
  <2>1. CASE api.op = "reset"
    BY <1>7, <2>1 DEF ApiObserved, Elsewhere
  <2>2. CASE api.op # "reset"
    <3>1. /\ api.pc = "observing" /\ T!CommitObserve /\ api.op = "update"
          /\ api' = [api EXCEPT !.pc = "write", !.at = tx.sample.at]
          /\ UNCHANGED portal
      BY <1>7, <2>2 DEF ApiObserved, Elsewhere
    <3>2. CallMoves
      BY <1>1, <3>1 DEF CallMoves, ApiType
    <3>3. QED  BY <3>1, <3>2
  <2>3. QED  BY <2>1, <2>2
<1>8. CASE ApiWrite \/ ApiRefresh \/ ApiFails \/ Crash
  BY <1>8 DEF ApiWrite, ApiRefresh, ApiFails, Crash, Elsewhere
<1>9. CASE WorkerStep
  BY <1>2, <1>9 DEF WorkerStep, WorkerTake, WorkerObserved, WorkerFails,
                    WorkerInsert, WorkerUpdate, WorkerWriteFails,
                    WorkerCheckDelete, WorkerDelete, WorkerShutdown, Outside
<1>10. ASSUME NEW i \in Insts, Report(i) \/ Shutdown(i) \/ ApiTouch(i)
       PROVE  UNCHANGED <<api, portal>>
  BY <1>10 DEF Report, Shutdown, ApiTouch
<1>11. CASE SchedulerSync \/ SchedulerCommit \/ SchedulerFails \/ SyncRow
            \/ Lose \/ Tick \/ UNCHANGED vars
  BY <1>2, <1>11 DEF SchedulerSync, SchedulerCommit, SchedulerFails, SyncRow,
                     Unmoved, Lose, Tick, vars
<1>12. QED
  BY <1>2, <1>3, <1>4, <1>5, <1>6, <1>7, <1>8, <1>9, <1>10, <1>11
     DEF Next, ApiStep

-----------------------------------------------------------------------------
(* What has been accounted stays so. *)

SeenNext(i, t) == cursors'[i].at # Nil /\ cursors'[i].at >= t

LEMMA SeenStays ==
    ASSUME Base, AccountStep, NEW i \in Insts, NEW t \in T!Time, Seen(i, t)
    PROVE  SeenNext(i, t)
<1>1. cursors \in [Insts -> P!Cursor] /\ cursors' \in [Insts -> P!Cursor]
  BY AccountGoesOn DEF Base, P!IInv, P!TypeOK
<1>2. [P!Next]_(P!vars) /\ P!IInv
  BY SameSteps DEF Base, AccountStep
<1>3. UNCHANGED cursors \/ P!CommitStep
  BY <1>2, AccountConstants, P!AccountSteps
<1>4. P!CommitStep => P!Ahead(cursors, cursors')
  BY <1>2, AccountConstants, P!CommitStepFacts DEF P!Committed, P!Publish
<1>5. \/ cursors'[i] = cursors[i]
      \/ cursors'[i].at # Nil /\ cursors'[i].at > cursors[i].at
  BY <1>3, <1>4 DEF P!Ahead, Seen
<1>6. cursors[i].at \in Int /\ (cursors'[i].at # Nil => cursors'[i].at \in Int)
  BY <1>1, SameTypes, Numbers DEF P!Cursor, Seen
<1>7. QED  BY <1>5, <1>6, Numbers DEF Seen, SeenNext

\* Observe leaves the cursor at its sample, or past it.
LEMMA SampleSeen ==
    ASSUME Base, T!CommitObserve
    PROVE  SeenNext(tx.sample.inst, tx.sample.at)
<1> DEFINE s == tx.sample
           x == [T!Initialized(tx) EXCEPT !.usage = T!ResetDue(@, tx.time)]
<1>1. tx.op = "observe"
  BY DEF T!CommitObserve
<1>2. tx # T!NoTx
  BY <1>1 DEF T!NoTx
<1>3. tx \in T!Tx /\ s \in T!Sample
  BY <1>1, <1>2, SameTypes DEF Base, T!TypeOK, P!IInv, P!CopyOK
<1>4. s.inst \in Insts /\ s.at \in T!Time
  BY <1>3 DEF T!Sample
<1>5. x.cursors = tx.cursors /\ tx.cursors \in [Insts -> T!Cursor]
      /\ x = [tx EXCEPT !.usage = x.usage]
  BY <1>3 DEF T!Initialized, T!Tx
<1>6. cursors' = T!Observed(x, s).cursors
  BY DEF T!CommitObserve, T!Publish
<1> HIDE DEF x
<1> DEFINE c == tx.cursors[s.inst]
           d == [at |-> s.at, count |-> T!AtLeastZero(s.count)]
<1>7. CASE c.at # Nil /\ s.at <= c.at
  <2>1. cursors' = tx.cursors
    BY <1>5, <1>6, <1>7 DEF T!Observed
  <2>2. c.at \in Int /\ s.at \in Int
    BY <1>4, <1>5, <1>7, Numbers DEF T!Cursor
  <2>3. QED  BY <1>7, <2>1, <2>2 DEF SeenNext
<1>8. CASE ~(c.at # Nil /\ s.at <= c.at)
  <2>1. cursors' = [tx.cursors EXCEPT ![s.inst] = d]
    <3>1. \E u : T!Observed(x, s) = [x EXCEPT !.cursors[s.inst] = d,
                                              !.usage = u]
      <4>1. PICK a, b : T!Observed(x, s) =
                         [x EXCEPT !.cursors[s.inst] = d, !.usage.total = a,
                                   !.usage.used = b]
        BY <1>5, <1>8 DEF T!Observed
      <4>2. [x EXCEPT !.cursors[s.inst] = d, !.usage.total = a,
                      !.usage.used = b]
               = [x EXCEPT !.cursors[s.inst] = d,
                           !.usage = [x.usage EXCEPT !.total = a, !.used = b]]
        OBVIOUS
      <4>3. QED  BY <4>1, <4>2
    <3>2. PICK u : T!Observed(x, s) = [x EXCEPT !.cursors[s.inst] = d,
                                                !.usage = u]
      BY <3>1
    <3>3. T!Observed(x, s).cursors = [x.cursors EXCEPT ![s.inst] = d]
      BY <1>3, <1>5, <3>2 DEF T!Tx
    <3>4. QED  BY <1>5, <1>6, <3>3
  <2>2. cursors'[s.inst].at = s.at
    BY <1>4, <1>5, <2>1
  <2>3. QED  BY <1>4, <2>2, Numbers DEF SeenNext
<1>9. QED  BY <1>7, <1>8

\* The times that are written to rows.
LEMMA WrittenTimes ==
    ASSUME Base, [Next]_vars, NEW i \in Insts
    PROVE  /\ now \in Nat /\ now' \in Nat /\ now' >= now
           /\ api.at \in T!Time /\ api.at <= now
           /\ ByWorker(i) => worker.event.at \in T!Time /\ worker.event.at <= now
           /\ ByReset(i) => tx.sample.at \in T!Time /\ tx.sample.at <= now
<1>1. AccountStep
  BY EveryStep
<1>2. worker.pc # "idle" => worker.event.at \in T!Time /\ worker.event.at <= now
  BY DEF Base, WorkerOK, Event
<1>3. QED
  BY <1>1, <1>2, AccountGoesOn, ApiFacts, SampleTime DEF ByWorker, ByReset

LEMMA NextEdited == Base /\ EditedOK /\ [Next]_vars => EditedOK'
<1> SUFFICES ASSUME Base, EditedOK, [Next]_vars PROVE EditedOK'
  OBVIOUS
<1>1. AccountStep /\ UNCHANGED mix
  BY EveryStep, WorkerTo
<1> SUFFICES ASSUME "shutdown" \notin mix.callers
             PROVE  /\ \A e \in Pending' : e.kind # "shutdown"
                    /\ worker'.pc \in {"insert", "update"} =>
                          SeenNext(worker'.event.inst, worker'.event.at)
                    /\ api'.op = "update" /\ api'.pc = "write" =>
                          SeenNext(api'.inst, api'.at)
                    /\ EditedIsAccounted'
  BY <1>1 DEF EditedOK, SeenNext, Seen
<1>2. \A e \in Pending : e.kind # "shutdown"
  BY DEF EditedOK
<1>3. \A e \in Pending' : e.kind # "shutdown"
  BY <1>2, PendingSteps DEF NewEvent
<1>4. ASSUME worker'.pc \in {"insert", "update"}
      PROVE  SeenNext(worker'.event.inst, worker'.event.at)
  <2>1. worker'.event = worker.event
    BY <1>4, WorkerTo
  <2>2. CASE worker.pc \in {"insert", "update"}
    <3>1. Seen(worker.event.inst, worker.event.at)
      BY <2>2 DEF EditedOK
    <3>2. worker.event.inst \in Insts /\ worker.event.at \in T!Time
      BY <2>2 DEF Base, WorkerOK, Event
    <3>3. QED  BY <1>1, <2>1, <3>1, <3>2, SeenStays
  <2>3. CASE worker.pc = "observing" /\ T!CommitObserve
    <3>1. tx.sample = EventSample(worker.event)
      BY <2>3 DEF Base, OwnOK
    <3>2. QED  BY <2>1, <2>3, <3>1, SampleSeen DEF EventSample
  <2>4. QED  BY <1>4, <2>2, <2>3, WorkerTo
<1>5. ASSUME api'.op = "update", api'.pc = "write"
      PROVE  SeenNext(api'.inst, api'.at)
  <2>1. UNCHANGED api \/ CallMoves
    BY <1>5, ApiTo, NoCallFacts DEF CallStarts
  <2>2. CASE UNCHANGED api
    <3>1. Seen(api.inst, api.at) /\ api.inst \in Insts /\ api.at \in T!Time
      BY <1>5, <2>2, ApiFacts DEF EditedOK
    <3>2. QED  BY <1>1, <2>2, <3>1, SeenStays
  <2>3. CASE CallMoves
    <3>1. /\ api.pc = "observing" /\ T!CommitObserve /\ api'.inst = api.inst
          /\ api'.at = tx.sample.at
      BY <1>5, <2>3 DEF CallMoves
    <3>2. tx.sample.inst = api.inst
      BY <3>1 DEF Base, OwnOK
    <3>3. QED  BY <3>1, <3>2, SampleSeen
  <2>4. QED  BY <2>1, <2>2, <2>3
<1>6. ASSUME NEW i \in Insts, rows'[i] # Nil, rows'[i].event # Nil
      PROVE  SeenNext(i, rows'[i].event)
  <2>1. RowStep(i)
    BY RowSteps
  <2>2. CASE Kept(i)
    <3>1. Seen(i, rows[i].event)
      BY <1>6, <2>2 DEF EditedOK, EditedIsAccounted, Kept, Seen
    <3>2. rows[i].event \in T!Time
      BY <1>6, <2>2 DEF Base, T!TypeOK, T!Row, Kept
    <3>3. QED  BY <1>1, <2>2, <3>1, <3>2, SeenStays DEF Kept
  <2>3. CASE ByWorker(i)
    <3>1. Seen(i, worker.event.at)
      BY <2>3 DEF EditedOK, ByWorker
    <3>2. QED
      BY <1>1, <2>3, <3>1, WrittenTimes, SeenStays DEF ByWorker
  <2>4. CASE ByUpdate(i)
    <3>1. Seen(i, api.at)
      BY <2>4 DEF EditedOK, ByUpdate
    <3>2. QED
      BY <1>1, <2>4, <3>1, WrittenTimes, SeenStays DEF ByUpdate
  <2>5. CASE ByReset(i)
    BY <2>5, SampleSeen DEF ByReset
  <2>6. ~ByShutdown(i)
    <3> SUFFICES ASSUME ByShutdown(i) PROVE FALSE
      OBVIOUS
    <3>1. Head(stream) \in Pending
      BY QueueTail DEF ByShutdown, Pending
    <3>2. QED  BY <1>2, <3>1 DEF ByShutdown
  <2>7. QED
    BY <1>6, <2>1, <2>2, <2>3, <2>4, <2>5, <2>6
       DEF RowStep, ByCreate, ByRefresh
<1>7. EditedIsAccounted'
  BY <1>6 DEF EditedIsAccounted, SeenNext
<1>8. QED  BY <1>3, <1>4, <1>5, <1>7

LEMMA InitEdited == Init => EditedOK
<1> SUFFICES ASSUME Init PROVE EditedOK
  OBVIOUS
<1>1. Pending = {} /\ worker.pc = "idle" /\ api.pc = "idle"
  BY DEF Init, Pending, NoCall
<1>2. \A i \in Insts : rows[i] = Nil \/ rows[i].event = Nil
  BY DEF Init, T!Init
<1>3. QED  BY <1>1, <1>2 DEF EditedOK, EditedIsAccounted

-----------------------------------------------------------------------------
(* No event under way is older than the row it will find without a time. *)

NoneOlderNext(i, t) ==
    \A e \in Pending' : e.kind # "shutdown" /\ e.inst = i => e.at >= t

LEMMA NoneOlderStays ==
    ASSUME Base, [Next]_vars, NEW i, NEW t, t <= now, NoneOlder(i, t)
    PROVE  NoneOlderNext(i, t)
BY PendingSteps DEF NoneOlder, NoneOlderNext, NewEvent

LEMMA NextCreate ==
    ASSUME Base, OrderOK, [Next]_vars
    PROVE  CreateOK'
<1> SUFFICES ASSUME api'.op = "create"
             PROVE  /\ api'.pc \in {"call", "write"}
                    /\ api'.pc = "call" => portal'[api'.inst].state = "unborn"
                    /\ api'.pc = "write" => NoneOlderNext(api'.inst, api'.at)
  BY DEF CreateOK, NoneOlder, NoneOlderNext
<1>1. CASE UNCHANGED api
  <2>1. /\ api.pc \in {"call", "write"} /\ api.inst \in Insts /\ api.at <= now
        /\ api.pc = "call" => portal[api.inst].state = "unborn"
        /\ api.pc = "write" => NoneOlder(api.inst, api.at)
    BY <1>1, ApiFacts DEF OrderOK, CreateOK
  <2>2. api.pc = "call" => portal'[api.inst].state = portal[api.inst].state
    <3>1. ~(CallMoves /\ api.pc = "call")
      BY <1>1 DEF CallMoves
    <3>2. QED  BY <2>1, <3>1, ApiTo
  <2>3. api.pc = "write" => NoneOlderNext(api.inst, api.at)
    BY <2>1, NoneOlderStays
  <2>4. QED  BY <1>1, <2>1, <2>2, <2>3
<1>2. CASE CallStarts
  <2>1. /\ api.pc = "idle" /\ api'.pc = "call" /\ api'.inst \in Insts
        /\ portal[api'.inst].state = "unborn"
    BY <1>2 DEF CallStarts
  <2>2. portal'[api'.inst].state = "unborn"
    BY <2>1, ApiTo
  <2>3. QED  BY <2>1, <2>2
<1>3. CASE CallMoves
  <2>1. /\ api.op = "create" /\ api.pc # "idle" /\ api'.inst = api.inst
        /\ api.pc \in {"call", "write"}
    BY <1>3 DEF CallMoves, OrderOK, CreateOK
  <2>2. api.pc = "call" /\ api'.at = now /\ api'.pc = "write"
    BY <1>3, <2>1 DEF CallMoves
  <2>3. portal[api.inst].state = "unborn" /\ api.inst \in Insts
    BY <2>1, <2>2, ApiFacts DEF OrderOK, CreateOK
  <2>4. \A e \in Pending' :
           e.kind # "shutdown" /\ e.inst = api.inst => e.at = now
    BY <2>3, PendingSteps DEF NewEvent, OrderOK, UnbornOK
  <2>5. QED  BY <2>1, <2>2, <2>4, ApiFacts DEF NoneOlderNext
<1>4. QED  BY <1>1, <1>2, <1>3, ApiTo DEF NoCall

LEMMA NextUnborn ==
    ASSUME Base, OrderOK, [Next]_vars
    PROVE  UnbornOK'
<1> SUFFICES ASSUME NEW i \in Insts, portal'[i].state = "unborn",
                    NEW e \in Pending', e.kind # "shutdown"
             PROVE  e.inst # i
  BY DEF UnbornOK
<1>1. portal[i].state = "unborn"
  BY ApiTo
<1>2. QED  BY <1>1, PendingSteps DEF NewEvent, OrderOK, UnbornOK

LEMMA NextAsof ==
    ASSUME Base, OrderOK, [Next]_vars
    PROVE  AsofOK'
<1> SUFFICES ASSUME NEW i \in Insts
             PROVE  /\ asof'[i] <= now'
                    /\ rows'[i] # Nil =>
                          IF rows'[i].event # Nil
                          THEN asof'[i] <= rows'[i].event
                          ELSE "refresh" \notin mix.callers
                                  => NoneOlderNext(i, asof'[i])
  BY WorkerTo DEF AsofOK, NoneOlder, NoneOlderNext
<1>1. RowStep(i)
  BY RowSteps
<1>2. asof[i] \in Nat /\ asof[i] <= now /\ Nil \notin Int
  BY Numbers DEF Base, Parts, OrderOK, AsofOK
<1>3. /\ now \in Nat /\ now' \in Nat /\ now' >= now
      /\ api.at \in Nat /\ api.at <= now
      /\ ByWorker(i) => worker.event.at \in Nat /\ worker.event.at <= now
      /\ ByReset(i) => tx.sample.at \in Nat /\ tx.sample.at <= now
  BY WrittenTimes, Numbers
<1>4. asof'[i] <= now'
  BY <1>1, <1>2, <1>3 DEF RowStep, Kept, ByWorker, ByUpdate, ByReset, ByCreate,
                          ByRefresh, ByShutdown
<1>5. CASE rows'[i] = Nil
  BY <1>4, <1>5
<1>6. CASE Kept(i)
  <2>1. rows[i].event # Nil => asof[i] <= rows[i].event
    BY <1>6 DEF Kept, OrderOK, AsofOK
  <2>2. rows[i].event = Nil /\ "refresh" \notin mix.callers
           => NoneOlderNext(i, asof[i])
    BY <1>2, <1>6, NoneOlderStays DEF Kept, OrderOK, AsofOK
  <2>3. QED  BY <1>4, <1>6, <2>1, <2>2 DEF Kept
<1>7. CASE ByWorker(i) \/ ByUpdate(i) \/ ByReset(i)
  <2>1. rows'[i].event = asof'[i] /\ asof'[i] \in Nat
    BY <1>3, <1>7 DEF ByWorker, ByUpdate, ByReset
  <2>2. QED  BY <1>2, <1>4, <2>1
<1>8. CASE ByCreate(i)
  <2>1. NoneOlder(i, api.at)
    BY <1>8 DEF ByCreate, OrderOK, CreateOK
  <2>2. NoneOlderNext(i, api.at)
    BY <1>3, <2>1, NoneOlderStays
  <2>3. QED  BY <1>4, <1>8, <2>2 DEF ByCreate
<1>9. CASE ByRefresh(i)
  <2>1. "refresh" \in mix.callers
    BY <1>9 DEF ByRefresh, OrderOK
  <2>2. QED  BY <1>4, <1>9, <2>1 DEF ByRefresh
<1>10. CASE ByShutdown(i)
  BY <1>2, <1>3, <1>4, <1>10 DEF ByShutdown
<1>11. QED
  BY <1>1, <1>5, <1>6, <1>7, <1>8, <1>9, <1>10 DEF RowStep

LEMMA NextOrder == Base /\ OrderOK /\ [Next]_vars => OrderOK'
<1> SUFFICES ASSUME Base, OrderOK, [Next]_vars PROVE OrderOK'
  OBVIOUS
<1>1. api'.pc # "idle" => api'.op \in mix'.callers
  BY ApiTo, WorkerTo, NoCallFacts DEF CallStarts, CallMoves, OrderOK
<1>2. QED  BY <1>1, NextCreate, NextUnborn, NextAsof DEF OrderOK

LEMMA InitOrder == Init => OrderOK
<1> SUFFICES ASSUME Init PROVE OrderOK
  OBVIOUS
<1>1. Pending = {} /\ api.pc = "idle" /\ api.op = "none"
  BY DEF Init, Pending, NoCall
<1>2. \A i \in Insts : asof[i] = 0 /\ now = 0
  BY DEF Init, T!Init
<1>3. \A i \in Insts : rows[i] = Nil \/ rows[i].event = Nil
  BY DEF Init, T!Init
<1>4. QED
  BY <1>1, <1>2, <1>3 DEF OrderOK, CreateOK, UnbornOK, AsofOK, NoneOlder

\* Only the update itself changes a row as the worker finishes it.
LEMMA WorkerFinishes ==
    ASSUME Base, [Next]_vars, worker.pc = "update", WorkerIdle
    PROVE  WorkerUpdate \/ UNCHANGED rows
<1>1. UNCHANGED worker => FALSE
  BY DEF WorkerIdle
<1>2. ASSUME NEW i \in Insts,
             \/ Carry(i) \/ InstanceRestarts(i) \/ Report(i) \/ Shutdown(i)
             \/ ApiTouch(i) \/ \E op \in Calls : ApiStart(op, i)
      PROVE  FALSE
  BY <1>1, <1>2 DEF Carry, InstanceRestarts, Report, Shutdown, ApiTouch,
                    ApiStart, Others, Elsewhere
<1>3. CASE ApiStep
  BY <1>1, <1>3 DEF ApiStep, ApiSync, ApiSynced, ApiCall, ApiObserve,
                    ApiObserved, ApiWrite, ApiRefresh, ApiFails, Elsewhere
<1>4. CASE SchedulerSync \/ SchedulerCommit \/ SchedulerFails \/ SyncRow
           \/ Lose \/ Tick \/ UNCHANGED vars
  BY <1>1, <1>4 DEF SchedulerSync, SchedulerCommit, SchedulerFails, SyncRow,
                    Unmoved, Lose, Tick, Others, vars
<1>5. CASE WorkerWriteFails \/ Crash
  BY <1>5 DEF WorkerWriteFails, Crash
<1>6. ~WorkerTake /\ ~WorkerObserved /\ ~WorkerFails /\ ~WorkerInsert
      /\ ~WorkerCheckDelete /\ ~WorkerDelete /\ ~WorkerShutdown
  BY DEF WorkerTake, WorkerObserved, WorkerFails, WorkerInsert,
         WorkerCheckDelete, WorkerDelete, WorkerShutdown
<1>7. QED  BY <1>2, <1>3, <1>4, <1>5, <1>6 DEF Next, WorkerStep

-----------------------------------------------------------------------------
(* What the Portals really carried, which no variable remembers: the bytes *)
(* of every instance, and at which of them its counter stood how high.     *)

Point == [inst : Insts, at : Nat, count : Nat, bytes : SUBSET Nat]

\* The bytes p misses are no fewer than a counter would say that has come to
\* count since.
Covers(count, p, bytes) ==
    /\ p.bytes \subseteq bytes
    /\ T!CounterDelta(count, p.count) <= Cardinality(bytes \ p.bytes)

Disjoint(bytes) == \A i, j \in Insts : i # j => bytes[i] \cap bytes[j] = {}

LedgerOK(carried, points, counter, n, t) ==
    /\ carried \in [Insts -> SUBSET (1 .. n)]
    /\ Disjoint(carried)
    /\ \A i \in Insts : counter[i].count <= Cardinality(carried[i])
    /\ points \subseteq Point
    /\ \A p \in points :
          /\ p.at <= t /\ p.count <= Cardinality(p.bytes)
          /\ Covers(counter[p.inst].count, p, carried[p.inst])
    /\ \A p \in points : \A q \in points :
          p.inst = q.inst /\ p.at < q.at => Covers(q.count, p, q.bytes)

\* A sample tells of a point.
Tells(s, p) == p.inst = s.inst /\ p.at = s.at /\ p.count = s.count
Truthful(s, points) == \E p \in points : Tells(s, p)

\* The bytes an account has taken are bytes of different instances, and no
\* more are in its total.
Taken(base) == UNION {base[i] : i \in Insts}
AccountedOK(base, points, u, c) ==
    /\ base \in [Insts -> SUBSET Nat]
    /\ \A i \in Insts :
          IF c[i].at = Nil THEN c[i].count = 0 /\ base[i] = {}
          ELSE \E p \in points : /\ p.inst = i /\ p.at = c[i].at
                                 /\ p.count = c[i].count /\ p.bytes = base[i]
    /\ u.total <= Cardinality(Taken(base))

-----------------------------------------------------------------------------

LEMMA FiniteBytes ==
    ASSUME NEW n \in Nat, NEW b \in SUBSET (1 .. n)
    PROVE  IsFiniteSet(b) /\ Cardinality(b) \in Nat /\ Cardinality(b) <= n
<1>1. IsFiniteSet(1 .. n) /\ Cardinality(1 .. n) = n
  BY FS_Interval
<1>2. IsFiniteSet(b) /\ Cardinality(b) <= Cardinality(1 .. n)
  BY <1>1, FS_Subset
<1>3. QED  BY <1>1, <1>2, FS_CardinalityType

\* Bytes that are added to bytes.
LEMMA MoreBytes ==
    ASSUME NEW n \in Nat, NEW a \in SUBSET (1 .. n), NEW b \in SUBSET (1 .. n),
           a \cap b = {}
    PROVE  Cardinality(a \cup b) = Cardinality(a) + Cardinality(b)
<1>1. IsFiniteSet(a) /\ IsFiniteSet(b) /\ Cardinality(a) \in Nat
      /\ Cardinality(b) \in Nat
  BY FiniteBytes
<1>2. Cardinality(a \cup b) = Cardinality(a) + Cardinality(b) - Cardinality(a \cap b)
  BY <1>1, FS_Union
<1>3. Cardinality(a \cap b) = 0
  BY FS_EmptySet
<1>4. QED  BY <1>1, <1>2, <1>3

LEMMA NextByte ==
    ASSUME NEW n \in Nat, NEW b \in SUBSET (1 .. n), NEW a \in SUBSET (1 .. n)
    PROVE  /\ b \cup {n + 1} \in SUBSET (1 .. n + 1)
           /\ Cardinality(b \cup {n + 1}) = Cardinality(b) + 1
           /\ (b \cup {n + 1}) \ a = (b \ a) \cup {n + 1}
           /\ Cardinality((b \cup {n + 1}) \ a) = Cardinality(b \ a) + 1
<1>1. n + 1 \notin b /\ n + 1 \notin a /\ n + 1 \notin b \ a
  OBVIOUS
<1>2. IsFiniteSet(b) /\ b \ a \in SUBSET (1 .. n) /\ IsFiniteSet(b \ a)
  BY FiniteBytes
<1>3. (b \cup {n + 1}) \ a = (b \ a) \cup {n + 1}
  BY <1>1
<1>4. b \cup {n + 1} \in SUBSET (1 .. n + 1)
  OBVIOUS
<1>5. Cardinality(b \cup {n + 1}) = Cardinality(b) + 1
  BY <1>1, <1>2, FS_AddElement
<1>6. Cardinality((b \ a) \cup {n + 1}) = Cardinality(b \ a) + 1
  BY <1>1, <1>2, FS_AddElement
<1>7. QED  BY <1>3, <1>4, <1>5, <1>6

\* The counters as they stand are points like the others.
Standing(carried) ==
    {[inst |-> i, at |-> now, count |-> portal[i].count, bytes |-> carried[i]] :
        i \in Insts}

LEMMA LedgerStands ==
    ASSUME Base, NEW carried, NEW points,
           LedgerOK(carried, points, portal, sent, now)
    PROVE  LedgerOK(carried, points \cup Standing(carried), portal, sent, now)
<1> DEFINE all == points \cup Standing(carried)
<1>1. /\ now \in Nat /\ sent \in Nat
      /\ \A i \in Insts : portal[i].count \in Nat
  BY ApiFacts, Numbers DEF Base, Parts
<1>2. /\ carried \in [Insts -> SUBSET (1 .. sent)]
      /\ Disjoint(carried)
      /\ \A i \in Insts : portal[i].count <= Cardinality(carried[i])
      /\ points \subseteq Point
      /\ \A p \in points : 
            /\ p.at <= now /\ p.count <= Cardinality(p.bytes)
            /\ Covers(portal[p.inst].count, p, carried[p.inst])
      /\ \A p \in points : \A q \in points :
            p.inst = q.inst /\ p.at < q.at => Covers(q.count, p, q.bytes)
  BY DEF LedgerOK
<1>3. ASSUME NEW p \in Standing(carried)
      PROVE  /\ p \in Point /\ p.inst \in Insts /\ p.at = now
             /\ p.count = portal[p.inst].count /\ p.bytes = carried[p.inst]
  <2>1. PICK i \in Insts :
           p = [inst |-> i, at |-> now, count |-> portal[i].count,
                bytes |-> carried[i]]
    BY <1>3 DEF Standing
  <2>2. carried[i] \in SUBSET Nat
    BY <1>2
  <2>3. QED  BY <1>1, <2>1, <2>2 DEF Point
<1>4. all \subseteq Point
  BY <1>2, <1>3
<1>5. ASSUME NEW p \in all
      PROVE  /\ p.at <= now /\ p.count <= Cardinality(p.bytes)
             /\ Covers(portal[p.inst].count, p, carried[p.inst])
  <2>1. CASE p \in points
    BY <1>2, <2>1
  <2>2. CASE p \in Standing(carried)
    <3>1. /\ p.inst \in Insts /\ p.at = now
          /\ p.count = portal[p.inst].count /\ p.bytes = carried[p.inst]
      BY <1>3, <2>2
    <3>2. carried[p.inst] \ p.bytes = {} /\ Cardinality({}) = 0
      BY <3>1, FS_EmptySet
    <3>3. T!CounterDelta(portal[p.inst].count, p.count) = 0
      BY <1>1, <3>1 DEF T!CounterDelta
    <3>4. Covers(portal[p.inst].count, p, carried[p.inst])
      BY <3>1, <3>2, <3>3 DEF Covers
    <3>5. QED  BY <1>1, <1>2, <3>1, <3>4
  <2>3. QED  BY <2>1, <2>2
<1>6. ASSUME NEW p \in all, NEW q \in all, p.inst = q.inst, p.at < q.at
      PROVE  Covers(q.count, p, q.bytes)
  <2>1. p \in points
    <3>1. CASE p \in Standing(carried)
      <4>1. p.at = now /\ q.at \in Nat /\ q.at <= now
        BY <1>3, <1>4, <1>5, <3>1 DEF Point
      <4>2. QED  BY <1>1, <1>6, <4>1
    <3>2. QED  BY <3>1
  <2>2. CASE q \in points
    BY <1>2, <1>6, <2>1, <2>2
  <2>3. CASE q \in Standing(carried)
    BY <1>2, <1>3, <1>6, <2>1, <2>3
  <2>4. QED  BY <2>2, <2>3
<1> HIDE DEF all
<1>7. QED  BY <1>2, <1>4, <1>5, <1>6 DEF LedgerOK, all

\* OpenCtrl's counters: one byte more, or from zero again, or as they were.
CarriesOne(i) ==
    /\ sent' = sent + 1 /\ UNCHANGED now
    /\ portal'[i].count = portal[i].count + 1
    /\ \A j \in Insts : j # i => portal'[j].count = portal[j].count
CarriesNone ==
    /\ UNCHANGED sent
    /\ \A j \in Insts : portal'[j].count \in {0, portal[j].count}

LEMMA CounterSteps ==
    ASSUME Base, [Next]_vars
    PROVE  CarriesNone \/ \E i \in Insts : CarriesOne(i)
<1>1. portal \in [Insts -> [state : {"unborn", "up", "gone"},
                            count : 0 .. MaxBytes]]
  BY DEF Base, Parts
<1>2. CASE UNCHANGED <<sent, portal>>
  BY <1>2 DEF CarriesNone
<1>3. ASSUME NEW i \in Insts, Carry(i)
      PROVE  CarriesOne(i)
  <2>1. portal' = [portal EXCEPT ![i].count = @ + 1] /\ sent' = sent + 1
        /\ UNCHANGED now
    BY <1>3 DEF Carry
  <2>2. QED  BY <1>1, <2>1 DEF CarriesOne
<1>4. ASSUME NEW i \in Insts, InstanceRestarts(i)
      PROVE  CarriesNone
  BY <1>1, <1>4 DEF InstanceRestarts, CarriesNone
<1>5. CASE ApiCall
  <2>1. api.inst \in Insts /\ UNCHANGED sent
    BY <1>5, ApiFacts DEF ApiCall, Elsewhere
  <2>2. \/ portal' = portal
        \/ portal' = [portal EXCEPT ![api.inst].state = "up"]
        \/ portal' = [portal EXCEPT ![api.inst].state = "gone"]
        \/ portal' = [portal EXCEPT ![api.inst].count = 0]
    BY <1>5 DEF ApiCall
  <2>3. \A j \in Insts : portal'[j].count \in {0, portal[j].count}
    BY <1>1, <2>1, <2>2
  <2>4. QED  BY <2>1, <2>3 DEF CarriesNone
<1>6. ASSUME NEW i \in Insts,
             \/ Report(i) \/ Shutdown(i) \/ ApiTouch(i)
             \/ \E op \in Calls : ApiStart(op, i)
      PROVE  UNCHANGED <<sent, portal>>
  BY <1>6 DEF Report, Shutdown, ApiTouch, ApiStart, Elsewhere
<1>7. CASE WorkerStep
  BY <1>2, <1>7 DEF WorkerStep, WorkerTake, WorkerObserved, WorkerFails,
                    WorkerInsert, WorkerUpdate, WorkerWriteFails,
                    WorkerCheckDelete, WorkerDelete, WorkerShutdown, Outside
<1>8. CASE ApiSync \/ ApiSynced \/ ApiObserve \/ ApiObserved \/ ApiWrite
           \/ ApiRefresh \/ ApiFails
  BY <1>2, <1>8 DEF ApiSync, ApiSynced, ApiObserve, ApiObserved, ApiWrite,
                    ApiRefresh, ApiFails, Elsewhere
<1>9. CASE SchedulerSync \/ SchedulerCommit \/ SchedulerFails \/ SyncRow
           \/ Lose \/ Tick \/ Crash \/ UNCHANGED vars
  BY <1>2, <1>9 DEF SchedulerSync, SchedulerCommit, SchedulerFails, SyncRow,
                    Unmoved, Lose, Tick, Crash, vars
<1>10. QED
  BY <1>2, <1>3, <1>4, <1>5, <1>6, <1>7, <1>8, <1>9 DEF Next, ApiStep

LEMMA LedgerGoesOn ==
    ASSUME Base, [Next]_vars, NEW carried, NEW points,
           LedgerOK(carried, points, portal, sent, now)
    PROVE  \E more : LedgerOK(more, points, portal', sent', now')
<1>1. /\ now \in Nat /\ now' \in Nat /\ now' >= now
      /\ sent \in Nat /\ sent' \in Nat
      /\ \A i \in Insts : portal[i].count \in Nat
  <2>1. now \in Nat /\ now' \in Nat /\ now' >= now
    BY EveryStep, AccountGoesOn
  <2>2. Parts /\ Parts'
    BY NextBase DEF Base
  <2>3. sent \in Nat
    BY <2>2, Numbers DEF Parts
  <2>4. sent' \in Nat
    BY <2>2, Numbers DEF Parts
  <2>5. ASSUME NEW i \in Insts PROVE portal[i].count \in Nat
    <3>1. portal[i].count \in 0 .. MaxBytes
      BY <2>2 DEF Parts
    <3>2. QED  BY <3>1, Numbers
  <2>6. QED  BY <2>1, <2>3, <2>4, <2>5
<1>2. /\ carried \in [Insts -> SUBSET (1 .. sent)]
      /\ Disjoint(carried)
      /\ \A i \in Insts : portal[i].count <= Cardinality(carried[i])
      /\ points \subseteq Point
      /\ \A p \in points :
            /\ p.at <= now /\ p.count <= Cardinality(p.bytes)
            /\ p.bytes \subseteq carried[p.inst]
            /\ T!CounterDelta(portal[p.inst].count, p.count)
                  <= Cardinality(carried[p.inst] \ p.bytes)
      /\ \A p \in points : \A q \in points :
            p.inst = q.inst /\ p.at < q.at => Covers(q.count, p, q.bytes)
  BY DEF LedgerOK, Covers
<1>3. /\ \A p \in points : p.inst \in Insts /\ p.at \in Nat /\ p.count \in Nat
                           /\ p.at <= now'
      /\ \A i \in Insts : \A b : b \subseteq carried[i] =>
            Cardinality(carried[i] \ b) \in Nat
      /\ \A i \in Insts : Cardinality(carried[i]) \in Nat
  <2>1. \A p \in points : p.inst \in Insts /\ p.at \in Nat /\ p.count \in Nat
    BY <1>2 DEF Point
  <2>2. ASSUME NEW p \in points PROVE p.at <= now'
    <3>1. p.at <= now /\ p.at \in Nat
      BY <1>2, <2>1
    <3>2. QED  BY <1>1, <3>1
  <2>3. ASSUME NEW i \in Insts, NEW b
        PROVE  Cardinality(carried[i] \ b) \in Nat /\ Cardinality(carried[i]) \in Nat
    <3>1. carried[i] \in SUBSET (1 .. sent) /\ carried[i] \ b \in SUBSET (1 .. sent)
      BY <1>2
    <3>2. QED  BY <1>1, <3>1, FiniteBytes
  <2>4. QED  BY <2>1, <2>2, <2>3
<1>4. CASE CarriesNone
  <2>1. sent' = sent /\ \A j \in Insts : portal'[j].count \in {0, portal[j].count}
    BY <1>4 DEF CarriesNone
  <2>2. ASSUME NEW i \in Insts PROVE portal'[i].count <= Cardinality(carried[i])
    <3>1. /\ portal'[i].count = 0 \/ portal'[i].count = portal[i].count
          /\ portal[i].count <= Cardinality(carried[i])
          /\ Cardinality(carried[i]) \in Nat
      BY <1>2, <1>3, <2>1
    <3>2. QED  BY <3>1
  <2>3. ASSUME NEW p \in points
        PROVE  Covers(portal'[p.inst].count, p, carried[p.inst])
    <3>1. CASE portal'[p.inst].count = portal[p.inst].count
      BY <1>2, <3>1 DEF Covers
    <3>2. CASE portal'[p.inst].count = 0
      <4>1. p.count \in Nat /\ p.inst \in Insts /\ p.bytes \subseteq carried[p.inst]
        BY <1>2, <1>3
      <4>2. T!CounterDelta(0, p.count) = 0
        BY <4>1 DEF T!CounterDelta
      <4>3. Cardinality(carried[p.inst] \ p.bytes) \in Nat
        BY <1>3, <4>1
      <4>4. T!CounterDelta(0, p.count) <= Cardinality(carried[p.inst] \ p.bytes)
        BY <4>2, <4>3
      <4>5. QED  BY <3>2, <4>1, <4>4 DEF Covers
    <3>3. QED  BY <1>3, <2>1, <3>1, <3>2
  <2>4. LedgerOK(carried, points, portal', sent', now')
    BY <1>2, <1>3, <2>1, <2>2, <2>3 DEF LedgerOK
  <2>5. QED  BY <2>4
<1>5. ASSUME NEW i \in Insts, CarriesOne(i)
      PROVE  \E more : LedgerOK(more, points, portal', sent', now')
  <2> DEFINE more == [carried EXCEPT ![i] = @ \cup {sent + 1}]
  <2>1. /\ sent' = sent + 1
        /\ portal'[i].count = portal[i].count + 1
        /\ \A j \in Insts : j # i => portal'[j].count = portal[j].count
    BY <1>5 DEF CarriesOne
  <2>2. /\ \A j \in Insts : more[j] = IF j = i THEN carried[i] \cup {sent + 1}
                                      ELSE carried[j]
        /\ more = [j \in Insts |-> more[j]]
    BY <1>2
  <2>3. /\ carried[i] \cup {sent + 1} \in SUBSET (1 .. sent')
        /\ Cardinality(carried[i] \cup {sent + 1}) = Cardinality(carried[i]) + 1
    BY <1>1, <1>2, <2>1, NextByte
  <2> HIDE DEF more
  <2>4. \A j \in Insts : more[j] \in SUBSET (1 .. sent')
    BY <1>1, <1>2, <2>1, <2>2, <2>3
  <2>5. more \in [Insts -> SUBSET (1 .. sent')]
    BY <2>2, <2>4
  <2>6. ASSUME NEW j \in Insts, NEW k \in Insts, j # k
        PROVE  more[j] \cap more[k] = {}
    <3>1. carried[j] \cap carried[k] = {}
          /\ carried[j] \in SUBSET (1 .. sent) /\ carried[k] \in SUBSET (1 .. sent)
      BY <1>2, <2>6 DEF Disjoint
    <3>2. sent + 1 \notin carried[j] /\ sent + 1 \notin carried[k]
      BY <1>1, <3>1
    <3>3. QED  BY <2>2, <2>6, <3>1, <3>2
  <2>7. ASSUME NEW j \in Insts PROVE portal'[j].count <= Cardinality(more[j])
    <3>1. /\ portal[j].count <= Cardinality(carried[j])
          /\ portal[j].count \in Nat /\ Cardinality(carried[j]) \in Nat
      BY <1>1, <1>2, <1>3
    <3>2. CASE j # i
      BY <2>1, <2>2, <3>1, <3>2
    <3>3. CASE j = i
      <4>1. Cardinality(more[j]) = Cardinality(carried[j]) + 1
        BY <2>2, <2>3, <3>3
      <4>2. QED  BY <2>1, <3>1, <3>3, <4>1
    <3>4. QED  BY <3>2, <3>3
  <2>8. ASSUME NEW p \in points
        PROVE  Covers(portal'[p.inst].count, p, more[p.inst])
    <3>1. CASE p.inst # i
      BY <1>2, <1>3, <2>1, <2>2, <3>1 DEF Covers
    <3>2. CASE p.inst = i
      <4>1. p.bytes \subseteq carried[i] /\ p.bytes \in SUBSET (1 .. sent)
            /\ carried[i] \in SUBSET (1 .. sent)
        BY <1>2, <3>2
      <4>2. Cardinality(more[i] \ p.bytes) = Cardinality(carried[i] \ p.bytes) + 1
        <5>1. Cardinality((carried[i] \cup {sent + 1}) \ p.bytes)
                 = Cardinality(carried[i] \ p.bytes) + 1
          BY <1>1, <4>1, NextByte
        <5>2. QED  BY <2>2, <5>1
      <4>3. /\ p.count \in Nat /\ portal[i].count \in Nat
            /\ Cardinality(carried[i] \ p.bytes) \in Nat
            /\ T!CounterDelta(portal[i].count, p.count)
                  <= Cardinality(carried[i] \ p.bytes)
        BY <1>1, <1>2, <1>3, <3>2, <4>1
      <4>4. T!CounterDelta(portal[i].count + 1, p.count)
               <= T!CounterDelta(portal[i].count, p.count) + 1
        BY <4>3 DEF T!CounterDelta
      <4>5. T!CounterDelta(portal[i].count, p.count) \in Nat
            /\ T!CounterDelta(portal[i].count + 1, p.count) \in Nat
        BY <4>3 DEF T!CounterDelta
      <4>6. T!CounterDelta(portal'[i].count, p.count)
               <= Cardinality(more[i] \ p.bytes)
        BY <2>1, <4>2, <4>3, <4>4, <4>5
      <4>7. p.bytes \subseteq more[i]
        BY <2>2, <4>1
      <4>8. QED  BY <3>2, <4>6, <4>7 DEF Covers
    <3>3. QED  BY <3>1, <3>2
  <2>9. LedgerOK(more, points, portal', sent', now')
    BY <1>2, <1>3, <2>5, <2>6, <2>7, <2>8 DEF LedgerOK, Disjoint
  <2>10. QED  BY <2>9
<1>6. QED  BY <1>4, <1>5, CounterSteps

-----------------------------------------------------------------------------
(* What an account does with a sample that tells the truth. *)

\* The copy of an account that a sample has been worked into.
LEMMA ObservedParts ==
    ASSUME NEW w \in T!Tx, NEW s \in T!Sample
    PROVE  LET c == w.cursors[s.inst]
               d == T!CounterDelta(s.count, c.count)
               o == T!Observed(w, s)
           IN  /\ c.at # Nil /\ s.at <= c.at => o = w
               /\ ~(c.at # Nil /\ s.at <= c.at) =>
                     /\ o.cursors = [w.cursors EXCEPT ![s.inst] =
                                        [at |-> s.at, count |-> s.count]]
                     /\ o.usage.total = T!Add(w.usage.total, d)
<1> DEFINE c == w.cursors[s.inst]
           d == T!CounterDelta(s.count, c.count)
           o == T!Observed(w, s)
<1>1. /\ s.count \in 0 .. MaxBytes /\ w.cursors \in [Insts -> T!Cursor]
      /\ w.usage \in T!Usage
  BY Numbers DEF T!Sample, T!Tx
<1>2. T!AtLeastZero(s.count) = s.count
  BY <1>1, Numbers DEF T!AtLeastZero
<1>3. CASE c.at # Nil /\ s.at <= c.at
  BY <1>3 DEF T!Observed
<1>4. CASE ~(c.at # Nil /\ s.at <= c.at)
  <2>1. \E used : o = [w EXCEPT !.cursors[s.inst] = [at |-> s.at, count |-> s.count],
                         !.usage.total = T!Add(@, d),
                         !.usage.used = used]
    BY <1>2, <1>4 DEF T!Observed
  <2>2. PICK used : o = [w EXCEPT !.cursors[s.inst] = [at |-> s.at, count |-> s.count],
                         !.usage.total = T!Add(@, d),
                         !.usage.used = used]
    BY <2>1
  <2> HIDE DEF d, o
  <2>3. o = [w EXCEPT !.cursors = [w.cursors EXCEPT ![s.inst] =
                                     [at |-> s.at, count |-> s.count]],
                      !.usage = [w.usage EXCEPT !.total = T!Add(@, d),
                                                !.used = used]]
    BY <1>1, <2>2 DEF T!Tx
  <2>4. /\ o.cursors = [w.cursors EXCEPT ![s.inst] =
                                        [at |-> s.at, count |-> s.count]]
        /\ o.usage = [w.usage EXCEPT !.total = T!Add(@, d), !.used = used]
    BY <2>3 DEF T!Tx
  <2>5. o.usage.total = T!Add(w.usage.total, d)
    BY <1>1, <2>4 DEF T!Usage
  <2>6. QED  BY <1>4, <2>4, <2>5 DEF d, o
<1>5. QED  BY <1>3, <1>4

\* The bytes taken are bytes carried, of one instance each.
Fits(base, carried, n) ==
    /\ n \in Nat
    /\ carried \in [Insts -> SUBSET (1 .. n)] /\ Disjoint(carried)
    /\ base \in [Insts -> SUBSET Nat]
    /\ \A i \in Insts : base[i] \subseteq carried[i]

\* ... and so they are when those of i have become b.
Grown(base, more, i, b, carried, n) ==
    /\ Fits(base, carried, n)
    /\ i \in Insts /\ b \subseteq carried[i]
    /\ base[i] \subseteq b /\ more[i] = b
    /\ \A j \in Insts : j # i => more[j] = base[j]

\* Who takes more bytes of one instance has taken as many more.
LEMMA TakenMore ==
    ASSUME NEW n, NEW carried, NEW base, NEW i, NEW b, NEW more,
           Grown(base, more, i, b, carried, n)
    PROVE  Cardinality(Taken(more))
              = Cardinality(Taken(base)) + Cardinality(b \ base[i])
<1> USE DEF Fits, Grown
<1>1. \A j \in Insts : more[j] = IF j = i THEN b ELSE base[j]
  OBVIOUS
<1>2. ASSUME NEW j \in Insts
      PROVE  base[j] \subseteq 1 .. n /\ more[j] \subseteq 1 .. n
  <2>1. carried[j] \subseteq 1 .. n
    OBVIOUS
  <2>2. QED  BY <1>1, <2>1
<1>3. Taken(base) \in SUBSET (1 .. n) /\ Taken(more) \in SUBSET (1 .. n)
  BY <1>2 DEF Taken
<1>4. Taken(more) = Taken(base) \cup (b \ base[i])
  <2>1. ASSUME NEW x, x \in Taken(more) PROVE x \in Taken(base) \cup (b \ base[i])
    BY <1>1, <2>1 DEF Taken
  <2>2. ASSUME NEW x, x \in Taken(base) PROVE x \in Taken(more)
    BY <1>1, <2>2 DEF Taken
  <2>3. ASSUME NEW x, x \in b PROVE x \in Taken(more)
    BY <1>1, <2>3 DEF Taken
  <2>4. QED  BY <2>1, <2>2, <2>3
<1>5. Taken(base) \cap (b \ base[i]) = {}
  <2> SUFFICES ASSUME NEW x, x \in Taken(base), x \in b, x \notin base[i]
               PROVE  FALSE
    OBVIOUS
  <2>1. PICK j \in Insts : x \in base[j]
    BY DEF Taken
  <2>2. j # i /\ x \in carried[j] /\ x \in carried[i]
    BY <2>1
  <2>3. QED  BY <2>2 DEF Disjoint
<1>6. b \ base[i] \in SUBSET (1 .. n)
  BY <1>2, <1>1
<1>7. Cardinality(Taken(base) \cup (b \ base[i]))
         = Cardinality(Taken(base)) + Cardinality(b \ base[i])
  BY <1>3, <1>5, <1>6, MoreBytes
<1>8. QED  BY <1>3, <1>4, <1>7

LEMMA TakenBytes ==
    ASSUME Base, NEW carried, NEW points, NEW base, NEW u, NEW c,
           LedgerOK(carried, points, portal, sent, now),
           AccountedOK(base, points, u, c)
    PROVE  /\ carried \in [Insts -> SUBSET (1 .. sent)] /\ sent \in Nat
           /\ Disjoint(carried)
           /\ base \in [Insts -> SUBSET Nat]
           /\ \A i \in Insts : base[i] \subseteq carried[i]
           /\ Taken(base) \in SUBSET (1 .. sent)
           /\ Cardinality(Taken(base)) \in Nat /\ Cardinality(Taken(base)) <= sent
<1>1. /\ carried \in [Insts -> SUBSET (1 .. sent)] /\ sent \in Nat
      /\ Disjoint(carried)
      /\ base \in [Insts -> SUBSET Nat]
  BY Numbers DEF LedgerOK, AccountedOK, Base, Parts
<1>2. ASSUME NEW i \in Insts PROVE base[i] \subseteq carried[i]
  <2>1. \/ base[i] = {}
        \/ \E p \in points : p.inst = i /\ p.bytes = base[i]
    BY DEF AccountedOK
  <2>2. \A p \in points : p.bytes \subseteq carried[p.inst]
    BY DEF LedgerOK, Covers
  <2>3. QED  BY <2>1, <2>2
<1>3. Taken(base) \in SUBSET (1 .. sent)
  <2> SUFFICES ASSUME NEW i \in Insts, NEW x \in base[i] PROVE x \in 1 .. sent
    BY DEF Taken
  <2>1. x \in carried[i] /\ carried[i] \in SUBSET (1 .. sent)
    BY <1>1, <1>2
  <2>2. QED  BY <2>1
<1>4. Cardinality(Taken(base)) \in Nat /\ Cardinality(Taken(base)) <= sent
  BY <1>1, <1>3, FiniteBytes
<1>5. QED  BY <1>1, <1>2, <1>3, <1>4

\* An account that moves on to a point p of instance i.
Advances(base, points, p, i, u, c, v, e, carried, n) ==
    /\ Fits(base, carried, n) /\ AccountedOK(base, points, u, c)
    /\ i \in Insts /\ p \in points /\ p.inst = i /\ p.bytes \in SUBSET Nat
    /\ base[i] \subseteq p.bytes /\ p.bytes \subseteq carried[i]
    /\ p.at # Nil /\ e[i].at = p.at /\ e[i].count = p.count
    /\ \A j \in Insts : j # i => e[j] = c[j]
    /\ u.total \in Nat /\ v.total \in Nat
    /\ v.total <= u.total + Cardinality(p.bytes \ base[i])

LEMMA AccountedGrows ==
    ASSUME NEW base, NEW points, NEW p, NEW i, NEW u, NEW c, NEW v, NEW e,
           NEW carried, NEW n, Advances(base, points, p, i, u, c, v, e, carried, n)
    PROVE  \E more : AccountedOK(more, points, v, e)
<1> DEFINE b == p.bytes
<1>0. /\ Fits(base, carried, n) /\ AccountedOK(base, points, u, c)
      /\ i \in Insts /\ p \in points /\ p.inst = i /\ b \in SUBSET Nat
      /\ base[i] \subseteq b /\ b \subseteq carried[i]
      /\ p.at # Nil /\ e[i].at = p.at /\ e[i].count = p.count
      /\ \A j \in Insts : j # i => e[j] = c[j]
      /\ u.total \in Nat /\ v.total \in Nat
      /\ v.total <= u.total + Cardinality(b \ base[i])
  BY DEF Advances
<1> USE <1>0
<1>1. PICK more \in [Insts -> SUBSET Nat] :
         \A j \in Insts : more[j] = IF j = i THEN b ELSE base[j]
  <2>1. base \in [Insts -> SUBSET Nat]
    BY DEF Fits
  <2>2. [j \in Insts |-> IF j = i THEN b ELSE base[j]] \in [Insts -> SUBSET Nat]
    BY <2>1
  <2>3. QED  BY <2>2
<1>2. Grown(base, more, i, b, carried, n)
  BY <1>1 DEF Grown
<1>3. Cardinality(Taken(more)) = Cardinality(Taken(base)) + Cardinality(b \ base[i])
  BY <1>2, TakenMore
<1>4. Cardinality(Taken(base)) \in Nat /\ Cardinality(b \ base[i]) \in Nat
  <2>1. n \in Nat /\ carried \in [Insts -> SUBSET (1 .. n)]
        /\ \A j \in Insts : base[j] \subseteq carried[j]
    BY DEF Fits
  <2>2. Taken(base) \in SUBSET (1 .. n)
    <3> SUFFICES ASSUME NEW j \in Insts, NEW x \in base[j] PROVE x \in 1 .. n
      BY DEF Taken
    <3>1. x \in carried[j] /\ carried[j] \in SUBSET (1 .. n)
      BY <2>1
    <3>2. QED  BY <3>1
  <2>3. b \ base[i] \in SUBSET (1 .. n)
    BY <2>1
  <2>4. QED  BY <2>1, <2>2, <2>3, FiniteBytes
<1>5. u.total <= Cardinality(Taken(base))
  BY DEF AccountedOK
<1>6. v.total <= Cardinality(Taken(more))
  BY <1>3, <1>4, <1>5
<1>7. ASSUME NEW j \in Insts
      PROVE  IF e[j].at = Nil THEN e[j].count = 0 /\ more[j] = {}
             ELSE \E q \in points : /\ q.inst = j /\ q.at = e[j].at
                                    /\ q.count = e[j].count /\ q.bytes = more[j]
  <2>1. CASE j = i
    BY <1>1, <2>1
  <2>2. CASE j # i
    BY <1>1, <2>2 DEF AccountedOK
  <2>3. QED  BY <2>1, <2>2
<1>8. QED  BY <1>1, <1>6, <1>7 DEF AccountedOK

LEMMA AccountedObserves ==
    ASSUME Base, NEW carried, NEW points, NEW base,
           LedgerOK(carried, points, portal, sent, now),
           NEW w \in T!Tx, AccountedOK(base, points, w.usage, w.cursors),
           NEW s \in T!Sample, Truthful(s, points)
    PROVE  \E more : AccountedOK(more, points, T!Observed(w, s).usage,
                                 T!Observed(w, s).cursors)
<1> DEFINE i == s.inst
           c == w.cursors[i]
           d == T!CounterDelta(s.count, c.count)
           o == T!Observed(w, s)
<1>1. CASE c.at # Nil /\ s.at <= c.at
  BY <1>1, ObservedParts
<1>2. CASE ~(c.at # Nil /\ s.at <= c.at)
  <2>1. /\ o.cursors = [w.cursors EXCEPT ![i] = [at |-> s.at, count |-> s.count]]
        /\ o.usage.total = T!Add(w.usage.total, d)
    BY <1>2, ObservedParts
  <2>2. /\ i \in Insts /\ s.at \in Nat /\ s.at # Nil /\ s.count \in Nat
        /\ w.cursors \in [Insts -> T!Cursor] /\ w.usage.total \in T!Count
        /\ c.at \in Nat \cup {Nil} /\ c.count \in Nat
        /\ MaxCount \in Nat /\ s.count <= MaxCount /\ c.count <= MaxCount
    <3>1. /\ i \in Insts /\ s.at \in Nat /\ s.count \in 0 .. MaxBytes
          /\ w.cursors \in [Insts -> T!Cursor] /\ w.usage \in T!Usage
          /\ MaxCount \in Nat /\ MaxBytes <= MaxCount
      BY Numbers, PortalAssumption, AccountConstants
         DEF T!Sample, T!Tx, P!TrafficAssumption
    <3>2. c \in T!Cursor
      BY <3>1
    <3>3. QED  BY <3>1, <3>2, Numbers DEF T!Cursor, T!Count, T!Usage
  <2> HIDE DEF o
  <2>3. PICK p \in points : p.inst = i /\ p.at = s.at /\ p.count = s.count
    BY DEF Truthful, Tells
  <2>4. /\ carried \in [Insts -> SUBSET (1 .. sent)] /\ sent \in Nat
        /\ Disjoint(carried)
        /\ base \in [Insts -> SUBSET Nat]
        /\ \A j \in Insts : base[j] \subseteq carried[j]
    BY TakenBytes
  <2>5. p.bytes \subseteq carried[i] /\ p.count <= Cardinality(p.bytes)
        /\ p.bytes \in SUBSET Nat /\ p.bytes \in SUBSET (1 .. sent)
    <3>1. p.bytes \subseteq carried[i] /\ p.count <= Cardinality(p.bytes)
          /\ p.bytes \in SUBSET Nat
      BY <2>3 DEF LedgerOK, Covers, Point
    <3>2. QED  BY <2>2, <2>4, <3>1
  <2>6. base[i] \subseteq p.bytes /\ d <= Cardinality(p.bytes \ base[i])
    <3>1. CASE c.at = Nil
      <4>1. c.count = 0 /\ base[i] = {}
        BY <2>2, <3>1 DEF AccountedOK
      <4>2. d = s.count /\ p.bytes \ base[i] = p.bytes
        BY <2>2, <4>1 DEF T!CounterDelta
      <4>3. QED  BY <2>3, <2>5, <4>1, <4>2
    <3>2. CASE c.at # Nil
      <4>1. PICK q \in points : /\ q.inst = i /\ q.at = c.at
                                /\ q.count = c.count /\ q.bytes = base[i]
        BY <2>2, <3>2 DEF AccountedOK
      <4>2. q.at < p.at
        BY <1>2, <2>2, <2>3, <3>2, <4>1
      <4>3. Covers(p.count, q, p.bytes)
        BY <2>3, <4>1, <4>2 DEF LedgerOK
      <4>4. QED  BY <2>3, <4>1, <4>3 DEF Covers
    <3>3. QED  BY <3>1, <3>2
  <2>7. d \in Nat
    BY <2>2 DEF T!CounterDelta
  <2>8. Fits(base, carried, sent)
    BY <2>4 DEF Fits
  <2>9. Cardinality(p.bytes \ base[i]) \in Nat
    <3>1. p.bytes \ base[i] \in SUBSET (1 .. sent)
      BY <2>5
    <3>2. QED  BY <2>4, <3>1, FiniteBytes
  <2> HIDE DEF d, i, c
  <2>10. o.usage.total \in Nat /\ w.usage.total \in Nat
         /\ o.usage.total <= w.usage.total + Cardinality(p.bytes \ base[i])
    <3>1. w.usage.total \in Nat
      BY <2>2 DEF T!Count
    <3>2. /\ T!Add(w.usage.total, d) \in Nat
          /\ T!Add(w.usage.total, d) <= w.usage.total + d
      BY <2>2, <2>7, <3>1 DEF T!Add, T!Count
    <3>3. QED  BY <2>1, <2>6, <2>7, <2>9, <3>1, <3>2
  <2>11. /\ o.cursors[i].at = p.at /\ o.cursors[i].count = p.count /\ p.at # Nil
         /\ \A j \in Insts : j # i => o.cursors[j] = w.cursors[j]
    BY <2>1, <2>2, <2>3
  <2>12. \E more : AccountedOK(more, points, o.usage, o.cursors)
    <3>1. Advances(base, points, p, i, w.usage, w.cursors, o.usage, o.cursors,
                   carried, sent)
      BY <2>2, <2>3, <2>5, <2>6, <2>8, <2>10, <2>11 DEF Advances
    <3>2. QED  BY <3>1, AccountedGrows
  <2>13. QED  BY <2>12 DEF o
<1>3. QED  BY <1>1, <1>2

-----------------------------------------------------------------------------
(* The history, as long as the Portals are only reported and deleted. *)

\* A transaction works on truthful samples, on a copy that is accounted.
TxOK(copy, points, x) ==
    x # T!NoTx =>
        /\ AccountedOK(copy, points, x.usage, x.cursors)
        /\ \A s \in x.todo : Truthful(s, points)
        /\ x.op = "observe" => Truthful(x.sample, points)

History(carried, points, base, copy) ==
    /\ LedgerOK(carried, points, portal, sent, now)
    /\ AccountedOK(base, points, usage, cursors)
    /\ TxOK(copy, points, tx)
    /\ \A e \in Pending : Truthful(e, points)
    /\ \A s \in T!Stored : Truthful(s, points)

OnlyDeletes == mix.callers \subseteq {"delete"}
HistoryOK == OnlyDeletes => \E carried, points, base, copy :
                                History(carried, points, base, copy)

\* More points tell as much.
LEMMA MorePoints ==
    ASSUME NEW p, NEW q, p \subseteq q
    PROVE  /\ \A s : Truthful(s, p) => Truthful(s, q)
           /\ \A b, u, c : AccountedOK(b, p, u, c) => AccountedOK(b, q, u, c)
<1>1. \A s : Truthful(s, p) => Truthful(s, q)
  BY DEF Truthful
<1>2. ASSUME NEW b, NEW u, NEW c, AccountedOK(b, p, u, c)
      PROVE  AccountedOK(b, q, u, c)
  BY <1>2 DEF AccountedOK
<1>3. QED  BY <1>1, <1>2

LEMMA SameTotal ==
    ASSUME NEW b, NEW p, NEW u, NEW c, NEW v, v.total = u.total,
           AccountedOK(b, p, u, c)
    PROVE  AccountedOK(b, p, v, c)
BY DEF AccountedOK

\* Rows come from the event the worker is at, and go.
LEMMA StoredSteps ==
    ASSUME Base, OrderOK, EditedOK, OnlyDeletes, [Next]_vars
    PROVE  \A i \in Insts :
              \/ rows'[i] = Nil
              \/ rows'[i] = rows[i] /\ asof'[i] = asof[i]
              \/ /\ worker.pc \in {"insert", "update"}
                 /\ worker.event.inst = i
                 /\ rows'[i] = EventRow(worker.event)
                 /\ asof'[i] = worker.event.at
<1>1. rows \in [Insts -> T!Row \cup {Nil}] /\ asof \in [Insts -> T!Time]
  BY DEF Base, T!TypeOK, Parts
<1>2. api.pc # "idle" => api.op = "delete"
  BY DEF OrderOK, OnlyDeletes
<1>3. CASE UNCHANGED <<rows, asof>>
  BY <1>3
<1>4. CASE WorkerInsert \/ WorkerUpdate
  <2>1. worker.pc \in {"insert", "update"}
    BY <1>4 DEF WorkerInsert, WorkerUpdate
  <2>2. \/ UNCHANGED <<rows, asof>>
        \/ /\ rows' = [rows EXCEPT ![worker.event.inst] = EventRow(worker.event)]
           /\ asof' = [asof EXCEPT ![worker.event.inst] = worker.event.at]
    BY <1>4 DEF WorkerInsert, WorkerUpdate
  <2>3. QED  BY <1>1, <2>1, <2>2
<1>5. CASE WorkerDelete
  BY <1>1, <1>5 DEF WorkerDelete
<1>6. ~WorkerShutdown
  <2> SUFFICES ASSUME WorkerShutdown PROVE FALSE
    OBVIOUS
  <2>1. Head(stream) \in Pending /\ Head(stream).kind = "shutdown"
    BY QueueTail DEF WorkerShutdown, Pending
  <2>2. QED  BY <2>1 DEF EditedOK, OnlyDeletes
<1>7. CASE ApiWrite
  <2>1. api.op = "delete" /\ rows' = [rows EXCEPT ![api.inst] = Nil]
        /\ UNCHANGED asof
    BY <1>2, <1>7 DEF ApiWrite
  <2>2. QED  BY <1>1, <2>1
<1>8. ~ApiRefresh /\ ~ApiObserved
  BY <1>2 DEF ApiRefresh, ApiObserved
<1>9. ASSUME NEW i \in Insts,
             \/ Carry(i) \/ InstanceRestarts(i) \/ Report(i) \/ Shutdown(i)
             \/ ApiTouch(i) \/ \E op \in Calls : ApiStart(op, i)
      PROVE  UNCHANGED <<rows, asof>>
  BY <1>9 DEF Carry, InstanceRestarts, Report, Shutdown, ApiTouch, ApiStart,
              Others, Elsewhere, OnlyDeletes
<1>10. CASE ApiSync \/ ApiSynced \/ ApiCall \/ ApiObserve \/ ApiFails
  BY <1>3, <1>10, ObserveBegins, SyncBegins, TransactionEnds
     DEF ApiSync, ApiSynced, ApiCall, ApiObserve, ApiFails
<1>11. CASE SchedulerSync \/ SchedulerCommit \/ SchedulerFails \/ SyncRow
            \/ Lose \/ Tick \/ Crash \/ UNCHANGED vars
  BY <1>3, <1>11, SyncBegins, TransactionEnds
     DEF SchedulerSync, SchedulerCommit, SchedulerFails, SyncRow, T!SyncRow,
         Lose, Tick, T!Tick, Crash, Unmoved, Others, vars
<1>12. CASE WorkerTake \/ WorkerObserved \/ WorkerFails \/ WorkerWriteFails
            \/ WorkerCheckDelete
  BY <1>3, <1>12, ObserveBegins, TransactionEnds
     DEF WorkerTake, WorkerObserved, WorkerFails, WorkerWriteFails,
         WorkerCheckDelete, Outside
<1>13. QED
  BY <1>3, <1>4, <1>5, <1>6, <1>7, <1>8, <1>9, <1>10, <1>11, <1>12
     DEF Next, WorkerStep, ApiStep

\* So what the next SyncEndpoint finds was there, or is that event.
LEMMA StoredNext ==
    ASSUME Base, OrderOK, EditedOK, OnlyDeletes, [Next]_vars, NEW s \in T!Stored'
    PROVE  \/ s \in T!Stored
           \/ /\ worker.pc \in {"insert", "update"} /\ worker.event \in Pending
              /\ s = EventSample(worker.event)
<1>1. PICK i \in Insts : /\ rows'[i] # Nil
                         /\ s = [inst |-> i, at |-> T!SampledAt(rows'[i]),
                                 count |-> rows'[i].count]
  <2>1. T!Stored' = {[inst |-> i, at |-> T!SampledAt(rows'[i]),
                      count |-> rows'[i].count] : i \in {j \in Insts : rows'[j] # Nil}}
    BY DEF T!Stored, T!SampledAt
  <2>2. QED  BY <2>1
<1>2. CASE rows'[i] = rows[i]
  BY <1>1, <1>2 DEF T!Stored
<1>3. CASE /\ worker.pc \in {"insert", "update"}
           /\ worker.event.inst = i /\ rows'[i] = EventRow(worker.event)
  <2>1. worker.event \in Pending /\ worker.event.at # Nil
    BY <1>3, PendingFacts, Numbers DEF Pending
  <2>2. T!SampledAt(EventRow(worker.event)) = worker.event.at
        /\ EventRow(worker.event).count = worker.event.count
    BY <2>1 DEF T!SampledAt, EventRow
  <2>3. QED  BY <1>1, <1>3, <2>1, <2>2 DEF EventSample
<1>4. QED  BY <1>1, <1>2, <1>3, StoredSteps

\* What a step does to the account.
AccountMoves ==
    \/ UNCHANGED <<usage, cursors, tx>>
    \/ tx' = T!NoTx /\ UNCHANGED <<usage, cursors>>
    \/ T!SyncRow
    \/ T!BeginSync(now)
    \/ WorkerTake
    \/ T!CommitSync
    \/ WorkerObserved

LEMMA AccountMovesOn ==
    ASSUME Base, OrderOK, OnlyDeletes, [Next]_vars
    PROVE  AccountMoves
<1> USE DEF AccountMoves
<1>1. ~ApiObserve /\ ~ApiObserved
  BY DEF ApiObserve, ApiObserved, OrderOK, OnlyDeletes, Base, ApiOK
<1>2. CASE WorkerTake
  BY <1>2 DEF WorkerTake
<1>3. CASE WorkerObserved \/ ApiSynced \/ ApiRefresh \/ SchedulerCommit
           \/ SchedulerSync \/ ApiSync \/ SyncRow
  BY <1>3 DEF WorkerObserved, ApiSynced, ApiRefresh, SchedulerCommit,
              SchedulerSync, ApiSync, SyncRow
<1>4. CASE WorkerFails \/ SchedulerFails \/ ApiFails \/ Crash
  BY <1>4 DEF WorkerFails, SchedulerFails, ApiFails, Crash, T!Rollback, account
<1>5. CASE WorkerInsert \/ WorkerUpdate \/ WorkerWriteFails \/ WorkerCheckDelete
           \/ WorkerDelete \/ WorkerShutdown
  BY <1>5 DEF WorkerInsert, WorkerUpdate, WorkerWriteFails, WorkerCheckDelete,
              WorkerDelete, WorkerShutdown, account
<1>6. CASE ApiCall \/ ApiWrite
  BY <1>6 DEF ApiCall, ApiWrite, account
<1>7. ASSUME NEW i \in Insts,
             \/ Carry(i) \/ InstanceRestarts(i) \/ Report(i) \/ Shutdown(i)
             \/ ApiTouch(i) \/ \E op \in Calls : ApiStart(op, i)
      PROVE  UNCHANGED <<usage, cursors, tx>>
  BY <1>7 DEF Carry, InstanceRestarts, Report, Shutdown, ApiTouch, ApiStart,
              Others, account
<1>8. CASE Lose \/ Tick \/ UNCHANGED vars
  BY <1>8 DEF Lose, Tick, T!Tick, Others, vars
<1>9. QED
  BY <1>1, <1>2, <1>3, <1>4, <1>5, <1>6, <1>7, <1>8
     DEF Next, WorkerStep, ApiStep

\* What is known of a transaction's copy.
LEMMA CopyFacts ==
    ASSUME Base, tx # T!NoTx
    PROVE  /\ tx \in T!Tx /\ tx.todo \subseteq T!Sample
           /\ tx.op = "observe" => tx.sample \in T!Sample
           /\ P!PlannedReset(tx.usage) /\ tx.usage.used <= tx.usage.total
           /\ tx.time \in P!Time
BY SameTypes DEF Base, T!TypeOK, P!IInv, P!CopyOK, P!UsedWithinTotal, P!Tx

\* The account before the sample of CommitObserve is worked in.
Renewed(x) == [T!Initialized(x) EXCEPT !.usage = T!ResetDue(@, x.time)]

LEMMA RenewedFacts ==
    ASSUME Base, tx # T!NoTx
    PROVE  /\ Renewed(tx) \in T!Tx /\ Renewed(tx).cursors = tx.cursors
           /\ Renewed(tx).usage.total = tx.usage.total
           /\ T!Initialized(tx).usage.total = tx.usage.total
           /\ T!Initialized(tx).cursors = tx.cursors
           /\ T!Initialized(tx).usage.initialized
           /\ Renewed(tx).usage.initialized
           /\ Renewed(tx).usage.used <= Renewed(tx).usage.total
<1> DEFINE w == P!Initialized(tx)
           m == [tx.usage EXCEPT !.initialized = TRUE]
<1>1. /\ tx \in P!Tx /\ P!PlannedReset(tx.usage)
      /\ tx.usage.used <= tx.usage.total /\ tx.time \in P!Time
      /\ tx.usage \in P!Usage
  BY CopyFacts, SameTypes DEF P!Tx
<1>2. /\ w \in P!Tx /\ w.usage = m /\ m \in P!Usage /\ w.cursors = tx.cursors
  BY <1>1, AccountConstants, P!InitializedFacts
<1>3. m.total = tx.usage.total /\ m.used = tx.usage.used /\ P!PlannedReset(m)
      /\ m.initialized
  BY <1>1 DEF P!Usage, P!PlannedReset
<1> HIDE DEF w, m
<1>4. P!ResetDue(m, tx.time) \in P!Usage
      /\ P!ResetDue(m, tx.time).total = m.total
      /\ P!ResetDue(m, tx.time).used <= P!ResetDue(m, tx.time).total
      /\ P!ResetDue(m, tx.time).initialized
  <2>1. P!ResetDue(m, tx.time).initialized
    BY <1>2, <1>3 DEF P!ResetDue, P!Usage
  <2>2. QED
    BY <1>1, <1>2, <1>3, <2>1, AccountConstants, P!ResetFacts
<1>5. Renewed(tx) = [w EXCEPT !.usage = P!ResetDue(w.usage, tx.time)]
  BY <1>2, SameOperations DEF Renewed, w
<1>6. /\ Renewed(tx) \in P!Tx /\ Renewed(tx).cursors = w.cursors
      /\ Renewed(tx).usage = P!ResetDue(m, tx.time)
  BY <1>2, <1>4, <1>5 DEF P!Tx
<1>7. T!Initialized(tx) = w
  BY SameOperations DEF w
<1>8. QED  BY <1>2, <1>3, <1>4, <1>6, <1>7, SameTypes

\* Every step takes the history further.
LEMMA NextAccount ==
    ASSUME Base, OrderOK, EditedOK, OnlyDeletes, [Next]_vars,
           NEW carried, NEW points, NEW base, NEW copy,
           History(carried, points, base, copy)
    PROVE  \E b, c : AccountedOK(b, points, usage', cursors') /\ TxOK(c, points, tx')
<1> USE DEF History
<1>1. AccountMoves
  BY AccountMovesOn
<1>2. CASE UNCHANGED <<usage, cursors, tx>>
  BY <1>2
<1>3. CASE tx' = T!NoTx /\ UNCHANGED <<usage, cursors>>
  BY <1>3 DEF TxOK
<1>4. CASE T!SyncRow
  <2>1. tx # T!NoTx /\ UNCHANGED <<usage, cursors>>
    BY <1>4 DEF T!SyncRow
  <2>2. PICK s \in tx.todo : tx' = [T!Observed(tx, s) EXCEPT !.todo = @ \ {s}]
    BY <1>4 DEF T!SyncRow
  <2>3. /\ tx \in T!Tx /\ s \in T!Sample /\ Truthful(s, points)
        /\ AccountedOK(copy, points, tx.usage, tx.cursors)
        /\ tx.usage.used <= tx.usage.total
    BY <2>1, CopyFacts DEF TxOK
  <2> DEFINE o == T!Observed(tx, s)
  <2>4. PICK more : AccountedOK(more, points, o.usage, o.cursors)
    BY <2>3, AccountedObserves
  <2>5. o \in T!Tx /\ o.todo = tx.todo /\ o.op = tx.op /\ o.sample = tx.sample
    BY <2>3, SameTypes, SameOperations, AccountConstants, P!ObservedFacts
  <2> HIDE DEF o
  <2>6. tx' = [o EXCEPT !.todo = @ \ {s}]
    BY <2>2 DEF o
  <2>7. /\ tx'.usage = o.usage /\ tx'.cursors = o.cursors
        /\ tx'.todo \subseteq tx.todo /\ tx'.op = tx.op /\ tx'.sample = tx.sample
    BY <2>5, <2>6 DEF T!Tx
  <2>8. TxOK(more, points, tx')
    BY <2>1, <2>4, <2>7 DEF TxOK
  <2>9. QED  BY <2>1, <2>8
<1>5. ASSUME NEW op, NEW u, NEW todo, NEW sample,
             T!Begin(op, now, u, todo, sample, Nil), u.total = usage.total,
             todo \subseteq T!Stored, op = "observe" => Truthful(sample, points)
      PROVE  TxOK(base, points, tx') /\ UNCHANGED <<usage, cursors>>
  <2>1. /\ tx'.op = op /\ tx'.usage = u /\ tx'.cursors = cursors
        /\ tx'.todo = todo /\ tx'.sample = sample /\ UNCHANGED <<usage, cursors>>
    BY <1>5 DEF T!Begin
  <2>2. AccountedOK(base, points, u, cursors)
    BY <1>5, SameTotal
  <2>3. QED  BY <1>5, <2>1, <2>2 DEF TxOK
<1>6. CASE T!BeginSync(now)
  <2>1. T!ResetDue(usage, now).total = usage.total
    <3>1. /\ usage \in P!Usage /\ now \in P!Time /\ usage.used <= usage.total
          /\ P!PlannedReset(usage)
      BY DEF Base, P!IInv, P!TypeOK, P!UsedWithinTotal
    <3>2. QED  BY <3>1, SameOperations, AccountConstants, P!ResetFacts
  <2>2. QED  BY <1>5, <1>6, <2>1 DEF T!BeginSync
<1>7. CASE WorkerTake
  <2>0. stream # << >> /\ T!BeginObserve(EventSample(Head(stream)), now)
    BY <1>7 DEF WorkerTake
  <2>1. Head(stream) \in Pending
    BY <2>0, QueueTail DEF Pending
  <2>2. Truthful(EventSample(Head(stream)), points)
    BY <2>1 DEF Truthful, Tells, EventSample
  <2>3. QED  BY <1>5, <2>0, <2>2 DEF T!BeginObserve
<1>8. CASE T!CommitSync
  <2>1. /\ tx # T!NoTx /\ tx' = T!NoTx
        /\ usage' = T!Initialized(tx).usage /\ cursors' = T!Initialized(tx).cursors
    BY <1>8 DEF T!CommitSync, T!Publish, T!NoTx
  <2>2. usage'.total = tx.usage.total /\ cursors' = tx.cursors
    BY <2>1, RenewedFacts
  <2>3. AccountedOK(copy, points, usage', cursors')
    BY <2>1, <2>2, SameTotal DEF TxOK
  <2>4. QED  BY <2>1, <2>3 DEF TxOK
<1>9. CASE WorkerObserved
  <2> DEFINE w == Renewed(tx)
             o == T!Observed(w, tx.sample)
  <2>1. /\ tx # T!NoTx /\ tx' = T!NoTx /\ tx.op = "observe"
        /\ usage' = o.usage /\ cursors' = o.cursors
    BY <1>9 DEF WorkerObserved, T!CommitObserve, T!Publish, T!NoTx, Renewed
  <2>2. w \in T!Tx /\ w.usage.total = tx.usage.total /\ w.cursors = tx.cursors
    BY <2>1, RenewedFacts
  <2>3. tx.sample \in T!Sample /\ Truthful(tx.sample, points)
        /\ AccountedOK(copy, points, tx.usage, tx.cursors)
    BY <2>1, CopyFacts DEF TxOK
  <2>4. AccountedOK(copy, points, w.usage, w.cursors)
    BY <2>2, <2>3, SameTotal
  <2> HIDE DEF w
  <2>5. \E more : AccountedOK(more, points, o.usage, o.cursors)
    BY <2>2, <2>3, <2>4, AccountedObserves
  <2>6. QED  BY <2>1, <2>5 DEF TxOK
<1>10. QED
  BY <1>1, <1>2, <1>3, <1>4, <1>5, <1>6, <1>7, <1>8, <1>9 DEF AccountMoves

LEMMA NextHistory ==
    Base /\ OrderOK /\ EditedOK /\ HistoryOK /\ [Next]_vars => HistoryOK'
<1> SUFFICES ASSUME Base, OrderOK, EditedOK, HistoryOK, [Next]_vars, OnlyDeletes
             PROVE  HistoryOK'
  BY WorkerTo DEF HistoryOK, OnlyDeletes
<1>1. PICK carried, points, base, copy : History(carried, points, base, copy)
  BY DEF HistoryOK
<1>0. PICK all : all = points \cup Standing(carried)
  OBVIOUS
<1>2. LedgerOK(carried, all, portal, sent, now)
  BY <1>0, <1>1, LedgerStands DEF History
<1>3. /\ \A s : Truthful(s, points) => Truthful(s, all)
      /\ \A b, u, c : AccountedOK(b, points, u, c) => AccountedOK(b, all, u, c)
  <2>1. points \subseteq all
    BY <1>0
  <2>2. QED  BY <2>1, MorePoints
<1>4. ASSUME NEW e \in Pending', NewEvent(e), e.kind # "shutdown"
      PROVE  Truthful(e, all)
  <2>1. e \in Event
    <3>1. Parts' /\ WorkerOK'
      BY NextBase DEF Base
    <3>2. \A k \in 1 .. Len(stream') : stream'[k] \in Event
      BY <3>1 DEF Parts
    <3>3. worker'.pc # "idle" => worker'.event \in Event
      BY <3>1 DEF WorkerOK
    <3>4. QED  BY <3>2, <3>3 DEF Pending
  <2>2. e.inst \in Insts /\ e.at = now /\ e.count = portal[e.inst].count
    BY <1>4, <2>1 DEF NewEvent, Event
  <2> DEFINE p == [inst |-> e.inst, at |-> now, count |-> portal[e.inst].count,
                   bytes |-> carried[e.inst]]
  <2>3. p \in all /\ Tells(e, p)
    BY <1>0, <2>2 DEF Standing, Tells
  <2>4. QED  BY <2>3 DEF Truthful
<1>5. History(carried, all, base, copy)
  BY <1>1, <1>2, <1>3 DEF History, TxOK
<1>6. PICK more : LedgerOK(more, all, portal', sent', now')
  BY <1>2, LedgerGoesOn
<1>7. PICK b, c : AccountedOK(b, all, usage', cursors') /\ TxOK(c, all, tx')
  BY <1>5, NextAccount
<1>8. \A e \in Pending' : Truthful(e, all)
  <2>1. \A e \in Pending' : e.kind # "shutdown"
    BY NextEdited, WorkerTo DEF EditedOK, OnlyDeletes
  <2>2. QED  BY <1>4, <1>5, <2>1, PendingSteps DEF History
<1>9. \A s \in T!Stored' : Truthful(s, all)
  <2> SUFFICES ASSUME NEW s \in T!Stored' PROVE Truthful(s, all)
    OBVIOUS
  <2>1. CASE s \in T!Stored
    BY <1>5, <2>1 DEF History
  <2>2. CASE worker.event \in Pending /\ s = EventSample(worker.event)
    BY <1>5, <2>2 DEF History, Truthful, Tells, EventSample
  <2>3. QED  BY <2>1, <2>2, StoredNext
<1>10. History(more, all, b, c)'
  BY <1>6, <1>7, <1>8, <1>9 DEF History
<1>11. QED  BY <1>10 DEF HistoryOK

\* A Portal that is up at first has carried one byte.
LEMMA InitLedger ==
    ASSUME Init
    PROVE  \E carried : LedgerOK(carried, {}, portal, sent, now)
<1> DEFINE C == {i \in Insts : portal[i].count = 1}
<1>1. /\ sent = Cardinality(C) /\ sent \in Nat /\ ExistsBijection(1 .. sent, C)
  BY PortalAssumption, FS_Subset, FS_CardinalityType DEF Init
<1>2. PICK f : /\ f \in [1 .. sent -> C]
               /\ \A i \in C : \E k \in 1 .. sent : f[k] = i
  BY <1>1 DEF ExistsBijection, Bijection, Surjection
<1> DEFINE carried == [i \in Insts |-> {k \in 1 .. sent : f[k] = i}]
<1>3. carried \in [Insts -> SUBSET (1 .. sent)] /\ Disjoint(carried)
  BY DEF Disjoint
<1>4. ASSUME NEW i \in Insts
      PROVE  portal[i].count <= Cardinality(carried[i])
  <2>1. /\ carried[i] \in SUBSET (1 .. sent) /\ IsFiniteSet(carried[i])
        /\ Cardinality(carried[i]) \in Nat
    BY <1>1, <1>3, FiniteBytes
  <2>2. portal[i].count \in {0, 1}
    BY DEF Init
  <2>3. ASSUME portal[i].count = 1 PROVE Cardinality(carried[i]) # 0
    <3>1. carried[i] # {}
      BY <1>2, <2>3
    <3> HIDE DEF carried
    <3>2. QED  BY <2>1, <3>1, FS_EmptySet
  <2>4. QED  BY <2>1, <2>2, <2>3
<1> HIDE DEF carried
<1>5. LedgerOK(carried, {}, portal, sent, now)
  BY <1>3, <1>4 DEF LedgerOK
<1>6. QED  BY <1>5

LEMMA InitHistory == Init => HistoryOK
<1> SUFFICES ASSUME Init, OnlyDeletes PROVE HistoryOK
  BY DEF HistoryOK
<1>1. Base
  BY InitBase
<1>2. PICK carried : LedgerOK(carried, {}, portal, sent, now)
  BY InitLedger
<1>3. PICK points : points = Standing(carried)
  OBVIOUS
<1>4. LedgerOK(carried, points, portal, sent, now)
  BY <1>1, <1>2, <1>3, LedgerStands
<1> DEFINE base == [i \in Insts |-> {}]
<1>5. AccountedOK(base, points, usage, cursors)
  <2>1. Taken(base) = {} /\ Cardinality({}) = 0
    BY FS_EmptySet DEF Taken
  <2>2. usage.total = 0 /\ cursors = [i \in Insts |-> [at |-> Nil, count |-> 0]]
    BY DEF Init, T!Init
  <2>3. \A i \in Insts : base[i] = {} /\ cursors[i].at = Nil /\ cursors[i].count = 0
    BY <2>2
  <2>4. base \in [Insts -> SUBSET Nat]
    OBVIOUS
  <2> HIDE DEF base
  <2>5. QED  BY <2>1, <2>2, <2>3, <2>4 DEF AccountedOK
<1>6. tx = T!NoTx /\ Pending = {}
  BY DEF Init, T!Init, Pending
<1>7. ASSUME NEW s \in T!Stored PROVE Truthful(s, points)
  <2>1. PICK i \in Insts : /\ rows[i] # Nil
                           /\ s = [inst |-> i, at |-> T!SampledAt(rows[i]),
                                   count |-> rows[i].count]
    BY DEF T!Stored
  <2>2. rows[i].event = Nil /\ rows[i].updated = 0 /\ now = 0
        /\ rows[i].count = portal[i].count
    BY <2>1 DEF Init, T!Init
  <2> DEFINE p == [inst |-> i, at |-> now, count |-> portal[i].count,
                   bytes |-> carried[i]]
  <2>3. p \in points /\ Tells(s, p)
    BY <1>3, <2>1, <2>2 DEF Standing, Tells, T!SampledAt
  <2>4. QED  BY <2>3 DEF Truthful
<1>8. History(carried, points, base, base)
  BY <1>4, <1>5, <1>6, <1>7 DEF History, TxOK
<1>9. QED  BY <1>8 DEF HistoryOK

-----------------------------------------------------------------------------
(* What the rows say is in the total. *)

\* No cursor stands higher than the total.
Covered(u, c) == \A i \in Insts : c[i].count <= u.total

ValueOK ==
    /\ Covered(usage, cursors)
    /\ tx # T!NoTx => Covered(tx.usage, tx.cursors)

Fresh(w, s) == w.cursors[s.inst].at # Nil => s.at > w.cursors[s.inst].at

\* A sample that is newer than its cursor is covered with it.
LEMMA ObservedCovers ==
    ASSUME NEW w \in T!Tx, NEW s \in T!Sample, Covered(w.usage, w.cursors)
    PROVE  LET o == T!Observed(w, s)
               c == w.cursors[s.inst]
           IN  /\ Covered(o.usage, o.cursors) /\ o.usage.total >= w.usage.total
               /\ ~(c.at # Nil /\ s.at <= c.at) => s.count <= o.usage.total
<1> DEFINE i == s.inst
           c == w.cursors[i]
           d == T!CounterDelta(s.count, c.count)
           o == T!Observed(w, s)
<1>1. /\ i \in Insts /\ s.count \in Nat /\ s.count <= MaxCount
      /\ w.cursors \in [Insts -> T!Cursor] /\ w.usage.total \in T!Count
      /\ MaxCount \in Nat
  <2>1. /\ s.count \in 0 .. MaxBytes /\ w.usage \in T!Usage
        /\ MaxCount \in Nat /\ MaxBytes < MaxCount /\ MaxBytes \in Nat
    BY Numbers, PortalAssumption, AccountConstants
       DEF T!Sample, T!Tx, P!TrafficAssumption
  <2>2. QED  BY <2>1 DEF T!Sample, T!Tx, T!Usage
<1>2. \A j \in Insts : w.cursors[j].count \in Nat /\ w.cursors[j].count <= MaxCount
                       /\ w.cursors[j].count <= w.usage.total
  BY <1>1 DEF T!Cursor, T!Count, Covered
<1>3. w.usage.total \in Nat /\ w.usage.total <= MaxCount
  BY <1>1 DEF T!Count
<1>4. CASE c.at # Nil /\ s.at <= c.at
  <2>1. o = w
    BY <1>4, ObservedParts
  <2> HIDE DEF o
  <2>2. QED  BY <1>3, <1>4, <2>1 DEF o
<1>5. CASE ~(c.at # Nil /\ s.at <= c.at)
  <2>1. /\ o.cursors = [w.cursors EXCEPT ![i] = [at |-> s.at, count |-> s.count]]
        /\ o.usage.total = T!Add(w.usage.total, d)
    BY <1>5, ObservedParts
  <2> HIDE DEF o
  <2>2. c.count \in Nat /\ c.count <= w.usage.total
    BY <1>1, <1>2
  <2>3. d \in Nat /\ d + c.count >= s.count
    BY <1>1, <2>2 DEF T!CounterDelta
  <2> HIDE DEF d, c
  <2>4. /\ o.usage.total \in Nat /\ o.usage.total >= w.usage.total
        /\ s.count <= o.usage.total
    BY <1>1, <1>3, <2>1, <2>2, <2>3 DEF T!Add
  <2>5. \A j \in Insts : o.cursors[j].count \in {s.count, w.cursors[j].count}
    BY <1>1, <2>1
  <2>6. ASSUME NEW j \in Insts PROVE o.cursors[j].count <= o.usage.total
    BY <1>2, <1>3, <2>4, <2>5
  <2>7. QED  BY <1>1, <2>4, <2>6 DEF Covered, o
<1>6. QED  BY <1>4, <1>5

\* The total only grows, an account once initialized stays so, and what ends
\* a transaction leaves an initialized one.
AccountGrows ==
    /\ usage'.total \in Nat /\ usage.total \in Nat
    /\ usage'.total >= usage.total
    /\ usage.initialized => usage'.initialized
    /\ UNCHANGED <<usage, cursors>> \/ usage'.initialized
    /\ UNCHANGED <<usage, cursors>> \/
          /\ tx # T!NoTx /\ tx.todo = {}
          /\ usage'.total >= tx.usage.total

LEMMA ValueFacts ==
    ASSUME Base, [Next]_vars, ValueOK
    PROVE  /\ usage.total \in Nat /\ usage'.total \in Nat
           /\ tx # T!NoTx => /\ usage.total <= tx.usage.total
                             /\ tx.usage.total \in Nat
                             /\ Covered(tx.usage, tx.cursors)
<1>1. /\ usage \in T!Usage /\ usage' \in T!Usage
      /\ usage.total \in Nat /\ usage'.total \in Nat
  <2>1. T!TypeOK /\ T!TypeOK'
    BY NextBase DEF Base
  <2>2. usage \in T!Usage /\ usage' \in T!Usage
    BY <2>1 DEF T!TypeOK
  <2>3. QED  BY <2>2 DEF T!Usage, T!Count
<1>2. tx # T!NoTx => /\ usage.total <= tx.usage.total /\ tx.usage.total \in Nat
                      /\ Covered(tx.usage, tx.cursors)
  <2>1. tx # T!NoTx => tx.usage \in T!Usage
    BY CopyFacts DEF T!Tx
  <2>2. QED
    BY <2>1, SameTypes DEF Base, P!IInv, P!CopyOK, P!CopyOf, ValueOK, T!Usage, T!Count
<1>3. QED  BY <1>1, <1>2

\* What the worker has had accounted is in the total.
LEMMA ObservedIn ==
    ASSUME Base, [Next]_vars, ValueOK, WorkerObserved
    PROVE  /\ ValueOK' /\ AccountGrows /\ usage'.initialized
           /\ Fresh(tx, EventSample(worker.event)) =>
                 worker.event.count <= usage'.total
<1> DEFINE w == Renewed(tx)
           s == EventSample(worker.event)
           o == T!Observed(w, tx.sample)
<1>1. /\ tx # T!NoTx /\ tx.todo = {} /\ tx' = T!NoTx /\ tx.op = "observe"
      /\ usage' = o.usage /\ cursors' = o.cursors /\ tx.sample = s
  BY DEF WorkerObserved, T!CommitObserve, T!Publish, T!NoTx, Renewed,
               Base, OwnOK
<1>2. /\ w \in T!Tx /\ w.usage.total = tx.usage.total /\ w.cursors = tx.cursors
      /\ w.usage.initialized /\ w.usage.used <= w.usage.total
      /\ tx.sample \in T!Sample
  BY <1>1, RenewedFacts, CopyFacts
<1> HIDE DEF w, s
<1>3. Covered(w.usage, w.cursors)
  BY <1>1, <1>2, ValueFacts DEF Covered
<1>4. /\ Covered(o.usage, o.cursors) /\ o.usage.total >= w.usage.total
      /\ ~(w.cursors[s.inst].at # Nil /\ s.at <= w.cursors[s.inst].at)
            => s.count <= o.usage.total
  BY <1>1, <1>2, <1>3, ObservedCovers
<1>5. o.usage.initialized
  BY <1>2, SameTypes, SameOperations, AccountConstants, P!ObservedFacts
<1> HIDE DEF o
<1>6. Fresh(tx, s) => s.count <= usage'.total
  <2>1. s \in T!Sample /\ w.cursors \in [Insts -> T!Cursor]
    BY <1>1, <1>2 DEF T!Tx
  <2>2. s.at \in Int /\ w.cursors[s.inst] \in T!Cursor
    BY <2>1, Numbers DEF T!Sample
  <2>3. w.cursors[s.inst].at # Nil => w.cursors[s.inst].at \in Int
    BY <2>2, Numbers DEF T!Cursor
  <2>4. QED  BY <1>1, <1>2, <1>4, <2>2, <2>3 DEF Fresh
<1>7. s.count = worker.event.count
  BY DEF s, EventSample
<1>8. ValueOK'
  BY <1>1, <1>4 DEF ValueOK
<1>9. usage'.total >= tx.usage.total /\ usage'.total >= usage.total
  BY <1>1, <1>2, <1>4, ValueFacts
<1>10. QED
  BY <1>1, <1>5, <1>6, <1>7, <1>8, <1>9, ValueFacts DEF AccountGrows, s

LEMMA NextValues ==
    ASSUME Base, OrderOK, OnlyDeletes, [Next]_vars, ValueOK
    PROVE  ValueOK' /\ AccountGrows
<1>1. AccountMoves
  BY AccountMovesOn
<1>2. usage.total \in Nat /\ usage'.total \in Nat
  BY ValueFacts
<1>3. CASE UNCHANGED <<usage, cursors, tx>>
  BY <1>2, <1>3 DEF ValueOK, AccountGrows
<1>4. CASE tx' = T!NoTx /\ UNCHANGED <<usage, cursors>>
  BY <1>2, <1>4 DEF ValueOK, AccountGrows
<1>5. CASE T!SyncRow
  <2>1. tx # T!NoTx /\ UNCHANGED <<usage, cursors>>
    BY <1>5 DEF T!SyncRow
  <2>2. PICK s \in tx.todo : tx' = [T!Observed(tx, s) EXCEPT !.todo = @ \ {s}]
    BY <1>5 DEF T!SyncRow
  <2>3. tx \in T!Tx /\ s \in T!Sample /\ tx.usage.used <= tx.usage.total
        /\ Covered(tx.usage, tx.cursors)
    BY <2>1, CopyFacts DEF ValueOK
  <2> DEFINE o == T!Observed(tx, s)
  <2>4. Covered(o.usage, o.cursors)
    BY <2>3, ObservedCovers
  <2>5. o \in T!Tx
    BY <2>3, SameTypes, SameOperations, AccountConstants, P!ObservedFacts
  <2>6. tx' = [o EXCEPT !.todo = @ \ {s}]
    BY <2>2
  <2> HIDE DEF o
  <2>7. tx'.usage = o.usage /\ tx'.cursors = o.cursors
    BY <2>5, <2>6 DEF T!Tx
  <2>8. QED  BY <1>2, <2>1, <2>4, <2>7 DEF ValueOK, AccountGrows
<1>6. ASSUME NEW op, NEW u, NEW todo, NEW sample,
             T!Begin(op, now, u, todo, sample, Nil), u.total = usage.total
      PROVE  ValueOK' /\ AccountGrows
  <2>1. /\ tx'.usage = u /\ tx'.cursors = cursors /\ UNCHANGED <<usage, cursors>>
    BY <1>6 DEF T!Begin
  <2>2. QED  BY <1>2, <1>6, <2>1 DEF ValueOK, AccountGrows, Covered
<1>7. CASE T!BeginSync(now)
  <2>1. T!ResetDue(usage, now).total = usage.total
    <3>1. /\ usage \in P!Usage /\ now \in P!Time /\ usage.used <= usage.total
          /\ P!PlannedReset(usage)
      BY DEF Base, P!IInv, P!TypeOK, P!UsedWithinTotal
    <3>2. QED  BY <3>1, SameOperations, AccountConstants, P!ResetFacts
  <2>2. QED  BY <1>6, <1>7, <2>1 DEF T!BeginSync
<1>8. CASE WorkerTake
  BY <1>6, <1>8 DEF WorkerTake, T!BeginObserve
<1>10. CASE T!CommitSync
  <2>1. /\ tx # T!NoTx /\ tx.todo = {} /\ tx' = T!NoTx /\ tx.op = "sync"
        /\ usage' = T!Initialized(tx).usage /\ cursors' = T!Initialized(tx).cursors
    BY <1>10 DEF T!CommitSync, T!Publish, T!NoTx
  <2>2. /\ usage'.total = tx.usage.total /\ cursors' = tx.cursors
        /\ usage'.initialized
    BY <2>1, RenewedFacts
  <2>3. QED
    BY ValueFacts, <2>1, <2>2 DEF ValueOK, AccountGrows, Covered
<1>11. CASE WorkerObserved
  BY <1>11, ObservedIn
<1>12. QED
  BY <1>1, <1>3, <1>4, <1>5, <1>7, <1>8, <1>10, <1>11 DEF AccountMoves

-----------------------------------------------------------------------------
(* The books of the account and of the transaction under way. *)

Books == [Insts -> [T!Time -> Nat]]

\* Nothing is booked past a cursor, and where it stands no less than it says.
InLine(book, c) ==
    \A i \in Insts :
        /\ c[i].at = Nil => c[i].count = 0
        /\ c[i].at # Nil => book[i][c[i].at] >= c[i].count
        /\ \A t \in T!Time : c[i].at = Nil \/ t > c[i].at => book[i][t] = 0

\* No entry of a book has become less.
Keeps(old, new) ==
    \A i \in Insts, t \in T!Time : new[i][t] >= old[i][t]

BooksOK ==
    /\ ledger \in Books /\ draft \in Books
    /\ InLine(ledger, cursors)
    /\ tx = T!NoTx => draft = ledger
    /\ tx # T!NoTx => InLine(draft, tx.cursors) /\ Keeps(ledger, draft)

\* The account stays below the largest number there is, so that its sums are
\* what they say.
Unsaturated ==
    /\ usage.total < MaxCount
    /\ tx # T!NoTx => tx.usage.total < MaxCount

LedgerStep == [Next]_vars /\ ledger' = Commits /\ draft' = Drafts

LEMMA SameBook ==
    ASSUME NEW book \in Books, NEW c, NEW bytes
    PROVE  Booked(book, c, c, bytes) = book /\ Keeps(book, book)
BY DEF Booked, Books, Keeps

LEMMA KeepsOn ==
    ASSUME NEW a \in Books, NEW b \in Books, NEW c \in Books,
           Keeps(a, b), Keeps(b, c)
    PROVE  Keeps(a, c)
<1> SUFFICES ASSUME NEW i \in Insts, NEW t \in T!Time PROVE c[i][t] >= a[i][t]
  BY DEF Keeps
<1>1. c[i][t] >= b[i][t] /\ b[i][t] >= a[i][t]
  BY DEF Keeps
<1>2. a[i][t] \in Nat /\ b[i][t] \in Nat /\ c[i][t] \in Nat
  BY DEF Books
<1>3. QED  BY <1>1, <1>2

LEMMA BookedSample ==
    ASSUME NEW book \in Books, NEW w \in T!Tx, NEW s \in T!Sample,
           InLine(book, w.cursors), T!Observed(w, s).usage.total < MaxCount
    PROVE  LET o == T!Observed(w, s)
               b == Booked(book, w.cursors, o.cursors,
                           o.usage.total - w.usage.total)
           IN  /\ b \in Books /\ InLine(b, o.cursors) /\ Keeps(book, b)
               /\ Fresh(w, s) => b[s.inst][s.at] >= s.count
<1> DEFINE i == s.inst
           c == w.cursors[i]
           d == T!CounterDelta(s.count, c.count)
           o == T!Observed(w, s)
           b == Booked(book, w.cursors, o.cursors, o.usage.total - w.usage.total)
<1>1. /\ i \in Insts /\ s.count \in Nat /\ s.at \in T!Time /\ s.at \in Nat
      /\ w.cursors \in [Insts -> T!Cursor] /\ w.usage.total \in Nat
      /\ MaxCount \in Nat
  <2>1. /\ s.count \in 0 .. MaxBytes /\ w.usage \in T!Usage /\ MaxCount \in Nat
    BY Numbers, AccountConstants DEF T!Sample, T!Tx, P!TrafficAssumption
  <2>2. QED  BY <2>1, Numbers DEF T!Sample, T!Tx, T!Usage, T!Count
<1>2. c.count \in Nat /\ c.at \in T!Time \cup {Nil} /\ (c.at # Nil => c.at \in Nat)
  BY <1>1, Numbers DEF T!Cursor, T!Count
<1>3. book[i] \in [T!Time -> Nat]
  BY <1>1 DEF Books
<1>4. /\ c.at = Nil => c.count = 0
      /\ c.at # Nil => book[i][c.at] >= c.count
      /\ \A t \in T!Time : c.at = Nil \/ t > c.at => book[i][t] = 0
  BY <1>1 DEF InLine
<1>5. CASE c.at # Nil /\ s.at <= c.at
  <2>1. o = w
    BY <1>5, ObservedParts
  <2>2. b = book /\ Keeps(book, book)
    BY <2>1, SameBook
  <2>3. ~Fresh(w, s)
    BY <1>1, <1>2, <1>5 DEF Fresh
  <2> HIDE DEF o, b
  <2>4. QED  BY <2>1, <2>2, <2>3 DEF o, b
<1>6. CASE ~(c.at # Nil /\ s.at <= c.at)
  <2>1. /\ o.cursors = [w.cursors EXCEPT ![i] = [at |-> s.at, count |-> s.count]]
        /\ o.usage.total = T!Add(w.usage.total, d)
    BY <1>6, ObservedParts
  <2>2. d \in Nat /\ d = IF s.count < c.count THEN s.count ELSE s.count - c.count
    BY <1>1, <1>2 DEF T!CounterDelta
  <2>3. o.usage.total - w.usage.total = d
    <3> HIDE DEF d, o
    <3>1. o.usage.total < MaxCount
      BY DEF o
    <3>2. QED  BY <1>1, <2>1, <2>2, <3>1 DEF T!Add
  <2> DEFINE new == d + IF c.at = Nil \/ s.count < c.count THEN 0
                        ELSE book[i][c.at]
  <2>4. new \in Nat /\ new >= s.count
    BY <1>1, <1>2, <1>3, <1>4, <2>2
  <2>5. c # [at |-> s.at, count |-> s.count]
    <3>1. s.at # c.at
      BY <1>1, <1>2, <1>6, Numbers
    <3>2. QED  BY <3>1
  <2>6. /\ o.cursors[i] = [at |-> s.at, count |-> s.count]
        /\ \A j \in Insts : j # i => o.cursors[j] = w.cursors[j]
    BY <1>1, <2>1
  <2>7. b = [j \in Insts |->
                IF o.cursors[j] = w.cursors[j] THEN book[j]
                ELSE [book[j] EXCEPT ![o.cursors[j].at] =
                         (o.usage.total - w.usage.total)
                         + IF w.cursors[j].at = Nil
                              \/ o.cursors[j].count < w.cursors[j].count
                           THEN 0 ELSE book[j][w.cursors[j].at]]]
    BY DEF Booked
  <2>8. b[i] = [book[i] EXCEPT ![s.at] = new]
    <3> HIDE DEF b, o, d
    <3>1. o.cursors[i].at = s.at /\ o.cursors[i].count = s.count
          /\ o.cursors[i] # w.cursors[i]
      BY <2>5, <2>6
    <3>2. QED  BY <1>1, <2>3, <2>7, <3>1
  <2>9. \A j \in Insts : j # i => b[j] = book[j]
    <3> HIDE DEF b, o
    <3>1. QED  BY <2>6, <2>7
  <2>10. DOMAIN b = Insts /\ b = [j \in Insts |-> b[j]]
    <3> HIDE DEF o
    <3>1. QED  BY <2>7
  <2> HIDE DEF b, o, new, d, c
  <2>11. b[i] \in [T!Time -> Nat] /\ b[i][s.at] = new
         /\ \A t \in T!Time : t # s.at => b[i][t] = book[i][t]
    BY <1>1, <1>3, <2>4, <2>8
  <2>12. book[i][s.at] = 0 /\ \A t \in T!Time : t > s.at => book[i][t] = 0
    <3>1. c.at = Nil \/ s.at > c.at
      BY <1>1, <1>2, <1>6
    <3>2. \A t \in T!Time : t \in Nat
      BY Numbers
    <3>3. QED  BY <1>1, <1>2, <1>4, <3>1, <3>2
  <2>13. b \in Books
    <3>1. \A j \in Insts : b[j] \in [T!Time -> Nat]
      BY <2>9, <2>11 DEF Books
    <3>2. QED  BY <2>10, <3>1 DEF Books
  <2>14. InLine(b, o.cursors)
    <3> SUFFICES ASSUME NEW j \in Insts
                 PROVE  /\ o.cursors[j].at = Nil => o.cursors[j].count = 0
                        /\ o.cursors[j].at # Nil =>
                              b[j][o.cursors[j].at] >= o.cursors[j].count
                        /\ \A t \in T!Time : o.cursors[j].at = Nil
                                             \/ t > o.cursors[j].at => b[j][t] = 0
      BY DEF InLine
    <3>1. CASE j # i
      BY <2>6, <2>9, <3>1 DEF InLine
    <3>2. CASE j = i
      <4>1. o.cursors[j].at = s.at /\ o.cursors[j].count = s.count /\ s.at # Nil
        BY <1>1, <2>6, <3>2, Numbers
      <4>2. \A t \in T!Time : t > s.at => t # s.at
        BY <1>1, Numbers
      <4>3. QED  BY <2>4, <2>11, <2>12, <3>2, <4>1, <4>2
    <3>3. QED  BY <3>1, <3>2
  <2>15. Keeps(book, b)
    <3> SUFFICES ASSUME NEW j \in Insts, NEW t \in T!Time
                 PROVE  b[j][t] >= book[j][t]
      BY DEF Keeps
    <3>1. book[j][t] \in Nat
      BY DEF Books
    <3>2. CASE j # i \/ t # s.at
      BY <2>9, <2>11, <3>1, <3>2
    <3>3. CASE j = i /\ t = s.at
      BY <2>4, <2>11, <2>12, <3>3
    <3>4. QED  BY <3>2, <3>3
  <2>16. QED  BY <2>4, <2>11, <2>13, <2>14, <2>15 DEF b, o
<1>7. QED  BY <1>5, <1>6

LEMMA RoomLeft == Base /\ HistoryOK /\ OnlyDeletes => Unsaturated
<1> SUFFICES ASSUME Base, HistoryOK, OnlyDeletes PROVE Unsaturated
  OBVIOUS
<1>1. PICK carried, points, base, copy : History(carried, points, base, copy)
  BY DEF HistoryOK
<1>2. LedgerOK(carried, points, portal, sent, now)
  BY <1>1 DEF History
<1>3. sent \in Nat /\ sent < MaxCount
  <2>1. sent \in 0 .. MaxBytes
    BY DEF Base, Parts
  <2>2. MaxBytes \in Nat /\ MaxCount \in Nat /\ MaxBytes < MaxCount
    BY PortalAssumption, AccountConstants DEF P!TrafficAssumption
  <2>3. QED  BY <2>1, <2>2
<1>4. ASSUME NEW b, NEW u \in T!Usage, NEW c, AccountedOK(b, points, u, c)
      PROVE  u.total < MaxCount
  <2>1. Cardinality(Taken(b)) \in Nat /\ Cardinality(Taken(b)) <= sent
    BY <1>2, <1>4, TakenBytes
  <2>2. u.total <= Cardinality(Taken(b)) /\ u.total \in Nat /\ MaxCount \in Nat
    BY <1>4, AccountConstants DEF AccountedOK, T!Usage, T!Count, P!TrafficAssumption
  <2>3. QED  BY <1>3, <2>1, <2>2
<1>5. usage.total < MaxCount
  BY <1>1, <1>4 DEF History, Base, T!TypeOK
<1>6. ASSUME tx # T!NoTx PROVE tx.usage.total < MaxCount
  BY <1>1, <1>4, <1>6, CopyFacts DEF History, TxOK, T!Tx
<1>7. QED  BY <1>5, <1>6 DEF Unsaturated

\* What a step does to the books.
BooksMove ==
    /\ Keeps(ledger, ledger')
    /\ UNCHANGED <<usage, cursors>> \/ Keeps(draft, ledger')
    /\ tx # T!NoTx /\ tx' # T!NoTx => Keeps(draft, draft')

\* A row of SyncEndpoint is booked in the transaction's book.
LEMMA RowBooked ==
    ASSUME Base, LedgerStep, BooksOK, Unsaturated', T!SyncRow,
           NEW s \in tx.todo, tx' = [T!Observed(tx, s) EXCEPT !.todo = @ \ {s}]
    PROVE  /\ BooksOK' /\ BooksMove
           /\ Fresh(tx, s) => draft'[s.inst][s.at] >= s.count
<1> DEFINE o == T!Observed(tx, s)
           b == Booked(draft, tx.cursors, o.cursors,
                       o.usage.total - tx.usage.total)
<1>1. /\ tx # T!NoTx /\ tx \in T!Tx /\ tx.usage.used <= tx.usage.total
      /\ s \in T!Sample /\ UNCHANGED <<usage, cursors>>
  BY CopyFacts DEF T!SyncRow
<1>2. o \in T!Tx
  BY <1>1, SameTypes, SameOperations, AccountConstants, P!ObservedFacts
<1>3. /\ tx'.usage = o.usage /\ tx'.cursors = o.cursors /\ tx' # T!NoTx
  <2> HIDE DEF o
  <2>1. tx' = [o EXCEPT !.todo = @ \ {s}]
    BY DEF o
  <2>2. tx'.usage = o.usage /\ tx'.cursors = o.cursors /\ tx'.op = o.op
        /\ o.op # "none"
    BY <1>2, <2>1 DEF T!Tx
  <2>3. QED  BY <2>2 DEF T!NoTx
<1>4. o.usage.total < MaxCount
  <2>1. T!NoTx' = T!NoTx
    BY DEF T!NoTx
  <2>2. QED  BY <1>3, <2>1 DEF Unsaturated
<1>5. /\ draft \in Books /\ InLine(draft, tx.cursors)
      /\ ledger \in Books /\ InLine(ledger, cursors)
  BY <1>1 DEF BooksOK
<1>6. /\ b \in Books /\ InLine(b, o.cursors) /\ Keeps(draft, b)
      /\ Fresh(tx, s) => b[s.inst][s.at] >= s.count
  BY <1>1, <1>4, <1>5, BookedSample
<1>7. ledger' = ledger /\ draft' = b
  <2> HIDE DEF o
  <2>1. tx' # T!NoTx /\ tx # T!NoTx
    BY <1>1, <1>3
  <2>2. QED  BY <1>1, <1>3, <2>1 DEF LedgerStep, Commits, Drafts
<1> HIDE DEF o, b
<1>8. BooksOK'
  <2>1. InLine(ledger, cursors)'
    BY <1>1, <1>5, <1>7 DEF InLine
  <2>2. InLine(draft, tx.cursors)'
    BY <1>3, <1>6, <1>7 DEF InLine
  <2>3. (ledger \in Books)' /\ (draft \in Books)'
    BY <1>5, <1>6, <1>7 DEF Books, T!Time
  <2>4. Keeps(ledger, draft)'
    <3>1. Keeps(ledger, b)
      BY <1>1, <1>5, <1>6, KeepsOn DEF BooksOK
    <3>2. QED  BY <1>7, <3>1 DEF Keeps, T!Time
  <2>5. tx' # T!NoTx'
    BY <1>3 DEF T!NoTx
  <2>6. QED  BY <2>1, <2>2, <2>3, <2>4, <2>5 DEF BooksOK
<1>9. BooksMove
  <2>1. Keeps(ledger, ledger')
    BY <1>5, <1>7, SameBook
  <2>2. QED  BY <1>1, <1>6, <1>7, <2>1 DEF BooksMove
<1>10. QED  BY <1>6, <1>7, <1>8, <1>9

\* What the worker has accounted is booked in the ledger.
LEMMA EventBooked ==
    ASSUME Base, LedgerStep, BooksOK, Unsaturated', WorkerObserved
    PROVE  /\ BooksOK' /\ BooksMove
           /\ /\ Fresh(tx, EventSample(worker.event))
              /\ cursors[worker.event.inst].at # worker.event.at
              => ledger'[worker.event.inst][worker.event.at]
                    >= worker.event.count
<1> DEFINE w == Renewed(tx)
           s == EventSample(worker.event)
           o == T!Observed(w, s)
           b == Booked(draft, tx.cursors, o.cursors,
                       o.usage.total - w.usage.total)
<1>1. /\ tx # T!NoTx /\ tx' = T!NoTx /\ tx.op = "observe"
      /\ usage' = o.usage /\ cursors' = o.cursors /\ tx.sample = s
  BY DEF WorkerObserved, T!CommitObserve, T!Publish, T!NoTx, Renewed,
               Base, OwnOK
<1>2. /\ w \in T!Tx /\ w.usage.total = tx.usage.total /\ w.cursors = tx.cursors
      /\ s \in T!Sample /\ tx \in T!Tx
  BY <1>1, RenewedFacts, CopyFacts
<1>3. s.inst = worker.event.inst /\ s.at = worker.event.at
      /\ s.count = worker.event.count
  BY DEF s, EventSample
<1> HIDE DEF w, s
<1>4. o.usage.total < MaxCount
  BY <1>1 DEF Unsaturated
<1>5. /\ draft \in Books /\ InLine(draft, w.cursors)
      /\ ledger \in Books /\ InLine(ledger, cursors)
  BY <1>1, <1>2 DEF BooksOK
<1>6. /\ b \in Books /\ InLine(b, o.cursors) /\ Keeps(draft, b)
      /\ Fresh(w, s) => b[s.inst][s.at] >= s.count
  BY <1>2, <1>4, <1>5, BookedSample
<1> HIDE DEF o
<1>7. draft' = ledger' /\ tx' = T!NoTx'
  BY <1>1 DEF LedgerStep, Drafts, T!NoTx
<1>8. CASE UNCHANGED <<usage, cursors>>
  <2>1. ledger' = ledger
    BY <1>8 DEF LedgerStep, Commits
  <2>2. InLine(ledger, cursors)'
    BY <1>5, <1>8, <2>1 DEF InLine
  <2>3. BooksOK'
    BY <1>5, <1>7, <2>1, <2>2 DEF BooksOK, Books, T!Time
  <2>4. BooksMove
    BY <1>1, <1>5, <1>8, <2>1, SameBook DEF BooksMove
  <2>5. Fresh(w, s) /\ cursors[s.inst].at # s.at => FALSE
    <3> SUFFICES ASSUME Fresh(w, s), cursors[s.inst].at # s.at PROVE FALSE
      OBVIOUS
    <3>1. /\ s.inst \in Insts /\ s.at \in Nat
          /\ w.cursors \in [Insts -> T!Cursor]
      BY <1>2, Numbers DEF T!Tx, T!Sample
    <3>2. w.cursors[s.inst].at # Nil =>
             /\ w.cursors[s.inst].at \in Nat /\ s.at > w.cursors[s.inst].at
      BY <3>1, Numbers DEF T!Cursor, Fresh
    <3>3. ~(w.cursors[s.inst].at # Nil /\ s.at <= w.cursors[s.inst].at)
      BY <3>1, <3>2
    <3>4. o.cursors = [w.cursors EXCEPT ![s.inst] =
                          [at |-> s.at, count |-> s.count]]
      BY <1>2, <3>3, ObservedParts DEF o
    <3>5. cursors'[s.inst].at = s.at
      BY <1>1, <3>1, <3>4
    <3>6. QED  BY <1>8, <3>5
  <2>6. Fresh(tx, s) => Fresh(w, s)
    BY <1>2 DEF Fresh
  <2>7. QED  BY <1>3, <2>3, <2>4, <2>5, <2>6 DEF s
<1>9. CASE ~UNCHANGED <<usage, cursors>>
  <2>1. ledger' = b
    BY <1>1, <1>2, <1>9 DEF LedgerStep, Commits
  <2> HIDE DEF b
  <2>2. InLine(ledger, cursors)'
    BY <1>1, <1>6, <2>1 DEF InLine
  <2>3. BooksOK'
    BY <1>6, <1>7, <2>1, <2>2 DEF BooksOK, Books, T!Time
  <2>4. Fresh(tx, s) => Fresh(w, s)
    BY <1>2 DEF Fresh
  <2>5. ASSUME Keeps(ledger, draft) PROVE Keeps(ledger, b)
    BY <1>5, <1>6, <2>5, KeepsOn
  <2>6. BooksMove
    BY <1>1, <1>6, <1>7, <2>1, <2>5 DEF BooksMove, BooksOK
  <2>7. QED  BY <1>3, <1>6, <2>1, <2>3, <2>4, <2>6 DEF s
<1>10. QED  BY <1>8, <1>9

LEMMA NextBooks ==
    ASSUME Base, OrderOK, OnlyDeletes, LedgerStep, BooksOK, Unsaturated'
    PROVE  BooksOK' /\ BooksMove
<1>1. AccountMoves
  BY AccountMovesOn DEF LedgerStep
<1>2. /\ ledger \in Books /\ draft \in Books /\ T!NoTx' = T!NoTx /\ Books' = Books
      /\ InLine(ledger, cursors)
      /\ tx # T!NoTx => InLine(draft, tx.cursors) /\ Keeps(ledger, draft)
      /\ tx = T!NoTx => draft = ledger
  BY DEF BooksOK, T!NoTx, Books, T!Time
<1>3. ASSUME UNCHANGED <<usage, cursors>>
      PROVE  /\ ledger' = ledger /\ Keeps(ledger, ledger')
             /\ InLine(ledger', cursors') /\ ledger' \in Books
  BY <1>2, <1>3, SameBook DEF LedgerStep, Commits
<1>4. ASSUME UNCHANGED <<usage, cursors>>, tx' = T!NoTx
      PROVE  BooksOK' /\ BooksMove
  <2>1. draft' = ledger'
    BY <1>4 DEF LedgerStep, Drafts
  <2>2. InLine(ledger, cursors)'
    BY <1>3, <1>4 DEF InLine
  <2>3. QED  BY <1>2, <1>3, <1>4, <2>1, <2>2 DEF BooksOK, BooksMove
<1>5. CASE UNCHANGED <<usage, cursors, tx>>
  <2>1. CASE tx = T!NoTx
    BY <1>4, <1>5, <2>1
  <2>2. CASE tx # T!NoTx
    <3>1. draft' = draft
      BY <1>2, <1>5, <2>2, SameBook DEF LedgerStep, Drafts
    <3>2. InLine(ledger, cursors)' /\ InLine(draft, tx.cursors)'
      BY <1>2, <1>3, <1>5, <2>2, <3>1 DEF InLine
    <3>3. QED
      BY <1>2, <1>3, <1>5, <2>2, <3>1, <3>2, SameBook DEF BooksOK, BooksMove
  <2>3. QED  BY <2>1, <2>2
<1>6. CASE tx' = T!NoTx /\ UNCHANGED <<usage, cursors>>
  BY <1>4, <1>6
<1>7. CASE T!SyncRow
  <2>1. PICK s \in tx.todo : tx' = [T!Observed(tx, s) EXCEPT !.todo = @ \ {s}]
    BY <1>7 DEF T!SyncRow
  <2>2. QED  BY <1>7, <2>1, RowBooked
<1>8. ASSUME NEW op, NEW u, NEW todo, NEW sample,
             T!Begin(op, now, u, todo, sample, Nil)
      PROVE  BooksOK' /\ BooksMove
  <2>1. /\ tx = T!NoTx /\ tx'.cursors = cursors /\ UNCHANGED <<usage, cursors>>
    BY <1>8 DEF T!Begin
  <2>2. draft' = ledger /\ ledger' = ledger
    BY <1>3, <2>1 DEF LedgerStep, Drafts
  <2>3. InLine(ledger, cursors)' /\ InLine(draft, tx.cursors)'
    BY <1>2, <2>1, <2>2 DEF InLine
  <2>4. QED  BY <1>2, <1>3, <2>1, <2>2, <2>3 DEF BooksOK, BooksMove
<1>9. CASE T!BeginSync(now) \/ WorkerTake
  BY <1>8, <1>9 DEF T!BeginSync, WorkerTake, T!BeginObserve
<1>10. CASE T!CommitSync
  <2>1. /\ tx # T!NoTx /\ tx' = T!NoTx
        /\ usage' = T!Initialized(tx).usage /\ cursors' = T!Initialized(tx).cursors
    BY <1>10 DEF T!CommitSync, T!Publish, T!NoTx
  <2>2. cursors' = tx.cursors
    BY <2>1, RenewedFacts
  <2>3. CASE UNCHANGED <<usage, cursors>>
    BY <1>4, <2>1, <2>3
  <2>4. CASE ~UNCHANGED <<usage, cursors>>
    <3>1. ledger' = draft /\ draft' = draft
      BY <1>2, <2>1, <2>2, <2>4, SameBook DEF LedgerStep, Commits, Drafts
    <3>2. InLine(ledger, cursors)'
      BY <1>2, <2>1, <2>2, <3>1 DEF InLine
    <3>3. QED
      BY <1>2, <2>1, <3>1, <3>2, SameBook DEF BooksOK, BooksMove
  <2>5. QED  BY <2>3, <2>4
<1>11. CASE WorkerObserved
  BY <1>11, EventBooked
<1>12. QED
  BY <1>1, <1>5, <1>6, <1>7, <1>9, <1>10, <1>11 DEF AccountMoves

-----------------------------------------------------------------------------
(* Nothing is written or deleted before the account has been initialized. *)

Done == {"insert", "update", "check", "delete"}

\* How the worker came to be where it is.
LEMMA WorkerStages ==
    ASSUME Base, [Next]_vars
    PROVE  /\ worker'.pc \in Done =>
                 /\ worker'.event = worker.event
                 /\ worker.pc \in Done \/ WorkerObserved
           /\ worker'.pc \in {"insert", "update"} =>
                 \/ worker.pc \in {"insert", "update"}
                 \/ WorkerObserved /\ worker.event.kind = "report"
           /\ worker'.pc = "observing" =>
                 \/ WorkerTake
                 \/ /\ worker.pc = "observing" /\ worker'.event = worker.event
                    /\ ~WorkerObserved
<1>1. worker \in [pc : {"idle", "observing", "insert", "update", "check",
                        "delete"}, event : Event \cup {Nil}]
  BY DEF Base, Parts
<1> USE DEF Done
<1>2. CASE UNCHANGED worker
  BY <1>1, <1>2 DEF WorkerObserved, WorkerAt
<1>3. CASE WorkerTake
  BY <1>3 DEF WorkerTake
<1>4. CASE WorkerObserved
  <2>1. worker.event.kind \in {"report", "delete"}
    BY <1>4 DEF WorkerObserved, Base, WorkerOK, Event
  <2>2. /\ worker'.event = worker.event
        /\ worker'.pc = IF worker.event.kind = "delete" THEN "check" ELSE "insert"
    BY <1>1, <1>4 DEF WorkerObserved, WorkerAt
  <2>3. QED  BY <1>4, <2>1, <2>2
<1>5. CASE WorkerInsert
  BY <1>1, <1>5 DEF WorkerInsert, WorkerAt
<1>6. CASE WorkerFails \/ WorkerUpdate \/ WorkerWriteFails \/ WorkerDelete
           \/ Crash
  BY <1>6 DEF WorkerFails, WorkerUpdate, WorkerWriteFails, WorkerDelete, Crash,
              WorkerIdle
<1>7. CASE WorkerCheckDelete
  BY <1>1, <1>7 DEF WorkerCheckDelete, WorkerIdle, WorkerAt
<1>8. ASSUME NEW i \in Insts,
             \/ Carry(i) \/ InstanceRestarts(i) \/ Report(i) \/ Shutdown(i)
             \/ ApiTouch(i) \/ \E op \in Calls : ApiStart(op, i)
      PROVE  UNCHANGED worker
  BY <1>8 DEF Carry, InstanceRestarts, Report, Shutdown, ApiTouch, ApiStart,
              Others, Elsewhere
<1>9. ApiStep => UNCHANGED worker
  BY DEF ApiStep, ApiSync, ApiSynced, ApiCall, ApiObserve, ApiObserved, ApiWrite,
         ApiRefresh, ApiFails, Elsewhere
<1>10. SchedulerSync \/ SchedulerCommit \/ SchedulerFails \/ SyncRow \/ Lose
          \/ Tick \/ WorkerShutdown \/ UNCHANGED vars => UNCHANGED worker
  BY DEF SchedulerSync, SchedulerCommit, SchedulerFails, SyncRow, Unmoved, Lose,
         Tick, Others, WorkerShutdown, Outside, vars
<1>11. QED
  BY <1>2, <1>3, <1>4, <1>5, <1>6, <1>7, <1>8, <1>9, <1>10 DEF Next, WorkerStep

\* How a call of DeletePortal came to be where it is.
LEMMA DeleteStages ==
    ASSUME Base, OrderOK, OnlyDeletes, [Next]_vars, api'.pc \in {"call", "write"}
    PROVE  /\ api'.op = "delete"
           /\ \/ api.op = "delete" /\ api.pc \in {"call", "write"}
              \/ T!CommitSync
<1>1. api \in ApiType /\ (api.pc # "idle" => api.op = "delete")
  BY DEF Base, Parts, ApiType, OrderOK, OnlyDeletes
<1>2. CASE UNCHANGED api
  BY <1>1, <1>2
<1>3. ASSUME NEW i \in Insts, NEW op \in Calls, ApiStart(op, i)
      PROVE  FALSE
  <2>1. op = "delete"
    BY <1>3 DEF ApiStart, OnlyDeletes
  <2>2. api' = [NoCall EXCEPT !.op = op, !.inst = i, !.pc = "sync"]
    BY <1>3, <2>1 DEF ApiStart
  <2>3. api'.pc = "sync"
    BY <2>2 DEF NoCall
  <2>4. QED  BY <2>3
<1>4. CASE ApiSynced
  BY <1>1, <1>4 DEF ApiSynced, ApiAt, ApiType
<1>5. CASE ApiCall
  <2>1. api.pc = "call" /\ \E seen, pc : api' = [api EXCEPT !.seen = seen, !.at = now,
                                                     !.pc = pc]
    BY <1>5 DEF ApiCall
  <2>2. QED  BY <1>1, <2>1 DEF ApiType
<1>6. ~ApiSync /\ ~ApiObserve
  <2>1. ~ApiObserve
    BY DEF ApiObserve, OrderOK, OnlyDeletes, Base, ApiOK
  <2>2. ~ApiSync
    BY <1>1 DEF ApiSync, ApiAt, ApiType
  <2>3. QED  BY <2>1, <2>2
<1>7. CASE ApiObserved \/ ApiWrite \/ ApiRefresh \/ ApiFails \/ Crash
  BY <1>1, <1>7 DEF ApiObserved, ApiWrite, ApiRefresh, ApiFails, Crash, NoCall
<1>8. ASSUME NEW i \in Insts,
             \/ Carry(i) \/ InstanceRestarts(i) \/ Report(i) \/ Shutdown(i)
             \/ ApiTouch(i)
      PROVE  UNCHANGED api
  BY <1>8 DEF Carry, InstanceRestarts, Report, Shutdown, ApiTouch
<1>9. WorkerStep => UNCHANGED api
  BY DEF WorkerStep, WorkerTake, WorkerObserved, WorkerFails, WorkerInsert,
         WorkerUpdate, WorkerWriteFails, WorkerCheckDelete, WorkerDelete,
         WorkerShutdown, Outside
<1>10. SchedulerSync \/ SchedulerCommit \/ SchedulerFails \/ SyncRow \/ Lose
          \/ Tick \/ UNCHANGED vars => UNCHANGED api
  BY DEF SchedulerSync, SchedulerCommit, SchedulerFails, SyncRow, Unmoved, Lose,
         Tick, vars
<1>11. QED
  BY <1>2, <1>3, <1>4, <1>5, <1>6, <1>7, <1>8, <1>9, <1>10 DEF Next, ApiStep

EnteredOK ==
    /\ worker.pc \in Done => usage.initialized
    /\ api.pc \in {"call", "write"} => usage.initialized

LEMMA NextEntered ==
    ASSUME Base, OrderOK, OnlyDeletes, [Next]_vars, ValueOK, EnteredOK
    PROVE  EnteredOK'
<1>1. usage.initialized => usage'.initialized
  BY NextValues DEF AccountGrows
<1>2. T!CommitSync => usage'.initialized
  <2>1. T!CommitSync => tx # T!NoTx /\ usage' = T!Initialized(tx).usage
    BY DEF T!CommitSync, T!Publish, T!NoTx
  <2>2. QED  BY <2>1, RenewedFacts
<1>3. worker'.pc \in Done => usage'.initialized
  BY <1>1, WorkerStages, ObservedIn DEF EnteredOK
<1>4. api'.pc \in {"call", "write"} => usage'.initialized
  BY <1>1, <1>2, DeleteStages DEF EnteredOK
<1>5. QED  BY <1>3, <1>4 DEF EnteredOK

-----------------------------------------------------------------------------
(* How the account stands before it has been initialized. *)

\* No cursor has been set, no row been written, and the first transaction has
\* each row to take in, or has booked it.
UncountedOK ==
    ~usage.initialized =>
        /\ \A i \in Insts : cursors[i].at = Nil
        /\ \A i \in Insts : rows[i] # Nil => asof[i] = T!SampledAt(rows[i])
        /\ tx # T!NoTx =>
              /\ \A s \in T!Stored :
                    s \in tx.todo \/ s.count <= draft[s.inst][s.at]
              /\ \A s \in tx.todo : tx.cursors[s.inst].at = Nil
              /\ \A s, r \in tx.todo : s.inst = r.inst => s = r

LEMMA StoredFacts ==
    ASSUME Base
    PROVE  /\ T!Stored \subseteq T!Sample
           /\ \A s, r \in T!Stored : s.inst = r.inst => s = r
           /\ \A i \in Insts : rows[i] # Nil =>
                 \E s \in T!Stored : s.inst = i /\ s.count = rows[i].count
                                     /\ s.at = T!SampledAt(rows[i])
<1>1. rows \in [Insts -> T!Row \cup {Nil}]
  BY DEF Base, T!TypeOK
<1>2. ASSUME NEW i \in Insts, rows[i] # Nil
      PROVE  [inst |-> i, at |-> T!SampledAt(rows[i]), count |-> rows[i].count]
                \in T!Sample
  BY <1>1, <1>2 DEF T!Row, T!Sample, T!SampledAt
<1>3. T!Stored \subseteq T!Sample
  BY <1>2 DEF T!Stored
<1>4. \A s, r \in T!Stored : s.inst = r.inst => s = r
  BY DEF T!Stored
<1>5. ASSUME NEW i \in Insts, rows[i] # Nil
      PROVE  \E s \in T!Stored : s.inst = i /\ s.count = rows[i].count
                                 /\ s.at = T!SampledAt(rows[i])
  <2> DEFINE s == [inst |-> i, at |-> T!SampledAt(rows[i]), count |-> rows[i].count]
  <2>1. s \in T!Stored
    BY <1>5 DEF T!Stored
  <2>2. QED  BY <2>1
<1>6. QED  BY <1>3, <1>4, <1>5

\* A sample moves its own cursor, and no other.
LEMMA ObservedMarks ==
    ASSUME NEW w \in T!Tx, NEW s \in T!Sample, NEW i \in Insts
    PROVE  \/ T!Observed(w, s).cursors[i] = w.cursors[i]
           \/ s.inst = i /\ T!Observed(w, s).cursors[i].at = s.at
<1> DEFINE c == w.cursors[s.inst]
           o == T!Observed(w, s)
<1>1. w.cursors \in [Insts -> T!Cursor] /\ s.inst \in Insts
  BY DEF T!Tx, T!Sample
<1>2. \/ o = w
      \/ o.cursors = [w.cursors EXCEPT ![s.inst] = [at |-> s.at, count |-> s.count]]
  BY ObservedParts
<1> HIDE DEF o
<1>3. QED  BY <1>1, <1>2 DEF o

LEMMA NextUncounted ==
    ASSUME Base, OrderOK, EditedOK, OnlyDeletes, LedgerStep,
           ValueOK, EnteredOK, BooksOK, Unsaturated', UncountedOK
    PROVE  UncountedOK'
<1> SUFFICES ASSUME ~usage'.initialized PROVE UncountedOK'
  BY DEF UncountedOK
<1> USE DEF LedgerStep
<1>1. /\ ~usage.initialized /\ UNCHANGED <<usage, cursors>>
      /\ \A i \in Insts : cursors[i].at = Nil
      /\ \A i \in Insts : rows[i] # Nil => asof[i] = T!SampledAt(rows[i])
  BY NextValues DEF AccountGrows, UncountedOK
<1>2. T!Stored' \subseteq T!Stored
  BY <1>1, StoredNext DEF EnteredOK, Done
<1>3. \A i \in Insts : rows'[i] # Nil => asof'[i] = T!SampledAt(rows'[i])
  <2>1. \A i \in Insts : rows'[i] # Nil => rows'[i] = rows[i] /\ asof'[i] = asof[i]
    BY <1>1, StoredSteps DEF EnteredOK, Done
  <2>2. QED  BY <1>1, <2>1
<1>4. SUFFICES ASSUME tx' # T!NoTx
      PROVE  /\ \A s \in T!Stored :
                   s \in tx'.todo \/ s.count <= draft'[s.inst][s.at]
             /\ \A s \in tx'.todo : tx'.cursors[s.inst].at = Nil
             /\ \A s, r \in tx'.todo : s.inst = r.inst => s = r
  <2>1. T!NoTx' = T!NoTx
    BY DEF T!NoTx
  <2>2. (\A i \in Insts : rows[i] # Nil => asof[i] = T!SampledAt(rows[i]))'
    BY <1>3 DEF T!SampledAt
  <2>3. QED  BY <1>1, <1>2, <2>1, <2>2 DEF UncountedOK
<1>5. ASSUME NEW r \in T!Stored, tx # T!NoTx, r.count <= draft[r.inst][r.at]
      PROVE  r.count <= draft'[r.inst][r.at]
  <2>1. r \in T!Sample /\ BooksOK' /\ BooksMove
    BY StoredFacts, NextBooks
  <2>2. r.inst \in Insts /\ r.at \in T!Time /\ r.count \in Int
    BY <2>1, Numbers DEF T!Sample
  <2>3. Books' = Books
    BY DEF Books, T!Time
  <2>4. draft[r.inst][r.at] \in Nat /\ draft'[r.inst][r.at] \in Nat
    BY <2>1, <2>2, <2>3 DEF BooksOK, Books
  <2>5. draft'[r.inst][r.at] >= draft[r.inst][r.at]
    BY <1>4, <1>5, <2>1, <2>2 DEF BooksMove, Keeps
  <2>6. QED  BY <1>5, <2>2, <2>4, <2>5
<1>6. CASE UNCHANGED tx
  BY <1>1, <1>4, <1>5, <1>6 DEF UncountedOK
<1>7. CASE T!SyncRow
  <2>1. tx # T!NoTx /\ tx \in T!Tx /\ tx.usage.used <= tx.usage.total
        /\ tx.todo \subseteq T!Sample
    BY <1>7, CopyFacts DEF T!SyncRow
  <2>2. PICK s \in tx.todo : tx' = [T!Observed(tx, s) EXCEPT !.todo = @ \ {s}]
    BY <1>7 DEF T!SyncRow
  <2>3. s \in T!Sample /\ s.inst \in Insts
    BY <2>1, <2>2 DEF T!Sample
  <2>4. /\ tx.cursors[s.inst].at = Nil
        /\ \A r \in tx.todo : tx.cursors[r.inst].at = Nil
        /\ \A r, q \in tx.todo : r.inst = q.inst => r = q
        /\ \A r \in T!Stored : r \in tx.todo \/ r.count <= draft[r.inst][r.at]
    BY <1>1, <2>1 DEF UncountedOK
  <2>5. draft'[s.inst][s.at] >= s.count
    BY <1>7, <2>2, <2>4, RowBooked DEF Fresh
  <2> DEFINE o == T!Observed(tx, s)
  <2>6. o \in T!Tx /\ o.todo = tx.todo
    BY <2>1, <2>3, SameTypes, SameOperations, AccountConstants, P!ObservedFacts
  <2>7. \A j \in Insts : j # s.inst => o.cursors[j] = tx.cursors[j]
    BY <2>1, <2>3, ObservedMarks
  <2> HIDE DEF o
  <2>8. tx' = [o EXCEPT !.todo = @ \ {s}]
    BY <2>2 DEF o
  <2>9. tx'.cursors = o.cursors /\ tx'.todo = tx.todo \ {s}
    BY <2>6, <2>8 DEF T!Tx
  <2>10. ASSUME NEW r \in T!Stored
         PROVE  r \in tx'.todo \/ r.count <= draft'[r.inst][r.at]
    <3>1. CASE r = s
      <4>1. BooksOK' /\ Books' = Books
        BY NextBooks DEF Books, T!Time
      <4>2. draft'[s.inst][s.at] \in Nat /\ s.count \in Int
        BY <2>3, <4>1, Numbers DEF BooksOK, Books, T!Sample
      <4>3. QED  BY <2>5, <3>1, <4>2
    <3>2. CASE r # s
      BY <1>5, <2>1, <2>4, <2>9, <3>2
    <3>3. QED  BY <3>1, <3>2
  <2>11. ASSUME NEW r \in tx'.todo PROVE tx'.cursors[r.inst].at = Nil
    <3>1. r \in tx.todo /\ r # s /\ r \in T!Sample
      BY <2>1, <2>9
    <3>2. r.inst # s.inst /\ r.inst \in Insts
      BY <2>4, <3>1 DEF T!Sample
    <3>3. QED  BY <2>4, <2>7, <2>9, <3>1, <3>2
  <2>12. QED  BY <2>4, <2>9, <2>10, <2>11
<1>8. ASSUME NEW op, NEW u, NEW sample, T!Begin(op, now, u, T!Stored, sample, Nil)
      PROVE  /\ \A s \in T!Stored :
                   s \in tx'.todo \/ s.count <= draft'[s.inst][s.at]
             /\ \A s \in tx'.todo : tx'.cursors[s.inst].at = Nil
             /\ \A s, r \in tx'.todo : s.inst = r.inst => s = r
  <2>1. tx'.todo = T!Stored /\ tx'.cursors = cursors
    BY <1>8 DEF T!Begin
  <2>2. \A s \in T!Stored : s.inst \in Insts
    BY StoredFacts DEF T!Sample
  <2>3. QED  BY <1>1, <2>1, <2>2, StoredFacts
<1>9. CASE T!BeginSync(now)
  BY <1>8, <1>9 DEF T!BeginSync
<1>10. CASE WorkerTake
  BY <1>1, <1>8, <1>10 DEF WorkerTake, T!BeginObserve
<1>11. CASE T!CommitSync \/ WorkerObserved
  BY <1>4, <1>11 DEF T!CommitSync, WorkerObserved, T!CommitObserve, T!Publish
<1>12. QED
  BY <1>4, <1>6, <1>7, <1>9, <1>10, <1>11, AccountMovesOn DEF AccountMoves

-----------------------------------------------------------------------------
(* What has been accounted, or will be, is older than what is to come. *)

Before(at, t) == at # Nil => at < t

\* Every time at which the account, its transaction or a row knows i is
\* before t.
Past(i, t, c, stored, x) ==
    /\ Before(c[i].at, t)
    /\ \A s \in stored : s.inst = i => s.at < t
    /\ x # T!NoTx => /\ Before(x.cursors[i].at, t)
                     /\ \A s \in x.todo : s.inst = i => s.at < t

\* The event of i the worker is at, if it is still to be written somewhere.
WorkerWrites(i) ==
    /\ WorkerObserved \/ worker.pc \in {"insert", "update"}
    /\ worker.event.inst = i

LEMMA PastNext ==
    ASSUME Base, OrderOK, EditedOK, OnlyDeletes, [Next]_vars, NEW i \in Insts,
           NEW t \in Int, Past(i, t, cursors, T!Stored, tx),
           WorkerWrites(i) => worker.event.at < t
    PROVE  Past(i, t, cursors', T!Stored', tx')
<1>1. \A s \in T!Stored' : s.inst = i => s.at < t
  <2> SUFFICES ASSUME NEW s \in T!Stored', s.inst = i PROVE s.at < t
    OBVIOUS
  <2>1. CASE s \in T!Stored
    BY <2>1 DEF Past
  <2>2. CASE /\ worker.pc \in {"insert", "update"}
             /\ s = EventSample(worker.event)
    BY <2>2 DEF WorkerWrites, EventSample
  <2>3. QED  BY <2>1, <2>2, StoredNext
<1>2. SUFFICES /\ Before(cursors'[i].at, t)
               /\ tx' # T!NoTx => /\ Before(tx'.cursors[i].at, t)
                                  /\ \A s \in tx'.todo : s.inst = i => s.at < t
  BY <1>1 DEF Past
<1>3. CASE UNCHANGED <<usage, cursors, tx>>
  BY <1>3 DEF Past
<1>4. CASE tx' = T!NoTx /\ UNCHANGED <<usage, cursors>>
  BY <1>4 DEF Past
<1>5. CASE T!SyncRow
  <2>1. tx # T!NoTx /\ tx \in T!Tx /\ tx.usage.used <= tx.usage.total
        /\ tx.todo \subseteq T!Sample /\ UNCHANGED cursors
    BY <1>5, CopyFacts DEF T!SyncRow
  <2>2. PICK s \in tx.todo : tx' = [T!Observed(tx, s) EXCEPT !.todo = @ \ {s}]
    BY <1>5 DEF T!SyncRow
  <2>3. s \in T!Sample
    BY <2>1, <2>2
  <2> DEFINE o == T!Observed(tx, s)
  <2>4. \/ o.cursors[i] = tx.cursors[i]
        \/ s.inst = i /\ o.cursors[i].at = s.at
    BY <2>1, <2>3, ObservedMarks
  <2>5. o \in T!Tx /\ o.todo = tx.todo
    BY <2>1, <2>3, SameTypes, SameOperations, AccountConstants, P!ObservedFacts
  <2> HIDE DEF o
  <2>6. tx' = [o EXCEPT !.todo = @ \ {s}]
    BY <2>2 DEF o
  <2>7. tx'.cursors = o.cursors /\ tx'.todo = tx.todo \ {s}
    BY <2>5, <2>6 DEF T!Tx
  <2>8. QED  BY <2>1, <2>2, <2>4, <2>7 DEF Past, Before
<1>6. ASSUME NEW op, NEW u, NEW todo, NEW sample,
             T!Begin(op, now, u, todo, sample, Nil), todo \subseteq T!Stored
      PROVE  /\ Before(cursors'[i].at, t)
             /\ Before(tx'.cursors[i].at, t)
             /\ \A s \in tx'.todo : s.inst = i => s.at < t
  <2>1. tx'.cursors = cursors /\ tx'.todo = todo /\ UNCHANGED cursors
    BY <1>6 DEF T!Begin
  <2>2. QED  BY <1>6, <2>1 DEF Past
<1>7. CASE T!BeginSync(now)
  BY <1>6, <1>7 DEF T!BeginSync
<1>8. CASE WorkerTake
  BY <1>6, <1>8 DEF WorkerTake, T!BeginObserve
<1>9. CASE T!CommitSync
  <2>1. /\ tx # T!NoTx /\ tx' = T!NoTx /\ cursors' = T!Initialized(tx).cursors
    BY <1>9 DEF T!CommitSync, T!Publish, T!NoTx
  <2>2. cursors' = tx.cursors
    BY <2>1, RenewedFacts
  <2>3. QED  BY <2>1, <2>2 DEF Past
<1>10. CASE WorkerObserved
  <2> DEFINE w == Renewed(tx)
             s == EventSample(worker.event)
             o == T!Observed(w, s)
  <2>1. /\ tx # T!NoTx /\ tx' = T!NoTx /\ tx.op = "observe"
        /\ cursors' = o.cursors /\ tx.sample = s
    BY <1>10 DEF WorkerObserved, T!CommitObserve, T!Publish, T!NoTx, Renewed,
                 Base, OwnOK
  <2>2. w \in T!Tx /\ w.cursors = tx.cursors /\ s \in T!Sample
    BY <2>1, RenewedFacts, CopyFacts
  <2> HIDE DEF w, s
  <2>3. \/ o.cursors[i] = w.cursors[i]
        \/ s.inst = i /\ o.cursors[i].at = s.at
    BY <2>2, ObservedMarks
  <2>4. s.inst = worker.event.inst /\ s.at = worker.event.at
    BY DEF s, EventSample
  <2>5. QED
    BY <1>10, <2>1, <2>2, <2>3, <2>4 DEF Past, Before, WorkerWrites
<1>11. QED
  BY <1>3, <1>4, <1>5, <1>7, <1>8, <1>9, <1>10, AccountMovesOn DEF AccountMoves

\* What is before a time is before a later one.
LEMMA PastLater ==
    ASSUME Base, NEW i \in Insts, NEW t \in Int, NEW r \in Int, t <= r,
           Past(i, t, cursors, T!Stored, tx)
    PROVE  Past(i, r, cursors, T!Stored, tx)
<1>1. cursors[i].at \in Int \cup {Nil}
  BY Numbers DEF Base, T!TypeOK, T!Cursor
<1>2. \A s \in T!Stored : s.at \in Int
  BY StoredFacts, Numbers DEF T!Sample
<1>3. ASSUME tx # T!NoTx
      PROVE  /\ tx.cursors[i].at \in Int \cup {Nil}
             /\ \A s \in tx.todo : s.at \in Int
  <2>1. tx \in T!Tx /\ tx.todo \subseteq T!Sample
    BY <1>3, CopyFacts
  <2>2. tx.cursors \in [Insts -> T!Cursor]
    BY <2>1 DEF T!Tx
  <2>3. QED  BY <2>1, <2>2, Numbers DEF T!Cursor, T!Sample
<1>4. QED  BY <1>1, <1>2, <1>3 DEF Past, Before

-----------------------------------------------------------------------------
(* The queue, as long as nobody shuts OpenCtrl down. *)

\* What an event that joins the queue says.
Joins(e) ==
    /\ e \in Event /\ e.at = now /\ portal[e.inst].state = "up"
    /\ \/ /\ e.kind = "report"
          /\ told[e.inst] # Nil => told[e.inst] # now /\ told'[e.inst] = now
       \/ e.kind = "delete" /\ portal'[e.inst].state = "gone"

QueueGrows ==
    /\ \A k \in 1 .. Len(stream') :
          \/ k \in 1 .. Len(stream) /\ stream'[k] = stream[k]
          \/ k = Len(stream) + 1 /\ Joins(stream'[k])
    /\ worker'.pc # "idle" => worker.pc # "idle" /\ worker'.event = worker.event

QueueMoves ==
    /\ WorkerTake /\ stream # << >>
    /\ stream' = Tail(stream) /\ worker'.event = Head(stream)

LEMMA Joined ==
    ASSUME Base, NEW i \in Insts, NEW kind \in {"report", "delete", "shutdown"},
           Len(stream) < MaxQueue, Emit(kind, i), UNCHANGED worker,
           Joins([kind |-> kind, inst |-> i, at |-> now, count |-> portal[i].count])
    PROVE  QueueGrows
<1> DEFINE e == [kind |-> kind, inst |-> i, at |-> now, count |-> portal[i].count]
<1>1. stream \in Seq(Event) /\ Len(stream) \in Nat /\ stream' = Append(stream, e)
  BY DEF Base, Parts, Emit
<1>2. e \in Event /\ Joins(e)
  BY DEF Joins
<1> HIDE DEF e
<1>3. Len(stream') = Len(stream) + 1 /\ stream'[Len(stream) + 1] = e
      /\ \A k \in 1 .. Len(stream) : stream'[k] = stream[k]
  BY <1>1, <1>2
<1>4. QED  BY <1>1, <1>2, <1>3 DEF QueueGrows

LEMMA QueueSteps ==
    ASSUME Base, EditedOK, OnlyDeletes, [Next]_vars
    PROVE  QueueGrows \/ QueueMoves
<1>0. /\ told \in [Insts -> T!Time \cup {Nil}] /\ now \in T!Time /\ now # Nil
      /\ portal \in [Insts -> [state : {"unborn", "up", "gone"}, count : 0 .. MaxBytes]]
  BY Numbers DEF Base, Parts, T!TypeOK
<1>1. CASE UNCHANGED <<stream, worker>>
  BY <1>1 DEF QueueGrows
<1>2. ASSUME NEW i \in Insts, Report(i)
      PROVE  QueueGrows
  <2> DEFINE e == [kind |-> "report", inst |-> i, at |-> now,
                   count |-> portal[i].count]
  <2>1. e \in Event
    BY <1>0 DEF Event
  <2>2. told[i] # now /\ told' = [told EXCEPT ![i] = IF @ = Nil THEN Nil ELSE now]
        /\ portal[i].state = "up"
    BY <1>2 DEF Report
  <2>3. Joins(e)
    BY <1>0, <2>1, <2>2 DEF Joins
  <2>4. QED  BY <1>2, <2>3, Joined DEF Report, Others
<1>3. ~\E i \in Insts : Shutdown(i)
  BY DEF Shutdown, OnlyDeletes
<1>4. CASE ApiCall
  <2>1. UNCHANGED worker /\ api.inst \in Insts
    BY <1>4, ApiFacts DEF ApiCall, Elsewhere
  <2>2. CASE UNCHANGED stream
    BY <1>1, <2>1, <2>2
  <2>3. CASE /\ portal[api.inst].state = "up" /\ Len(stream) < MaxQueue
             /\ Emit("delete", api.inst)
             /\ portal' = [portal EXCEPT ![api.inst].state = "gone"]
    <3> DEFINE e == [kind |-> "delete", inst |-> api.inst, at |-> now,
                     count |-> portal[api.inst].count]
    <3>1. e \in Event
      BY <1>0, <2>1 DEF Event
    <3>2. portal'[api.inst].state = "gone"
      BY <1>0, <2>1, <2>3
    <3>3. Joins(e)
      BY <2>3, <3>1, <3>2 DEF Joins
    <3>4. QED  BY <2>1, <2>3, <3>3, Joined
  <2>4. QED  BY <1>4, <2>2, <2>3 DEF ApiCall
<1>5. CASE Lose
  <2>1. PICK n \in 0 .. Len(stream) - 1 : stream' = SubSeq(stream, 1, n)
    BY <1>5 DEF Lose
  <2>2. \A k \in 1 .. Len(stream') :
           k \in 1 .. Len(stream) /\ stream'[k] = stream[k]
    BY <2>1, QueueStart
  <2>3. QED  BY <1>5, <2>2 DEF Lose, Others, QueueGrows
<1>6. CASE Crash
  <2>1. stream' = << >> /\ worker'.pc = "idle"
    BY <1>6 DEF Crash, WorkerIdle
  <2>2. QED  BY <2>1 DEF QueueGrows
<1>7. CASE WorkerTake
  BY <1>7 DEF WorkerTake, QueueMoves
<1>8. ~WorkerShutdown
  <2> SUFFICES ASSUME WorkerShutdown PROVE FALSE
    OBVIOUS
  <2>1. Head(stream) \in Pending /\ Head(stream).kind = "shutdown"
    BY QueueTail DEF WorkerShutdown, Pending
  <2>2. QED  BY <2>1 DEF EditedOK, OnlyDeletes
<1>9. CASE \/ WorkerObserved \/ WorkerFails \/ WorkerInsert \/ WorkerUpdate
           \/ WorkerWriteFails \/ WorkerCheckDelete \/ WorkerDelete
  <2>1. /\ UNCHANGED stream /\ worker.pc # "idle"
        /\ \/ WorkerIdle
           \/ WorkerAt("insert") \/ WorkerAt("check") \/ WorkerAt("update")
           \/ WorkerAt("delete")
    BY <1>9, WorkerMoves
  <2>2. worker'.pc = "idle" \/ worker'.event = worker.event
    <3>1. worker \in [pc : {"idle", "observing", "insert", "update", "check",
                            "delete"}, event : Event \cup {Nil}]
      BY DEF Base, Parts
    <3>2. QED  BY <2>1, <3>1 DEF WorkerIdle, WorkerAt
  <2>3. QED  BY <2>1, <2>2 DEF QueueGrows
<1>10. CASE UNCHANGED vars
  BY <1>1, <1>10 DEF vars
<1>11. ASSUME NEW i \in Insts,
              \/ Carry(i) \/ InstanceRestarts(i) \/ ApiTouch(i)
              \/ \E op \in Calls : ApiStart(op, i)
       PROVE  UNCHANGED <<stream, worker>>
  BY <1>11 DEF Carry, InstanceRestarts, ApiTouch, ApiStart, Others, Elsewhere
<1>12. CASE ApiSync \/ ApiSynced \/ ApiObserve \/ ApiObserved \/ ApiWrite
            \/ ApiRefresh \/ ApiFails
  BY <1>1, <1>12 DEF ApiSync, ApiSynced, ApiObserve, ApiObserved, ApiWrite,
                     ApiRefresh, ApiFails, Elsewhere
<1>13. CASE SchedulerSync \/ SchedulerCommit \/ SchedulerFails \/ SyncRow \/ Tick
  BY <1>1, <1>13 DEF SchedulerSync, SchedulerCommit, SchedulerFails, SyncRow,
                     Unmoved, Tick
<1>14. QED
  BY <1>1, <1>2, <1>3, <1>4, <1>5, <1>6, <1>7, <1>8, <1>9, <1>10, <1>11, <1>12,
     <1>13 DEF Next, WorkerStep, ApiStep

\* Only reports move told, and what is deleted stays so.
LEMMA ToldSteps ==
    ASSUME Base, OrderOK, OnlyDeletes, [Next]_vars, NEW i \in Insts
    PROVE  /\ told'[i] \in {told[i], now} /\ (told[i] = Nil <=> told'[i] = Nil)
           /\ portal[i].state = "gone" => portal'[i].state = "gone"
           /\ told'[i] # told[i] => portal[i].state = "up"
<1>1. /\ told \in [Insts -> T!Time \cup {Nil}] /\ now \in T!Time /\ now # Nil
      /\ portal \in [Insts -> [state : {"unborn", "up", "gone"}, count : 0 .. MaxBytes]]
      /\ api.pc # "idle" => api.op = "delete"
  BY Numbers DEF Base, Parts, T!TypeOK, OrderOK, OnlyDeletes
<1>2. CASE UNCHANGED <<portal, told>>
  BY <1>2
<1>3. ASSUME NEW j \in Insts, Report(j)
      PROVE  /\ told'[i] \in {told[i], now} /\ (told[i] = Nil <=> told'[i] = Nil)
             /\ portal' = portal /\ (told'[i] # told[i] => portal[i].state = "up")
  <2>1. /\ told' = [told EXCEPT ![j] = IF @ = Nil THEN Nil ELSE now]
        /\ portal' = portal /\ portal[j].state = "up"
    BY <1>3 DEF Report, Others
  <2>2. QED  BY <1>1, <2>1
<1>4. ASSUME NEW j \in Insts, Carry(j) \/ InstanceRestarts(j)
      PROVE  told' = told /\ portal'[i].state = portal[i].state
  <2>1. told' = told /\ \E n : portal' = [portal EXCEPT ![j].count = n]
    BY <1>4 DEF Carry, InstanceRestarts
  <2>2. QED  BY <1>1, <2>1
<1>5. ASSUME NEW j \in Insts,
             Shutdown(j) \/ ApiTouch(j) \/ \E op \in Calls : ApiStart(op, j)
      PROVE  UNCHANGED <<portal, told>>
  BY <1>5 DEF Shutdown, ApiTouch, ApiStart, Elsewhere
<1>6. CASE ApiCall
  <2>1. told' = told /\ \/ UNCHANGED portal
                        \/ portal' = [portal EXCEPT ![api.inst].state = "gone"]
    BY <1>1, <1>6 DEF ApiCall, Elsewhere
  <2>2. QED  BY <1>1, <2>1
<1>7. CASE Lose \/ Tick \/ Crash \/ UNCHANGED vars
  BY <1>2, <1>7 DEF Lose, Tick, Crash, vars
<1>8. CASE WorkerStep
  BY <1>2, <1>8 DEF WorkerStep, WorkerTake, WorkerObserved, WorkerFails,
     WorkerInsert, WorkerUpdate, WorkerWriteFails, WorkerCheckDelete,
     WorkerDelete, WorkerShutdown, Outside
<1>9. CASE ApiSync \/ ApiSynced \/ ApiObserve \/ ApiObserved \/ ApiWrite
           \/ ApiRefresh \/ ApiFails
  BY <1>2, <1>9 DEF ApiSync, ApiSynced, ApiObserve, ApiObserved, ApiWrite,
                    ApiRefresh, ApiFails, Elsewhere
<1>10. CASE SchedulerSync \/ SchedulerCommit \/ SchedulerFails \/ SyncRow
  BY <1>2, <1>10 DEF SchedulerSync, SchedulerCommit, SchedulerFails, SyncRow,
                     Unmoved
<1>11. QED
  BY <1>2, <1>3, <1>4, <1>5, <1>6, <1>7, <1>8, <1>9, <1>10 DEF Next, ApiStep

-----------------------------------------------------------------------------
(* The reports of an instance that tells its times apart are news. *)

\* Nothing that a Portal not yet deleted is known by is after its last report.
ToldOK(i) ==
    portal[i].state # "gone" =>
        /\ told[i] <= now
        /\ Past(i, told[i] + 1, cursors, T!Stored, tx)
        /\ \A e \in Pending : e.inst = i => e.at <= told[i]

\* A report in the queue is newer than all that is known, and all before it.
QueueOK(i) ==
    \A k \in 1 .. Len(stream) :
        stream[k].kind = "report" /\ stream[k].inst = i =>
            /\ Past(i, stream[k].at, cursors, T!Stored, tx)
            /\ worker.pc # "idle" /\ worker.event.inst = i =>
                  worker.event.at < stream[k].at
            /\ \A j \in 1 .. k - 1 :
                  stream[j].inst = i => stream[j].at < stream[k].at

\* So is the one the worker is about to have accounted; then it is booked.
TakenOK(i) ==
    worker.pc = "observing" /\ worker.event.kind = "report"
        /\ worker.event.inst = i =>
            Past(i, worker.event.at, cursors, T!Stored, tx)
BookedOK(i) ==
    worker.pc \in {"insert", "update"} /\ worker.event.inst = i =>
        worker.event.count <= ledger[i][worker.event.at]

FreshOK ==
    \A i \in Insts : told[i] # Nil =>
        ToldOK(i) /\ QueueOK(i) /\ TakenOK(i) /\ BookedOK(i)

\* What the rows say is booked, once the account is initialized.
RowsIn ==
    usage.initialized =>
        \A i \in Insts : told[i] # Nil /\ rows[i] # Nil =>
            rows[i].count <= ledger[i][asof[i]]

LEMMA FreshTypes ==
    ASSUME Base
    PROVE  /\ now \in Int /\ Len(stream) \in Nat
           /\ \A i \in Insts : told[i] # Nil => told[i] \in Int
           /\ \A k \in 1 .. Len(stream) :
                 /\ stream[k] \in Event /\ stream[k].at \in Int
                 /\ stream[k] \in Pending
           /\ worker.pc # "idle" =>
                 /\ worker.event \in Event /\ worker.event.at \in Int
                 /\ worker.event \in Pending
           /\ usage.total \in Nat
<1>1. now \in Int /\ Len(stream) \in Nat
  BY Numbers DEF Base, T!TypeOK, Parts
<1>2. \A i \in Insts : told[i] # Nil => told[i] \in Int
  BY Numbers DEF Base, Parts
<1>3. \A k \in 1 .. Len(stream) : stream[k] \in Pending
  BY DEF Pending
<1>4. worker.pc # "idle" => worker.event \in Pending
  BY DEF Pending
<1>5. \A e \in Pending : e \in Event /\ e.at \in Int
  BY PendingFacts
<1>6. usage.total \in Nat
  BY DEF Base, T!TypeOK, T!Usage, T!Count
<1>7. QED  BY <1>1, <1>2, <1>3, <1>4, <1>5, <1>6

\* Whatever the worker writes of i happened before t.
LEMMA WorkerBefore ==
    ASSUME Base, NEW i \in Insts, NEW t \in Int,
           worker.pc # "idle" /\ worker.event.inst = i => worker.event.at < t
    PROVE  WorkerWrites(i) => worker.event.at < t
BY DEF WorkerWrites, WorkerObserved

LEMMA NextTold ==
    ASSUME Base, OrderOK, EditedOK, OnlyDeletes, [Next]_vars, FreshOK,
           NEW i \in Insts, told[i] # Nil
    PROVE  ToldOK(i)'
<1>1. SUFFICES ASSUME portal'[i].state # "gone"
               PROVE  /\ told'[i] <= now'
                      /\ Past(i, told'[i] + 1, cursors', T!Stored', tx')
                      /\ \A e \in Pending' : e.inst = i => e.at <= told'[i]
  <2>1. T!NoTx' = T!NoTx
    BY DEF T!NoTx
  <2>2. QED  BY <1>1, <2>1 DEF ToldOK, Past, Before
<1>2. /\ told[i] <= now /\ Past(i, told[i] + 1, cursors, T!Stored, tx)
      /\ \A e \in Pending : e.inst = i => e.at <= told[i]
  BY <1>1, ToldSteps DEF FreshOK, ToldOK
<1>3. told[i] \in Int /\ told'[i] \in Int /\ told[i] <= told'[i] /\ told'[i] <= now
  BY <1>2, FreshTypes, ToldSteps
<1>4. now' \in Int /\ now <= now'
  <2>1. now \in Nat /\ now' \in Nat /\ now' >= now
    BY EveryStep, AccountGoesOn
  <2>2. QED  BY <2>1
<1>5. Past(i, told'[i] + 1, cursors', T!Stored', tx')
  <2>1. worker.pc # "idle" /\ worker.event.inst = i => worker.event.at < told[i] + 1
    BY <1>2, <1>3, FreshTypes
  <2>2. Past(i, told'[i] + 1, cursors, T!Stored, tx)
    BY <1>2, <1>3, PastLater
  <2>3. worker.pc # "idle" /\ worker.event.inst = i => worker.event.at < told'[i] + 1
    BY <1>2, <1>3, FreshTypes
  <2>4. QED  BY <1>3, <2>2, <2>3, PastNext, WorkerBefore
<1>6. ASSUME NEW e \in Pending', e.inst = i
      PROVE  e.at <= told'[i]
  <2>1. CASE e \in Pending
    <3>1. e.at \in Int /\ e.at <= told[i]
      BY <1>2, <1>6, <2>1, PendingFacts
    <3>2. QED  BY <1>3, <3>1
  <2>2. CASE e \notin Pending
    <3>1. CASE QueueGrows
      <4>1. PICK k \in 1 .. Len(stream') : e = stream'[k] /\ Joins(stream'[k])
        BY <1>6, <2>2, <3>1, FreshTypes DEF QueueGrows, Pending
      <4>2. e.at = now /\ told'[i] = now
        BY <1>1, <1>6, <4>1 DEF Joins
      <4>3. QED  BY <1>3, <4>2
    <3>2. CASE QueueMoves
      <4>1. e \in Pending
        <5>1. e \in {stream'[k] : k \in 1 .. Len(stream')} \cup {Head(stream)}
          <6>1. e \in {stream'[k] : k \in 1 .. Len(stream')} \cup {worker'.event}
            BY <1>6 DEF Pending
          <6>2. QED  BY <3>2, <6>1 DEF QueueMoves
        <5>2. /\ \A k \in 1 .. Len(stream') :
                    k + 1 \in 1 .. Len(stream) /\ stream'[k] = stream[k + 1]
              /\ Head(stream) = stream[1] /\ 1 \in 1 .. Len(stream)
          BY <3>2, QueueTail DEF QueueMoves
        <5>3. QED  BY <5>1, <5>2, FreshTypes
      <4>2. QED  BY <2>2, <4>1
    <3>3. QED  BY <3>1, <3>2, QueueSteps
  <2>3. QED  BY <2>1, <2>2
<1>7. told'[i] <= now'
  BY <1>3, <1>4, FreshTypes
<1>8. \A e \in Pending' : e.inst = i => e.at <= told'[i]
  BY <1>6
<1>9. QED  BY <1>5, <1>7, <1>8

LEMMA NextQueue ==
    ASSUME Base, OrderOK, EditedOK, OnlyDeletes, [Next]_vars, FreshOK,
           NEW i \in Insts, told[i] # Nil
    PROVE  QueueOK(i)'
<1>0. /\ T!NoTx' = T!NoTx
      /\ Len(stream) \in Nat /\ Len(stream') \in Nat
  <2>1. Parts /\ Parts'
    BY NextBase DEF Base
  <2>2. QED  BY <2>1 DEF Parts, T!NoTx
<1>1. SUFFICES ASSUME NEW k \in 1 .. Len(stream'),
                      stream'[k].kind = "report", stream'[k].inst = i
               PROVE  /\ Past(i, stream'[k].at, cursors', T!Stored', tx')
                      /\ worker'.pc # "idle" /\ worker'.event.inst = i =>
                            worker'.event.at < stream'[k].at
                      /\ \A j \in 1 .. k - 1 :
                            stream'[j].inst = i => stream'[j].at < stream'[k].at
  BY <1>0, <1>1 DEF QueueOK, Past, Before
<1>2. CASE QueueGrows
  <2>1. worker'.pc # "idle" => worker.pc # "idle" /\ worker'.event = worker.event
    BY <1>2 DEF QueueGrows
  <2>2. ASSUME NEW j \in 1 .. k - 1
        PROVE  j \in 1 .. Len(stream) /\ stream'[j] = stream[j]
    <3>1. k \in 1 .. Len(stream) + 1 /\ j \in 1 .. Len(stream')
      BY <1>0, <1>2 DEF QueueGrows
    <3>2. j # Len(stream) + 1
      BY <1>0, <3>1
    <3>3. QED  BY <1>2, <3>1, <3>2 DEF QueueGrows
  <2>3. /\ stream'[k].at \in Int
        /\ Past(i, stream'[k].at, cursors, T!Stored, tx)
        /\ worker.pc # "idle" /\ worker.event.inst = i =>
              worker.event.at < stream'[k].at
        /\ \A j \in 1 .. k - 1 : stream'[j].inst = i => stream'[j].at < stream'[k].at
    <3>1. CASE k \in 1 .. Len(stream) /\ stream'[k] = stream[k]
      <4>1. QueueOK(i)
        BY DEF FreshOK
      <4>2. /\ Past(i, stream[k].at, cursors, T!Stored, tx)
            /\ worker.pc # "idle" /\ worker.event.inst = i =>
                  worker.event.at < stream[k].at
            /\ \A j \in 1 .. k - 1 :
                  stream[j].inst = i => stream[j].at < stream[k].at
        BY <1>1, <3>1, <4>1 DEF QueueOK
      <4>3. stream[k].at \in Int
        BY <3>1, FreshTypes
      <4>4. QED  BY <2>2, <3>1, <4>2, <4>3
    <3>2. CASE Joins(stream'[k])
      <4>1. /\ stream'[k].at = now /\ portal[i].state = "up" /\ told[i] # now
        BY <1>1, <3>2 DEF Joins
      <4>2. /\ told[i] <= now /\ Past(i, told[i] + 1, cursors, T!Stored, tx)
            /\ \A e \in Pending : e.inst = i => e.at <= told[i]
        BY <4>1 DEF FreshOK, ToldOK
      <4>3. told[i] \in Int /\ now \in Int /\ told[i] + 1 <= now
        BY <4>1, <4>2, FreshTypes
      <4>4. Past(i, now, cursors, T!Stored, tx)
        BY <4>2, <4>3, PastLater
      <4>5. \A e \in Pending : e.inst = i => e.at < now
        BY <4>2, <4>3, PendingFacts
      <4>6. QED  BY <2>2, <4>1, <4>3, <4>4, <4>5, FreshTypes
    <3>3. QED  BY <1>2, <3>1, <3>2 DEF QueueGrows
  <2>4. Past(i, stream'[k].at, cursors', T!Stored', tx')
    BY <2>3, PastNext, WorkerBefore
  <2>5. QED  BY <2>1, <2>3, <2>4
<1>3. CASE QueueMoves
  <2>1. /\ stream # << >> /\ stream' = Tail(stream) /\ worker'.event = Head(stream)
        /\ worker.pc = "idle"
    BY <1>3 DEF QueueMoves, WorkerTake
  <2>2. /\ \A j \in 1 .. Len(stream') :
              j + 1 \in 1 .. Len(stream) /\ stream'[j] = stream[j + 1]
        /\ Head(stream) = stream[1] /\ 1 \in 1 .. Len(stream)
    BY <2>1, QueueTail
  <2>3. QueueOK(i)
    BY DEF FreshOK
  <2>4. /\ Past(i, stream[k + 1].at, cursors, T!Stored, tx)
        /\ \A j \in 1 .. k : stream[j].inst = i => stream[j].at < stream[k + 1].at
        /\ stream[k + 1].at \in Int
    <3>1. k + 1 \in 1 .. Len(stream) /\ stream'[k] = stream[k + 1]
      BY <2>2
    <3>2. (k + 1) - 1 = k
      OBVIOUS
    <3>3. QED  BY <1>1, <2>3, <3>1, <3>2, FreshTypes DEF QueueOK
  <2>5. Past(i, stream'[k].at, cursors', T!Stored', tx')
    BY <2>1, <2>2, <2>4, PastNext, WorkerBefore
  <2>6. worker'.event.inst = i => worker'.event.at < stream'[k].at
    BY <2>1, <2>2, <2>4
  <2>7. ASSUME NEW j \in 1 .. k - 1, stream'[j].inst = i
        PROVE  stream'[j].at < stream'[k].at
    <3>1. j + 1 \in 1 .. k /\ j \in 1 .. Len(stream')
      BY <1>0
    <3>2. QED  BY <2>2, <2>4, <2>7, <3>1
  <2>8. QED  BY <2>5, <2>6, <2>7
<1>4. QED  BY <1>2, <1>3, QueueSteps

LEMMA NextTaken ==
    ASSUME Base, OrderOK, EditedOK, OnlyDeletes, [Next]_vars, FreshOK,
           NEW i \in Insts, told[i] # Nil
    PROVE  TakenOK(i)'
<1>0. T!NoTx' = T!NoTx
  BY DEF T!NoTx
<1>1. SUFFICES ASSUME worker'.pc = "observing", worker'.event.kind = "report",
                      worker'.event.inst = i
               PROVE  Past(i, worker'.event.at, cursors', T!Stored', tx')
  BY <1>0, <1>1 DEF TakenOK, Past, Before
<1>2. CASE WorkerTake
  <2>1. /\ stream # << >> /\ worker'.event = Head(stream) /\ worker.pc = "idle"
    BY <1>2 DEF WorkerTake
  <2>2. Head(stream) = stream[1] /\ 1 \in 1 .. Len(stream)
    BY <2>1, QueueTail
  <2>3. QueueOK(i)
    BY DEF FreshOK
  <2>4. Past(i, stream[1].at, cursors, T!Stored, tx) /\ stream[1].at \in Int
    BY <1>1, <2>1, <2>2, <2>3, FreshTypes DEF QueueOK
  <2>5. QED  BY <2>1, <2>2, <2>4, PastNext, WorkerBefore
<1>3. CASE /\ worker.pc = "observing" /\ worker'.event = worker.event
           /\ ~WorkerObserved
  <2>1. ~WorkerWrites(i)
    BY <1>3 DEF WorkerWrites
  <2>2. TakenOK(i)
    BY DEF FreshOK
  <2>3. Past(i, worker.event.at, cursors, T!Stored, tx) /\ worker.event.at \in Int
    BY <1>1, <1>3, <2>2, FreshTypes DEF TakenOK
  <2>4. QED  BY <1>3, <2>1, <2>3, PastNext
<1>4. QED  BY <1>1, <1>2, <1>3, WorkerStages

\* An entry of the ledger stays as large as it is.
LEMMA StaysBooked ==
    ASSUME Base, OrderOK, OnlyDeletes, LedgerStep, BooksOK, Unsaturated',
           NEW i \in Insts, NEW t \in T!Time, NEW n \in Int
    PROVE  /\ n <= ledger[i][t] => n <= ledger'[i][t]
           /\ ~UNCHANGED <<usage, cursors>> /\ n <= draft[i][t]
                 => n <= ledger'[i][t]
<1>1. BooksOK' /\ BooksMove /\ Books' = Books
  BY NextBooks DEF Books, T!Time
<1>2. ledger[i][t] \in Nat /\ ledger'[i][t] \in Nat /\ draft[i][t] \in Nat
  BY <1>1 DEF BooksOK, Books
<1>3. /\ ledger'[i][t] >= ledger[i][t]
      /\ ~UNCHANGED <<usage, cursors>> => ledger'[i][t] >= draft[i][t]
  BY <1>1 DEF BooksMove, Keeps
<1>4. QED  BY <1>2, <1>3

LEMMA NextBooked ==
    ASSUME Base, OrderOK, EditedOK, OnlyDeletes, LedgerStep, FreshOK, BooksOK,
           Unsaturated', NEW i \in Insts, told[i] # Nil
    PROVE  BookedOK(i)'
<1> USE DEF LedgerStep
<1>1. SUFFICES ASSUME worker'.pc \in {"insert", "update"}, worker'.event.inst = i
               PROVE  worker'.event.count <= ledger'[i][worker'.event.at]
  BY DEF BookedOK
<1>2. worker'.event = worker.event
  BY <1>1, WorkerTo
<1>3. CASE worker.pc \in {"insert", "update"}
  <2>1. worker.event.count <= ledger[i][worker.event.at]
    BY <1>1, <1>2, <1>3 DEF FreshOK, BookedOK
  <2>2. worker.event.count \in Int /\ worker.event.at \in T!Time
    BY <1>3, FreshTypes, Numbers DEF Event
  <2>3. QED  BY <1>2, <2>1, <2>2, StaysBooked
<1>4. CASE WorkerObserved /\ worker.event.kind = "report"
  <2>1. worker.pc = "observing" /\ tx.op = "observe"
    BY <1>4 DEF WorkerObserved, T!CommitObserve
  <2>2. Past(i, worker.event.at, cursors, T!Stored, tx)
    BY <1>1, <1>2, <1>4, <2>1 DEF FreshOK, TakenOK
  <2>3. tx # T!NoTx
    BY <2>1 DEF T!NoTx
  <2>4. Before(tx.cursors[i].at, worker.event.at)
        /\ Before(cursors[i].at, worker.event.at)
    BY <2>2, <2>3 DEF Past
  <2>5. /\ tx.cursors[i].at # Nil => tx.cursors[i].at \in Int
        /\ cursors[i].at # Nil => cursors[i].at \in Int
    <3>1. tx \in T!Tx
      BY <2>3, CopyFacts
    <3>2. tx.cursors \in [Insts -> T!Cursor] /\ cursors \in [Insts -> T!Cursor]
      BY <3>1 DEF T!Tx, Base, T!TypeOK
    <3>3. QED  BY <3>2, Numbers DEF T!Cursor
  <2>6. Fresh(tx, EventSample(worker.event))
    BY <1>1, <1>2, <2>1, <2>4, <2>5, FreshTypes DEF Fresh, EventSample, Before
  <2>7. cursors[i].at # worker.event.at
    BY <2>1, <2>4, <2>5, FreshTypes, Numbers DEF Before
  <2>8. ledger'[i][worker.event.at] >= worker.event.count
    BY <1>1, <1>2, <1>4, <2>6, <2>7, EventBooked
  <2>9. BooksOK' /\ Books' = Books
    BY NextBooks DEF Books, T!Time
  <2>10. worker.event.count \in Int /\ ledger'[i][worker.event.at] \in Nat
    <3>1. ledger' \in Books
      BY <2>9 DEF BooksOK
    <3>2. worker.event \in Event
      BY <2>1, FreshTypes
    <3>3. worker.event.count \in Int /\ worker.event.at \in T!Time
      BY <3>2, Numbers DEF Event
    <3>4. QED  BY <3>1, <3>3 DEF Books
  <2>11. QED  BY <1>2, <2>8, <2>10
<1>5. QED  BY <1>1, <1>3, <1>4, WorkerStages

LEMMA NextFresh ==
    ASSUME Base, OrderOK, EditedOK, OnlyDeletes, LedgerStep, FreshOK, BooksOK,
           Unsaturated'
    PROVE  FreshOK'
<1> USE DEF LedgerStep
<1> SUFFICES ASSUME NEW i \in Insts, told'[i] # Nil
             PROVE  ToldOK(i)' /\ QueueOK(i)' /\ TakenOK(i)' /\ BookedOK(i)'
  BY DEF FreshOK
<1>1. told[i] # Nil
  BY ToldSteps
<1>2. QED  BY <1>1, NextTold, NextQueue, NextTaken, NextBooked

LEMMA NextRowsIn ==
    ASSUME Base, OrderOK, EditedOK, OnlyDeletes, LedgerStep, FreshOK, ValueOK,
           BooksOK, Unsaturated', UncountedOK, RowsIn
    PROVE  RowsIn'
<1> USE DEF LedgerStep
<1> SUFFICES ASSUME NEW i \in Insts, usage'.initialized, told'[i] # Nil, rows'[i] # Nil
             PROVE  rows'[i].count <= ledger'[i][asof'[i]]
  BY DEF RowsIn
<1>1. told[i] # Nil /\ AccountGrows
  BY ToldSteps, NextValues
<1>2. CASE rows'[i] = rows[i] /\ asof'[i] = asof[i]
  <2>1. rows[i].count \in Int /\ asof[i] \in T!Time
    BY <1>2, Numbers DEF Base, T!TypeOK, T!Row, Parts
  <2>2. CASE usage.initialized
    <3>1. rows[i].count <= ledger[i][asof[i]]
      BY <1>1, <1>2, <2>2 DEF RowsIn
    <3>2. QED  BY <1>2, <2>1, <3>1, StaysBooked
  <2>3. CASE ~usage.initialized
    <3>1. /\ tx # T!NoTx /\ tx.todo = {} /\ ~UNCHANGED <<usage, cursors>>
      BY <1>1, <2>3 DEF AccountGrows
    <3>2. PICK s \in T!Stored : /\ s.inst = i /\ s.count = rows[i].count
                                /\ s.at = T!SampledAt(rows[i])
      BY <1>2, StoredFacts
    <3>3. s.count <= draft[i][s.at] /\ s.at = asof[i]
      BY <1>2, <2>3, <3>1, <3>2 DEF UncountedOK
    <3>4. QED  BY <1>2, <2>1, <3>1, <3>2, <3>3, StaysBooked
  <2>4. QED  BY <2>2, <2>3
<1>3. CASE /\ worker.pc \in {"insert", "update"} /\ worker.event.inst = i
           /\ rows'[i] = EventRow(worker.event) /\ asof'[i] = worker.event.at
  <2>1. rows'[i].count = worker.event.count
    BY <1>3 DEF EventRow
  <2>2. worker.event.count <= ledger[i][worker.event.at]
    BY <1>1, <1>3 DEF FreshOK, BookedOK
  <2>3. worker.event.count \in Int /\ worker.event.at \in T!Time
    BY <1>3, FreshTypes, Numbers DEF Event
  <2>4. QED  BY <1>3, <2>1, <2>2, <2>3, StaysBooked
<1>4. QED  BY <1>2, <1>3, StoredSteps

\* A row goes when the worker or DeletePortal has come to it.
LEMMA RowGoes ==
    ASSUME Base, OrderOK, EditedOK, OnlyDeletes, [Next]_vars, EnteredOK,
           NEW i \in Insts, rows[i] # Nil, rows'[i] = Nil
    PROVE  usage.initialized
<1>1. api.pc # "idle" => api.op = "delete"
  BY DEF OrderOK, OnlyDeletes
<1>2. rows' # rows
  OBVIOUS
<1>3. CASE worker.pc \in Done
  BY <1>3 DEF EnteredOK
<1>4. CASE api.pc = "write"
  BY <1>4 DEF EnteredOK
<1>5. CASE worker.pc \notin Done
  <2>1. ~WorkerInsert /\ ~WorkerUpdate /\ ~WorkerDelete
    BY <1>5 DEF WorkerInsert, WorkerUpdate, WorkerDelete, Done
  <2>2. ~WorkerShutdown
    <3> SUFFICES ASSUME WorkerShutdown PROVE FALSE
      OBVIOUS
    <3>1. Head(stream) \in Pending /\ Head(stream).kind = "shutdown"
      BY QueueTail DEF WorkerShutdown, Pending
    <3>2. QED  BY <3>1 DEF EditedOK, OnlyDeletes
  <2>3. CASE ApiWrite
    BY <1>4, <2>3 DEF ApiWrite
  <2>4. ~ApiRefresh /\ ~ApiObserved
    BY <1>1 DEF ApiRefresh, ApiObserved
  <2>5. ASSUME NEW j \in Insts,
               \/ Carry(j) \/ InstanceRestarts(j) \/ Report(j) \/ Shutdown(j)
               \/ ApiTouch(j) \/ \E op \in Calls : ApiStart(op, j)
        PROVE  UNCHANGED rows
    BY <2>5 DEF Carry, InstanceRestarts, Report, Shutdown, ApiTouch, ApiStart,
                Others, Elsewhere, OnlyDeletes
  <2>6. ApiSync \/ ApiSynced \/ ApiCall \/ ApiObserve \/ ApiFails
           => UNCHANGED rows
    BY ObserveBegins, SyncBegins, TransactionEnds
       DEF ApiSync, ApiSynced, ApiCall, ApiObserve, ApiFails
  <2>7. SchedulerSync \/ SchedulerCommit \/ SchedulerFails \/ SyncRow
           \/ Lose \/ Tick \/ Crash \/ UNCHANGED vars => UNCHANGED rows
    BY SyncBegins, TransactionEnds
       DEF SchedulerSync, SchedulerCommit, SchedulerFails, SyncRow, T!SyncRow,
           Lose, Tick, T!Tick, Crash, Unmoved, Others, vars
  <2>8. WorkerTake \/ WorkerObserved \/ WorkerFails \/ WorkerWriteFails
           \/ WorkerCheckDelete => UNCHANGED rows
    BY ObserveBegins, TransactionEnds
       DEF WorkerTake, WorkerObserved, WorkerFails, WorkerWriteFails,
           WorkerCheckDelete, Outside
  <2>9. QED
    BY <1>2, <2>1, <2>2, <2>3, <2>4, <2>5, <2>6, <2>7, <2>8
       DEF Next, WorkerStep, ApiStep
<1>6. QED  BY <1>3, <1>5

\* What holds while the Portals are only reported and deleted.
DeletesInv ==
    /\ OnlyDeletes /\ Base /\ EditedOK /\ OrderOK /\ BooksOK
    /\ ValueOK /\ EnteredOK /\ UncountedOK /\ FreshOK /\ RowsIn

LEMMA InitDeletes == LedgerInit /\ OnlyDeletes => DeletesInv
<1> SUFFICES ASSUME LedgerInit, OnlyDeletes PROVE DeletesInv
  OBVIOUS
<1>0. Init /\ ledger = [i \in Insts |-> [t \in T!Time |-> 0]] /\ draft = ledger
  BY DEF LedgerInit
<1>1. Base /\ EditedOK /\ OrderOK
  BY <1>0, InitBase, InitEdited, InitOrder
<1>2. /\ usage.total = 0 /\ ~usage.initialized /\ tx = T!NoTx /\ now = 0
      /\ cursors = [i \in Insts |-> [at |-> Nil, count |-> 0]]
      /\ asof = [i \in Insts |-> 0]
      /\ stream = << >> /\ worker.pc = "idle" /\ api.pc = "idle"
  BY <1>0 DEF Init, T!Init, NoCall
<1>3. \A i \in Insts : rows[i] # Nil =>
         T!SampledAt(rows[i]) = 0 /\ asof[i] = T!SampledAt(rows[i])
  <2>1. \A j \in Insts : rows[j] # Nil => rows[j].event = Nil /\ rows[j].updated = 0
    BY <1>0 DEF Init, T!Init
  <2>2. QED  BY <1>2, <2>1 DEF T!SampledAt
<1>4. ValueOK /\ EnteredOK /\ UncountedOK /\ RowsIn
  BY <1>2, <1>3 DEF ValueOK, Covered, EnteredOK, UncountedOK, RowsIn, Done
<1>5. BooksOK
  <2>1. ledger \in Books /\ \A i \in Insts, t \in T!Time : ledger[i][t] = 0
    BY <1>0 DEF Books
  <2>2. QED  BY <1>0, <1>2, <2>1 DEF BooksOK, InLine
<1>6. ASSUME NEW i \in Insts, told[i] # Nil
      PROVE  ToldOK(i) /\ QueueOK(i) /\ TakenOK(i) /\ BookedOK(i)
  <2>1. told[i] = 0
    BY <1>0, <1>6 DEF Init
  <2>2. \A s \in T!Stored : s.at = 0
    BY <1>3 DEF T!Stored
  <2>3. Pending = {} /\ cursors[i].at = Nil
    BY <1>2 DEF Pending
  <2>4. Past(i, 1, cursors, T!Stored, tx)
    BY <1>2, <2>2, <2>3 DEF Past, Before
  <2>5. ToldOK(i)
    BY <1>2, <2>1, <2>3, <2>4 DEF ToldOK
  <2>6. QED  BY <1>2, <2>5 DEF QueueOK, TakenOK, BookedOK
<1>7. QED  BY <1>1, <1>4, <1>5, <1>6 DEF DeletesInv, FreshOK

\* A step that changes nothing is one the history follows.
LEMMA StepFollowed ==
    ASSUME BooksOK, [LedgerNext]_<<vars, history>>
    PROVE  LedgerStep
<1>1. CASE LedgerNext
  BY <1>1 DEF LedgerNext, LedgerStep
<1>2. CASE UNCHANGED <<vars, history>>
  <2>1. UNCHANGED <<usage, cursors, tx, ledger, draft>>
    BY <1>2 DEF vars, history
  <2>2. tx = T!NoTx => draft = ledger
    BY DEF BooksOK
  <2>3. draft = Booked(draft, tx.cursors, tx.cursors,
                       tx.usage.total - tx.usage.total)
    BY SameBook DEF BooksOK
  <2>4. QED  BY <1>2, <2>1, <2>2, <2>3 DEF LedgerStep, Commits, Drafts
<1>3. QED  BY <1>1, <1>2

LEMMA NextDeletes ==
    DeletesInv /\ Unsaturated' /\ [LedgerNext]_<<vars, history>> => DeletesInv'
<1> SUFFICES ASSUME DeletesInv, Unsaturated', [LedgerNext]_<<vars, history>>
             PROVE  DeletesInv'
  OBVIOUS
<1> USE DEF DeletesInv
<1>0. LedgerStep /\ [Next]_vars
  BY StepFollowed DEF LedgerStep
<1>1. OnlyDeletes'
  BY <1>0, WorkerTo DEF OnlyDeletes
<1>2. Base' /\ EditedOK' /\ OrderOK'
  BY <1>0, NextBase, NextEdited, NextOrder
<1>3. ValueOK' /\ EnteredOK' /\ BooksOK' /\ UncountedOK'
  BY <1>0, NextValues, NextEntered, NextBooks, NextUncounted
<1>4. FreshOK' /\ RowsIn'
  BY <1>0, NextFresh, NextRowsIn
<1>5. QED  BY <1>1, <1>2, <1>3, <1>4

-----------------------------------------------------------------------------
(* Theorems *)

\* Every variable keeps its type, the account's included.
THEOREM TypeCorrect == Spec => []TypeOK
<1>1. Base => TypeOK
  BY DEF Base, Parts, TypeOK
<1>2. QED  BY <1>1, AlwaysBase, PTL

\* The worker, the scheduler and the API calls use the account as
\* EndpointTraffic allows its callers to: each of their steps is one of its
\* steps, or leaves it alone.
THEOREM CallersImplementAccount == Spec => AccountSpec
<1>1. Init => T!Init
  BY DEF Init
<1>2. Base /\ [Next]_vars => [T!Next]_(T!vars)
  BY EveryStep DEF AccountStep
<1>3. QED
  BY <1>1, <1>2, InitBase, NextBase, PTL DEF Spec, AccountSpec, T!Spec

\* So what is proved of the account holds of the program: its total never
\* shrinks, its cursors never go back, and a period never counts more than
\* the total, whoever reports, edits and refreshes.
THEOREM ProgramAccount ==
    Spec => /\ P!TotalNeverShrinks
            /\ P!CursorNeverRewinds
            /\ []P!UsedWithinTotal
<1>1. Init => P!Init
  BY SameSteps DEF Init
<1>2. Base /\ [Next]_vars => [P!Next]_(P!vars)
  BY EveryStep, SameSteps DEF AccountStep
<1>3. Spec => P!Spec
  BY <1>1, <1>2, InitBase, NextBase, PTL DEF Spec, P!Spec
<1>4. P!Spec => P!TotalNeverShrinks
  BY AccountConstants, P!TotalMonotone
<1>5. P!Spec => P!CursorNeverRewinds
  BY AccountConstants, P!CursorMonotone
<1>6. P!Spec => []P!UsedWithinTotal
  BY AccountConstants, P!PeriodWithinTotal
<1>7. QED  BY <1>3, <1>4, <1>5, <1>6, PTL

\* A row that bears an event time has been accounted up to that time.
THEOREM EditsAreAccounted == Spec => []EditedIsAccounted
<1>1. EditedOK => EditedIsAccounted
  BY DEF EditedOK, EditedIsAccounted
<1>2. QED
  BY <1>1, InitBase, NextBase, InitEdited, NextEdited, PTL DEF Spec

\* An event that comes late does not undo what an edit has written.
THEOREM EditsStay == Spec => OlderEventNeverUndoesEdit
<1>1. Base /\ OrderOK /\ [Next]_vars =>
        [\A i \in Insts :
          /\ "refresh" \notin mix.callers
          /\ worker.pc = "update" /\ WorkerIdle
          /\ rows[i] # Nil /\ rows'[i] # rows[i]
          => asof'[i] >= asof[i]]_vars
  <2> SUFFICES ASSUME Base, OrderOK, [Next]_vars, NEW i \in Insts,
                      "refresh" \notin mix.callers, worker.pc = "update",
                      WorkerIdle, rows[i] # Nil, rows'[i] # rows[i]
               PROVE  asof'[i] >= asof[i]
    OBVIOUS
  <2> DEFINE e == worker.event
  <2>1. WorkerUpdate
    BY WorkerFinishes
  <2>2. e \in Event /\ e \in Pending /\ e.kind # "shutdown" /\ e.inst \in Insts
    BY DEF Base, WorkerOK, Pending, Event
  <2>3. rows \in [Insts -> T!Row \cup {Nil}] /\ asof \in [Insts -> T!Time]
    BY DEF Base, T!TypeOK, Parts
  <2>4. /\ rows[e.inst].event \in {Nil} \cup 0 .. e.at
        /\ rows' = [rows EXCEPT ![e.inst] = EventRow(e)]
        /\ asof' = [asof EXCEPT ![e.inst] = e.at]
    BY <2>1 DEF WorkerUpdate
  <2> HIDE DEF e
  <2>5. i = e.inst
    BY <2>3, <2>4
  <2>6. asof'[i] = e.at /\ asof[i] \in Nat /\ e.at \in Nat
    BY <2>2, <2>3, <2>4, <2>5, Numbers DEF Event
  <2>7. CASE rows[i].event # Nil
    <3>1. asof[i] <= rows[i].event /\ rows[i].event \in 0 .. e.at
      BY <2>4, <2>5, <2>7 DEF OrderOK, AsofOK
    <3>2. QED  BY <2>6, <3>1
  <2>8. CASE rows[i].event = Nil
    BY <2>2, <2>5, <2>6, <2>8 DEF OrderOK, AsofOK, NoneOlder
  <2>9. QED  BY <2>7, <2>8
<1>2. QED
  BY <1>1, InitBase, NextBase, InitOrder, NextOrder, PTL
     DEF Spec, OlderEventNeverUndoesEdit

\* As long as nobody but the worker, the scheduler and DeletePortal uses the
\* account, it never holds more than the Portals have carried.
THEOREM CountedOnce ==
    Spec => [](mix.callers \subseteq {"delete"} => NeverCountsTwice)
<1>1. Base /\ HistoryOK => (mix.callers \subseteq {"delete"} => NeverCountsTwice)
  <2> SUFFICES ASSUME Base, HistoryOK, OnlyDeletes PROVE usage.total <= sent
    BY DEF OnlyDeletes, NeverCountsTwice
  <2>1. PICK carried, points, base, copy : History(carried, points, base, copy)
    BY DEF HistoryOK
  <2>2. /\ LedgerOK(carried, points, portal, sent, now)
        /\ AccountedOK(base, points, usage, cursors)
    BY <2>1 DEF History
  <2>3. Cardinality(Taken(base)) \in Nat /\ Cardinality(Taken(base)) <= sent
        /\ sent \in Nat
    BY <2>2, TakenBytes
  <2>4. usage.total <= Cardinality(Taken(base))
    BY <2>2 DEF AccountedOK
  <2>5. usage.total \in Nat
    BY Numbers DEF Base, T!TypeOK, T!Usage, T!Count
  <2>6. QED  BY <2>3, <2>4, <2>5
<1>2. QED
  BY <1>1, InitBase, NextBase, InitEdited, NextEdited, InitOrder, NextOrder,
     InitHistory, NextHistory, PTL DEF Spec

\* As long as nobody but the worker, the scheduler and DeletePortal uses the
\* account, a row is overwritten with less or deleted only when the total has
\* grown by the bytes it shows, for its instance and in the run it was reported
\* in: the counters of an event are accounted before they are written, the
\* report accounted is newer than anything known of its Portal, and no row goes
\* before the first SyncEndpoint has taken all of them in.
THEOREM NothingIsLost ==
    LedgerSpec /\ mix.callers \subseteq {"delete"} => NothingLost
<1>1. DeletesInv /\ Unsaturated' /\ [LedgerNext]_<<vars, history>>
         => [\A i \in Insts :
                /\ told[i] # Nil /\ rows[i] # Nil
                /\ rows'[i] = Nil \/ rows'[i].count < rows[i].count
                => ledger'[i][asof[i]] >= rows[i].count]_<<vars, history>>
  <2> SUFFICES ASSUME DeletesInv, Unsaturated', [LedgerNext]_<<vars, history>>,
                      NEW i \in Insts, told[i] # Nil, rows[i] # Nil,
                      rows'[i] = Nil \/ rows'[i].count < rows[i].count
               PROVE  ledger'[i][asof[i]] >= rows[i].count
    OBVIOUS
  <2> USE DEF DeletesInv
  <2>0. LedgerStep /\ [Next]_vars
    BY StepFollowed DEF LedgerStep
  <2>1. rows[i].count \in Int /\ asof[i] \in T!Time
    BY Numbers DEF Base, T!TypeOK, T!Row, Parts
  <2>2. CASE usage.initialized
    <3>1. rows[i].count <= ledger[i][asof[i]]
      BY <2>2 DEF RowsIn
    <3>2. rows[i].count <= ledger'[i][asof[i]]
      BY <2>0, <2>1, <3>1, StaysBooked
    <3>3. BooksOK' /\ Books' = Books
      BY <2>0, NextBooks DEF Books, T!Time
    <3>4. ledger'[i][asof[i]] \in Nat
      BY <2>1, <3>3 DEF BooksOK, Books
    <3>5. QED  BY <2>1, <3>2, <3>4
  <2>3. usage.initialized
    <3>1. CASE rows'[i] = Nil
      BY <2>0, <3>1, RowGoes
    <3>2. CASE rows'[i] = rows[i]
      BY <2>1, <3>2
    <3>3. CASE worker.pc \in {"insert", "update"}
      BY <3>3 DEF EnteredOK, Done
    <3>4. QED  BY <2>0, <3>1, <3>2, <3>3, StoredSteps
  <2>4. QED  BY <2>2, <2>3
<1>2. [LedgerNext]_<<vars, history>> => [Next]_vars
  BY DEF LedgerNext, vars
<1> DEFINE Kept1 == Base /\ EditedOK /\ OrderOK /\ HistoryOK /\ OnlyDeletes
<1>3. Init /\ OnlyDeletes => Kept1
  BY InitBase, InitEdited, InitOrder, InitHistory
<1>4. Kept1 /\ [Next]_vars => Kept1'
  BY NextBase, NextEdited, NextOrder, NextHistory, WorkerTo DEF OnlyDeletes
<1>5. Kept1 => Unsaturated
  BY RoomLeft
<1>6. LedgerInit => Init
  BY DEF LedgerInit
<1>7. mix.callers \subseteq {"delete"} => OnlyDeletes
  BY DEF OnlyDeletes
<1> HIDE DEF Kept1
<1>8. QED
  BY <1>1, <1>2, <1>3, <1>4, <1>5, <1>6, <1>7, InitDeletes, NextDeletes, PTL
     DEF LedgerSpec, NothingLost
=============================================================================
