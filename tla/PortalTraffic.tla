---------------------------- MODULE PortalTraffic ----------------------------
(***************************************************************************)
(* Who feeds the traffic account of EndpointTraffic, and in what order:    *)
(* the SSE worker (sse/service.go), the scheduler's SyncAll, and the API   *)
(* calls that create, edit, reset, delete and refresh Portal tunnels       *)
(* (tunnel/service.go, api/endpoint.go).  The Portals of one OpenCtrl      *)
(* carry bytes and report counters; the dashboard sees them late.          *)
(*                                                                         *)
(* An event bears OpenCtrl's time, as fine as OpenCtrl prints it; an API   *)
(* answer is stamped when it arrives.  One clock stands for both machines'.*)
(* Events come in order and wait in the worker's queue, whose tail is lost *)
(* when the connection is.  No reset plan: that is EndpointTraffic's part. *)
(***************************************************************************)
EXTENDS Integers, Sequences, FiniteSets

CONSTANTS
    Insts, Readings, MaxCount, Schedules, Boundaries, Nil, MaxTime,
    Mixes,          \* the mixes of callers, each with a bound on its time
    MaxBytes,       \* bound on the bytes all Portals carry
    MaxQueue        \* bound on the events under way

\* What happens besides reports: the API calls that feed the account, "touch"
\* for the writers of updated_at, and "shutdown" of OpenCtrl.
Calls == {"create", "update", "reset", "delete", "refresh"}
Callers == Calls \cup {"touch", "shutdown"}

ASSUME PortalAssumption ==
    /\ Mixes \subseteq [callers : SUBSET Callers, time : 0 .. MaxTime]
    /\ MaxBytes \in Nat /\ MaxBytes < MaxCount /\ MaxQueue \in Nat
    /\ Readings = 0 .. MaxBytes
    /\ IsFiniteSet(Insts) /\ Cardinality(Insts) <= MaxBytes

VARIABLES
    now, usage, cursors, rows, tx,      \* as in EndpointTraffic
    portal,         \* the instances OpenCtrl runs, with their counters
    sent,           \* bytes really carried since the beginning
    told,           \* the time of an instance's last report, or Nil when
                    \* OpenCtrl prints times too coarse to tell two apart
    stream,         \* events emitted and not yet taken by the worker
    worker,         \* the event the worker is at
    api,            \* the API call in progress
    asof,           \* when the state a row shows was reported
    mix             \* who calls, and for how long, in this behaviour

T == INSTANCE EndpointTraffic

ASSUME AccountAssumption == T!TrafficAssumption /\ T!CalendarAssumption

account == <<usage, cursors, tx>>
vars == <<now, usage, cursors, rows, tx, portal, sent, told, stream,
          worker, api, asof, mix>>

Event == [kind : {"report", "delete", "shutdown"}, inst : Insts, at : T!Time,
          count : 0 .. MaxBytes]
NoCall == [pc |-> "idle", op |-> "none", inst |-> Nil,
           seen |-> [i \in Insts |-> Nil], at |-> 0]

TypeOK ==
    /\ T!TypeOK
    /\ portal \in [Insts -> [state : {"unborn", "up", "gone"},
                             count : 0 .. MaxBytes]]
    /\ sent \in 0 .. MaxBytes
    /\ told \in [Insts -> T!Time \cup {Nil}]
    /\ stream \in Seq(Event) /\ Len(stream) <= MaxQueue
    /\ worker \in [pc : {"idle", "observing", "insert", "update", "check",
                         "delete"}, event : Event \cup {Nil}]
    /\ api \in [pc : {"idle", "sync", "syncing", "call", "observe",
                      "observing", "write"},
                op : Calls \cup {"none"}, inst : Insts \cup {Nil},
                seen : [Insts -> (0 .. MaxBytes) \cup {Nil}], at : T!Time]
    /\ asof \in [Insts -> T!Time]
    /\ mix \in Mixes

\* A new database, or one whose tunnels have never been accounted.
Init ==
    /\ T!Init
    /\ portal \in [Insts -> {[state |-> "unborn", count |-> 0],
                             [state |-> "up", count |-> 1]}]
    /\ \A i \in Insts : rows[i] # Nil =>
          portal[i].state = "up" /\ rows[i].count = portal[i].count
    /\ sent = Cardinality({i \in Insts : portal[i].count = 1})
    /\ \E first \in {0, Nil} : told = [i \in Insts |-> first]
    /\ stream = << >>
    /\ worker = [pc |-> "idle", event |-> Nil]
    /\ api = NoCall
    /\ asof = [i \in Insts |-> 0]
    /\ mix \in Mixes

-----------------------------------------------------------------------------
(* OpenCtrl *)

Others == UNCHANGED <<usage, cursors, rows, tx, worker, asof, mix>>

Carry(i) ==
    /\ portal[i].state = "up" /\ sent < MaxBytes
    /\ portal' = [portal EXCEPT ![i].count = @ + 1]
    /\ sent' = sent + 1
    /\ Others /\ UNCHANGED <<now, told, stream, api>>

\* An instance that restarts counts from zero.
InstanceRestarts(i) ==
    /\ portal[i].state = "up" /\ portal[i].count > 0
    /\ portal' = [portal EXCEPT ![i].count = 0]
    /\ Others /\ UNCHANGED <<now, sent, told, stream, api>>

Emit(kind, i) ==
    stream' = Append(stream, [kind |-> kind, inst |-> i, at |-> now,
                              count |-> portal[i].count])

\* An initial, create or update event.
Report(i) ==
    /\ portal[i].state = "up" /\ Len(stream) < MaxQueue
    /\ told[i] # now
    /\ told' = [told EXCEPT ![i] = IF @ = Nil THEN Nil ELSE now]
    /\ Emit("report", i)
    /\ Others /\ UNCHANGED <<now, portal, sent, api>>

\* OpenCtrl goes down and comes back; the event names no instance.
Shutdown(i) ==
    /\ "shutdown" \in mix.callers /\ Len(stream) < MaxQueue
    /\ Emit("shutdown", i)
    /\ Others /\ UNCHANGED <<now, portal, sent, told, api>>

\* The connection breaks, or the queue is full: the last events are lost.
Lose ==
    /\ \E n \in 0 .. Len(stream) - 1 : stream' = SubSeq(stream, 1, n)
    /\ Others /\ UNCHANGED <<now, portal, sent, told, api>>

Tick ==
    /\ now < mix.time /\ T!Tick
    /\ UNCHANGED <<portal, sent, told, stream, worker, api, asof, mix>>

-----------------------------------------------------------------------------
(* The worker: ProcessEvent for the first event of the queue. *)

Outside == UNCHANGED <<now, portal, sent, told, api, mix>>
WorkerAt(pc) == worker' = [worker EXCEPT !.pc = pc]
WorkerIdle == worker' = [pc |-> "idle", event |-> Nil]
EventSample(e) == [inst |-> e.inst, at |-> e.at, count |-> e.count]

WorkerTake ==
    /\ worker.pc = "idle" /\ stream # << >>
    /\ Head(stream).kind # "shutdown"
    /\ T!BeginObserve(EventSample(Head(stream)), now)
    /\ stream' = Tail(stream)
    /\ worker' = [pc |-> "observing", event |-> Head(stream)]
    /\ UNCHANGED <<portal, sent, told, api, asof, mix>>

WorkerObserved ==
    /\ worker.pc = "observing"
    /\ T!CommitObserve
    /\ WorkerAt(IF worker.event.kind = "delete" THEN "check" ELSE "insert")
    /\ Outside /\ UNCHANGED <<rows, stream, asof>>

\* Mutant: the row is written although the event was not accounted.
WorkerGoesOn ==
    /\ worker.pc = "observing"
    /\ T!Rollback
    /\ WorkerAt(IF worker.event.kind = "delete" THEN "check" ELSE "insert")
    /\ UNCHANGED <<portal, sent, told, api, stream, asof, mix>>

\* Mutant: the event goes back to the queue, which may have filled up.
WorkerRequeues ==
    /\ worker.pc = "observing"
    /\ T!Rollback
    /\ stream' = <<worker.event>> \o stream
    /\ WorkerIdle
    /\ UNCHANGED <<portal, sent, told, api, asof, mix>>

\* The event is dropped when it cannot be accounted.
WorkerFails ==
    /\ worker.pc = "observing"
    /\ T!Rollback
    /\ WorkerIdle
    /\ UNCHANGED <<portal, sent, told, api, stream, asof, mix>>

EventRow(e) == [count |-> e.count, event |-> e.at, updated |-> now]

\* handleCreateEvent, which handleUpdateEvent calls when there is no row; the
\* insert does nothing when somebody was faster.
WorkerInsert ==
    /\ worker.pc = "insert"
    /\ LET e == worker.event IN
       \/ /\ rows[e.inst] = Nil
          /\ rows' = [rows EXCEPT ![e.inst] = EventRow(e)]
          /\ asof' = [asof EXCEPT ![e.inst] = e.at]
       \/ rows[e.inst] # Nil /\ UNCHANGED <<rows, asof>>
    /\ WorkerAt("update")
    /\ Outside /\ UNCHANGED <<stream, account>>

\* Mutant: the update has no guard.
WorkerUpdateAnyway ==
    /\ worker.pc = "update"
    /\ LET e == worker.event IN
       \/ /\ rows[e.inst] # Nil
          /\ rows' = [rows EXCEPT ![e.inst] = EventRow(e)]
          /\ asof' = [asof EXCEPT ![e.inst] = e.at]
       \/ rows[e.inst] = Nil /\ UNCHANGED <<rows, asof>>
    /\ WorkerIdle
    /\ Outside /\ UNCHANGED <<stream, account>>

\* updateTunnelRuntimeInfo: last_event_time IS NULL OR last_event_time <= ?
WorkerUpdate ==
    /\ worker.pc = "update"
    /\ LET e == worker.event
           current == /\ rows[e.inst] # Nil
                      /\ rows[e.inst].event \in {Nil} \cup 0 .. e.at
       IN
       \/ /\ current
          /\ rows' = [rows EXCEPT ![e.inst] = EventRow(e)]
          /\ asof' = [asof EXCEPT ![e.inst] = e.at]
       \/ ~current /\ UNCHANGED <<rows, asof>>
    /\ WorkerIdle
    /\ Outside /\ UNCHANGED <<stream, account>>

\* The insert or the update fails; what was accounted stays.
WorkerWriteFails ==
    /\ worker.pc \in {"insert", "update"}
    /\ WorkerIdle
    /\ Outside /\ UNCHANGED <<rows, stream, account, asof>>

\* handleShutdownEvent: every row is offline as of now, its counters stay.
WorkerShutdown ==
    /\ worker.pc = "idle" /\ stream # << >>
    /\ Head(stream).kind = "shutdown"
    /\ stream' = Tail(stream)
    /\ rows' = [i \in Insts |-> IF rows[i] = Nil THEN Nil
                                ELSE [rows[i] EXCEPT !.event = now,
                                                     !.updated = now]]
    /\ Outside /\ UNCHANGED <<worker, account, asof>>

\* handleDeleteEvent reads the row first, and leaves a newer one alone.
WorkerCheckDelete ==
    /\ worker.pc = "check"
    /\ LET e == worker.event IN
       \/ /\ rows[e.inst] # Nil
          /\ rows[e.inst].event \in {Nil} \cup 0 .. e.at
          /\ WorkerAt("delete")
       \/ /\ rows[e.inst] # Nil => rows[e.inst].event \notin {Nil} \cup 0 .. e.at
          /\ WorkerIdle
    /\ Outside /\ UNCHANGED <<rows, stream, account, asof>>

\* The row goes, or a statement before or at the DELETE fails.
WorkerDelete ==
    /\ worker.pc = "delete"
    /\ rows' \in {rows, [rows EXCEPT ![worker.event.inst] = Nil]}
    /\ WorkerIdle
    /\ Outside /\ UNCHANGED <<stream, account, asof>>

-----------------------------------------------------------------------------
(* SyncAll, once a minute: a transaction of its own. *)

ApiOwns == api.pc \in {"syncing", "observing"}
Unmoved == UNCHANGED <<portal, sent, told, stream, worker, api, asof, mix>>

SchedulerSync == T!BeginSync(now) /\ Unmoved
SchedulerCommit == ~ApiOwns /\ T!CommitSync /\ Unmoved /\ UNCHANGED rows
SchedulerFails == ~ApiOwns /\ tx.op = "sync" /\ T!Rollback /\ Unmoved
SyncRow == T!SyncRow /\ Unmoved

-----------------------------------------------------------------------------
(* API calls, one at a time. *)

Elsewhere == UNCHANGED <<now, sent, told, worker, mix>>
ApiAt(pc) == api' = [api EXCEPT !.pc = pc]

\* CreatePortal and refreshTunnels call OpenCtrl first, the others account
\* what the database knows before they do.
ApiStart(op, i) ==
    /\ api.pc = "idle" /\ op \in mix.callers
    /\ op \in {"update", "reset", "delete"} => rows[i] # Nil
    /\ op = "create" => portal[i].state = "unborn"
    /\ api' = [NoCall EXCEPT !.op = op, !.inst = i,
                  !.pc = IF op \in {"create", "refresh"} THEN "call" ELSE "sync"]
    /\ Elsewhere /\ UNCHANGED <<account, rows, portal, stream, asof>>

ApiSync ==
    /\ api.pc = "sync" /\ T!BeginSync(now) /\ ApiAt("syncing")
    /\ UNCHANGED <<portal, sent, told, stream, worker, asof, mix>>

ApiSynced ==
    /\ api.pc = "syncing" /\ api.op # "refresh"
    /\ T!CommitSync /\ ApiAt("call")
    /\ Elsewhere /\ UNCHANGED <<rows, portal, stream, asof>>

\* What OpenCtrl answers, and when it knew it.
ApiCall ==
    /\ api.pc = "call"
    /\ LET i == api.inst
           seen == IF api.op = "refresh"
                   THEN [j \in Insts |-> IF portal[j].state = "up"
                                         THEN portal[j].count ELSE Nil]
                   ELSE [NoCall.seen EXCEPT ![i] = IF api.op = "reset" THEN 0
                                                   ELSE portal[i].count]
       IN
       /\ api' = [api EXCEPT !.seen = seen, !.at = now,
                     !.pc = CASE api.op \in {"create", "delete"} -> "write"
                              [] api.op \in {"update", "reset"} -> "observe"
                              [] OTHER -> "sync"]
       /\ \/ api.op = "refresh" /\ UNCHANGED <<portal, stream>>
          \/ /\ api.op = "create"
             /\ portal' = [portal EXCEPT ![i].state = "up"]
             /\ UNCHANGED stream
          \/ /\ api.op = "update" /\ portal[i].state = "up"
             /\ UNCHANGED <<portal, stream>>
          \/ /\ api.op = "reset" /\ portal[i].state = "up"
             /\ portal' = [portal EXCEPT ![i].count = 0]
             /\ UNCHANGED stream
          \/ /\ api.op = "delete" /\ portal[i].state = "up"
             /\ portal' = [portal EXCEPT ![i].state = "gone"]
             /\ Len(stream) < MaxQueue /\ Emit("delete", i)
          \/ /\ api.op = "delete" /\ portal[i].state = "gone"
             /\ UNCHANGED <<portal, stream>>
    /\ Elsewhere /\ UNCHANGED <<account, rows, asof>>

\* observedAt is the time at which the answer came, later than it was true.
ApiObserve ==
    /\ api.pc = "observe"
    /\ \E at \in api.at .. now :
          T!BeginObserve([inst |-> api.inst, at |-> at,
                          count |-> api.seen[api.inst]], now)
    /\ ApiAt("observing")
    /\ UNCHANGED <<portal, sent, told, stream, worker, asof, mix>>

Overwrite(i, count, at) ==
    \/ /\ rows[i] # Nil
       /\ rows' = [rows EXCEPT ![i] = [count |-> count, event |-> at,
                                       updated |-> now]]
       /\ asof' = [asof EXCEPT ![i] = at]
    \/ rows[i] = Nil /\ UNCHANGED <<rows, asof>>

\* ResetTunnelTraffic writes the row in Observe's transaction, UpdatePortal
\* writes it later.
ApiObserved ==
    /\ api.pc = "observing" /\ T!CommitObserve
    /\ \/ /\ api.op = "reset" /\ api' = NoCall
          /\ Overwrite(api.inst, 0, tx.sample.at)
       \/ /\ api.op = "update"
          /\ api' = [api EXCEPT !.pc = "write", !.at = tx.sample.at]
          /\ UNCHANGED <<rows, asof>>
    /\ Elsewhere /\ UNCHANGED <<portal, stream>>

\* The row is saved by its id; CreatePortal leaves the counters of a row that
\* the create event was faster to insert.
ApiWrite ==
    /\ api.pc = "write"
    /\ LET i == api.inst IN
       \/ /\ api.op = "update"
          /\ Overwrite(i, api.seen[i], api.at)
       \/ /\ api.op = "delete"
          /\ rows' = [rows EXCEPT ![i] = Nil] /\ UNCHANGED asof
       \/ /\ api.op = "create" /\ rows[i] = Nil
          /\ rows' = [rows EXCEPT ![i] = [count |-> api.seen[i], event |-> Nil,
                                          updated |-> now]]
          /\ asof' = [asof EXCEPT ![i] = api.at]
       \/ /\ api.op = "create" /\ rows[i] # Nil
          /\ rows' = [rows EXCEPT ![i].updated = now] /\ UNCHANGED asof
    /\ api' = NoCall
    /\ Elsewhere /\ UNCHANGED <<account, portal, stream>>

\* Mutant: the rows are written although SyncEndpoint has failed.
ApiRefreshUnsynced ==
    /\ api.pc = "syncing" /\ api.op = "refresh"
    /\ tx' = T!NoTx
    /\ rows' = [i \in Insts |-> IF api.seen[i] = Nil THEN Nil
                                ELSE [count |-> api.seen[i], event |-> Nil,
                                      updated |-> now]]
    /\ api' = NoCall
    /\ Elsewhere /\ UNCHANGED <<usage, cursors, portal, stream, asof>>

\* refreshTunnels: SyncEndpoint and every row in one transaction; the list
\* was fetched before it, and has no event time.
ApiRefresh ==
    /\ api.pc = "syncing" /\ api.op = "refresh"
    /\ T!CommitSync
    /\ rows' = [i \in Insts |-> IF api.seen[i] = Nil THEN Nil
                                ELSE [count |-> api.seen[i], event |-> Nil,
                                      updated |-> now]]
    /\ asof' = [i \in Insts |-> IF api.seen[i] = Nil THEN asof[i] ELSE api.at]
    /\ api' = NoCall
    /\ Elsewhere /\ UNCHANGED <<portal, stream>>

\* Any call, query or transaction of the handler may fail.
ApiFails ==
    /\ api.pc # "idle" /\ api' = NoCall
    /\ \/ ApiOwns /\ T!Rollback
       \/ ~ApiOwns /\ UNCHANGED <<now, account, rows>>
    /\ UNCHANGED <<portal, sent, told, stream, worker, asof, mix>>

\* Rename, tags, restart policy, start and stop: only updated_at moves.
ApiTouch(i) ==
    /\ "touch" \in mix.callers /\ rows[i] # Nil
    /\ rows' = [rows EXCEPT ![i].updated = now]
    /\ Elsewhere /\ UNCHANGED <<account, portal, stream, api, asof>>

\* The dashboard is restarted: the database keeps what was committed.
Crash ==
    /\ tx' = T!NoTx /\ stream' = << >> /\ WorkerIdle /\ api' = NoCall
    /\ UNCHANGED <<now, usage, cursors, rows, portal, sent, told, asof, mix>>

WorkerStep ==
    \/ WorkerTake \/ WorkerObserved \/ WorkerFails \/ WorkerInsert
    \/ WorkerUpdate \/ WorkerWriteFails \/ WorkerCheckDelete \/ WorkerDelete
    \/ WorkerShutdown

ApiStep ==
    \/ ApiSync \/ ApiSynced \/ ApiCall \/ ApiObserve \/ ApiObserved
    \/ ApiWrite \/ ApiRefresh \/ ApiFails

Next ==
    \/ \E i \in Insts :
          \/ Carry(i) \/ InstanceRestarts(i) \/ Report(i) \/ Shutdown(i)
          \/ ApiTouch(i)
          \/ \E op \in Calls : ApiStart(op, i)
    \/ WorkerStep \/ ApiStep
    \/ SchedulerSync \/ SchedulerCommit \/ SchedulerFails \/ SyncRow
    \/ Lose \/ Tick \/ Crash

Spec == Init /\ [][Next]_vars

-----------------------------------------------------------------------------
(* Properties *)

\* The callers use the account as EndpointTraffic says it may be used: what
\* is shown there for every caller holds for the program's own.
AccountSpec == T!Spec

\* service_test.go:78: no old snapshot and no late event counts twice; the
\* account never holds more than the Portals have carried.
NeverCountsTwice == usage.total <= sent

\* A row that bears an event time has been accounted, whoever edited it and
\* whatever failed (tunnel/service.go, sse/service.go): the next SyncEndpoint
\* finds nothing new in it.  A shutdown stamps rows without accounting them.
EditedIsAccounted ==
    "shutdown" \notin mix.callers =>
        \A i \in Insts :
            rows[i] # Nil /\ rows[i].event # Nil =>
                cursors[i].at # Nil /\ cursors[i].at >= rows[i].event

\* sse/service.go:288: an older event does not overwrite what an edit wrote.
\* A refresh writes rows that have no event time to be compared with.
OlderEventNeverUndoesEdit ==
    [][\A i \in Insts :
          /\ "refresh" \notin mix.callers
          /\ worker.pc = "update" /\ WorkerIdle
          /\ rows[i] # Nil /\ rows'[i] # rows[i]
          => asof'[i] >= asof[i]]_vars
=============================================================================
