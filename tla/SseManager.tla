----------------------------- MODULE SseManager -----------------------------
(***************************************************************************)
(* The life of an endpoint's SSE connection in internal/sse/manager.go:    *)
(* the table m.connections, the connection objects it points to, one       *)
(* listenSSE goroutine and one subscription goroutine per ConnectEndpoint, *)
(* the reconnect daemon, the manual connect and disconnect requests of the *)
(* API, the shutdown notices that come back from the event workers, Close, *)
(* and a restart that rebuilds everything from the endpoint rows.          *)
(*                                                                         *)
(* A connection object outlives its listeners: ConnectEndpoint cancels the *)
(* running listener and starts another one on the SAME object, so a late   *)
(* step of the old listener writes the flags the new one relies on.  Every *)
(* goroutine step that touches shared state is an action of its own here.  *)
(*                                                                         *)
(* Clocks are abstract: a timer may fire whenever its guard holds, and the *)
(* daemon may find any attempt too recent, but not for ever.  What         *)
(* hasActiveTunnels answers is arbitrary here.  Objects that nothing       *)
(* refers to any more are reused, so Conns and Listeners bound what is     *)
(* alive at once, not the length of a behaviour.                           *)
(***************************************************************************)
EXTENDS Naturals

CONSTANTS
    Endpoints,      \* endpoint ids
    Conns,          \* *EndpointConnection objects
    Listeners,      \* activations of listenSSE (and of its context)
    NoConn,         \* no entry in m.connections
    NoListener,     \* conn.Cancel not set
    NoEndpoint,     \* an object not in use yet
    QueueCap        \* capacity of an endpoint's event queue

ASSUME SseAssumption ==
    /\ NoConn \notin Conns
    /\ NoListener \notin Listeners
    /\ NoEndpoint \notin Endpoints
    /\ QueueCap \in Nat \ {0}

VARIABLES
    mgr,            \* "booting", "running", "stopping", "closed"
    boot,           \* endpoints InitializeSystem has still to connect
    conns,          \* m.connections
    owner,          \* conn.EndpointID
    manual,         \* conn.isManuallyDisconnected
    connected,      \* conn.isConnected
    cancel,         \* the listener whose context conn.Cancel cancels
    lconn,          \* the object a listener works on
    ctxLive,        \* the listener's context is not done
    lpc,            \* control point of the listener goroutine; "waiting" and
                    \* "live" are its select before and after the first event
    sub,            \* control point of its subscription goroutine
    requests,       \* API requests between their two steps
    status,         \* endpoints.status, "absent" when there is no row
    notices,        \* shutdown events waiting for the endpoint's worker
    worker,         \* control point of that worker
    daemon          \* the reconnect daemon: control point, todo list, and the
                    \* object it looks at or the endpoint it will connect

objVars == <<owner, manual, connected, cancel>>
lisVars == <<lconn, ctxLive, lpc, sub>>
dbVars == <<status, notices, worker>>
vars == <<mgr, boot, conns, objVars, lisVars, requests, dbVars, daemon>>

Statuses == {"absent", "ONLINE", "OFFLINE", "FAIL", "DISCONNECT"}
ListenerPCs == {"done", "waiting", "online", "live", "mark"}
SubPCs == {"ended", "trying", "subscribed", "mark"}
DaemonPCs == {"off", "wait", "scan", "connected", "attempt", "connect"}
Request == [op : {"connect", "delete"}, ep : Endpoints]

TypeOK ==
    /\ mgr \in {"booting", "running", "stopping", "closed"}
    /\ boot \subseteq Endpoints
    /\ conns \in [Endpoints -> Conns \cup {NoConn}]
    /\ owner \in [Conns -> Endpoints \cup {NoEndpoint}]
    /\ manual \in [Conns -> BOOLEAN]
    /\ connected \in [Conns -> BOOLEAN]
    /\ cancel \in [Conns -> Listeners \cup {NoListener}]
    /\ lconn \in [Listeners -> Conns \cup {NoConn}]
    /\ ctxLive \in [Listeners -> BOOLEAN]
    /\ lpc \in [Listeners -> ListenerPCs]
    /\ sub \in [Listeners -> SubPCs]
    /\ requests \subseteq Request
    /\ status \in [Endpoints -> Statuses]
    /\ notices \in [Endpoints -> 0 .. QueueCap]
    /\ worker \in [Endpoints -> {"idle", "notify", "exited"}]
    /\ daemon \in [pc : DaemonPCs, todo : SUBSET Conns,
                   cur : Conns \cup {NoConn},
                   ep : Endpoints \cup {NoEndpoint}]

-----------------------------------------------------------------------------
(* What the Go run time keeps alive. *)

\* Both goroutines of an activation have come to rest.
AtRest(l) == lpc[l] = "done" /\ sub[l] = "ended"

\* No table entry, goroutine or daemon list refers to the object.
FreeConn(c) ==
    /\ \A e \in Endpoints : conns[e] # c
    /\ \A l \in Listeners : lconn[l] = c => AtRest(l)
    /\ c \notin daemon.todo /\ c # daemon.cur

\* An activation at rest whose context no object but c can still cancel.
FreeListener(l, c) ==
    AtRest(l) /\ \A d \in Conns \ {c} : cancel[d] = l => FreeConn(d)

\* A row id nothing in memory remembers.
FreeEndpoint(e) ==
    /\ status[e] = "absent" /\ conns[e] = NoConn /\ notices[e] = 0
    /\ daemon.ep # e /\ \A r \in requests : r.ep # e
    /\ \A c \in Conns : owner[c] = e => FreeConn(c)

\* conn.Cancel() ends the context of the object's latest listener.
Cancelled(c) == [l \in Listeners |-> ctxLive[l] /\ l # cancel[c]]

\* UPDATE endpoints SET status: without a row it changes nothing.
SetStatus(e, s) ==
    status' = IF status[e] = "absent" THEN status
              ELSE [status EXCEPT ![e] = s]

-----------------------------------------------------------------------------
(* ConnectEndpoint, under m.mu: reuse the object of the table or make one, *)
(* cancel what runs on it, start a listener under a child of daemonCtx.    *)

DaemonCtxLive == mgr \in {"booting", "running"}

StartListener(c, l, contexts) ==
    /\ ctxLive' = [contexts EXCEPT ![l] = DaemonCtxLive]
    /\ cancel' = [cancel EXCEPT ![c] = l]
    /\ lconn' = [lconn EXCEPT ![l] = c]
    /\ lpc' = [lpc EXCEPT ![l] = "waiting"]
    /\ sub' = [sub EXCEPT ![l] = "trying"]
    /\ manual' = [manual EXCEPT ![c] = FALSE]
    /\ connected' = [connected EXCEPT ![c] = FALSE]

\* Mutant: the listener that runs on the object is not cancelled.
ReconnectKeepsContext(e, c, l) ==
    /\ conns[e] = c
    /\ StartListener(c, l, ctxLive)
    /\ UNCHANGED <<conns, owner>>

Reconnect(e, c, l) ==
    /\ conns[e] = c
    /\ StartListener(c, l, Cancelled(c))
    /\ UNCHANGED <<conns, owner>>

ConnectNew(e, c, l) ==
    /\ conns[e] = NoConn /\ FreeConn(c)
    /\ conns' = [conns EXCEPT ![e] = c]
    /\ owner' = [owner EXCEPT ![c] = e]
    /\ StartListener(c, l, ctxLive)

Connect(e) ==
    \E c \in Conns, l \in Listeners :
        FreeListener(l, c) /\ (Reconnect(e, c, l) \/ ConnectNew(e, c, l))

\* InitializeSystem connects every endpoint whose row allows it; the HTTP
\* server and the daemon start only after it has returned.
BootConnect(e) ==
    /\ mgr = "booting" /\ e \in boot
    /\ boot' = boot \ {e}
    /\ Connect(e)
    /\ UNCHANGED <<mgr, requests, dbVars, daemon>>

BootDone ==
    /\ mgr = "booting" /\ boot = {}
    /\ mgr' = "running"
    /\ daemon' = [daemon EXCEPT !.pc = "wait"]
    /\ UNCHANGED <<boot, conns, objVars, lisVars, requests, dbVars>>

-----------------------------------------------------------------------------
(* The API.  Its server starts after InitializeSystem and outlives Close.  *)

Serving == mgr # "booting"

\* A new endpoint: its row, and a goroutine that will connect it.
ApiCreate(e) ==
    /\ Serving /\ FreeEndpoint(e)
    /\ status' = [status EXCEPT ![e] = "OFFLINE"]
    /\ requests' = requests \cup {[op |-> "connect", ep |-> e]}
    /\ UNCHANGED <<mgr, boot, conns, objVars, lisVars, notices, worker, daemon>>

\* Reconnect, or a changed address or key: the row is read now, the
\* connection is made later, whatever happened to the row in between.
ApiReconnect(e) ==
    /\ Serving /\ status[e] # "absent"
    /\ requests' = requests \cup {[op |-> "connect", ep |-> e]}
    /\ UNCHANGED <<mgr, boot, conns, objVars, lisVars, dbVars, daemon>>

ApiConnect(e) ==
    /\ [op |-> "connect", ep |-> e] \in requests
    /\ requests' = requests \ {[op |-> "connect", ep |-> e]}
    /\ Connect(e)
    /\ UNCHANGED <<mgr, boot, dbVars, daemon>>

\* DisconnectEndpoint, under m.mu; without an entry it does nothing.
Disconnect(e) ==
    IF conns[e] = NoConn
    THEN UNCHANGED <<conns, objVars, lisVars, status>>
    ELSE /\ manual' = [manual EXCEPT ![conns[e]] = TRUE]
         /\ connected' = [connected EXCEPT ![conns[e]] = FALSE]
         /\ ctxLive' = Cancelled(conns[e])
         /\ conns' = [conns EXCEPT ![e] = NoConn]
         /\ SetStatus(e, "DISCONNECT")
         /\ UNCHANGED <<owner, cancel, lconn, lpc, sub>>

ApiDisconnect(e) ==
    /\ Serving /\ conns[e] # NoConn
    /\ Disconnect(e)
    /\ UNCHANGED <<mgr, boot, requests, notices, worker, daemon>>

\* Deleting an endpoint: disconnect first, delete the row afterwards.
ApiDelete(e) ==
    /\ Serving /\ status[e] # "absent"
    /\ Disconnect(e)
    /\ requests' = requests \cup {[op |-> "delete", ep |-> e]}
    /\ UNCHANGED <<mgr, boot, notices, worker, daemon>>

ApiDeleteRow(e) ==
    /\ [op |-> "delete", ep |-> e] \in requests
    /\ requests' = requests \ {[op |-> "delete", ep |-> e]}
    /\ status' = [status EXCEPT ![e] = "absent"]
    /\ UNCHANGED <<mgr, boot, conns, objVars, lisVars, notices, worker, daemon>>

-----------------------------------------------------------------------------
(* The reconnect daemon, checkAndReconnect once a minute.  Its three reads *)
(* and the ConnectEndpoint at the end each take their own lock.            *)

Goto(pc) == daemon' = [daemon EXCEPT !.pc = pc]
NextConn == daemon' = [daemon EXCEPT !.pc = "scan", !.cur = NoConn,
                                      !.ep = NoEndpoint]
DaemonFrame == UNCHANGED <<mgr, boot, requests, dbVars>>

DaemonTick ==
    /\ daemon.pc = "wait"
    /\ daemon' = [daemon EXCEPT !.pc = "scan",
                    !.todo = {c \in Conns : \E e \in Endpoints : conns[e] = c}]
    /\ DaemonFrame /\ UNCHANGED <<conns, objVars, lisVars>>

DaemonReadManual(c) ==
    /\ daemon.pc = "scan" /\ c \in daemon.todo
    /\ daemon' = IF manual[c]
                 THEN [daemon EXCEPT !.todo = @ \ {c}]
                 ELSE [daemon EXCEPT !.pc = "connected", !.todo = @ \ {c},
                                     !.cur = c]
    /\ DaemonFrame /\ UNCHANGED <<conns, objVars, lisVars>>

DaemonReadConnected ==
    /\ daemon.pc = "connected"
    /\ IF connected[daemon.cur] THEN NextConn ELSE Goto("attempt")
    /\ DaemonFrame /\ UNCHANGED <<conns, objVars, lisVars>>

\* The last attempt is less than thirty seconds old: next object.
DaemonTooRecent ==
    /\ daemon.pc = "attempt"
    /\ NextConn
    /\ DaemonFrame /\ UNCHANGED <<conns, objVars, lisVars>>

\* reconnectEndpoint cancels the old listener, then asks for a new one.
DaemonCancel ==
    /\ daemon.pc = "attempt"
    /\ daemon' = [daemon EXCEPT !.pc = "connect", !.cur = NoConn,
                                !.ep = owner[daemon.cur]]
    /\ ctxLive' = Cancelled(daemon.cur)
    /\ DaemonFrame /\ UNCHANGED <<conns, objVars, lconn, lpc, sub>>

DaemonConnect ==
    /\ daemon.pc = "connect"
    /\ Connect(daemon.ep)
    /\ NextConn
    /\ DaemonFrame

\* The end of a pass; the daemon leaves between two passes only.
DaemonPassDone ==
    /\ daemon.pc = "scan" /\ daemon.todo = {}
    /\ Goto(IF mgr = "running" THEN "wait" ELSE "off")
    /\ DaemonFrame /\ UNCHANGED <<conns, objVars, lisVars>>

DaemonExit ==
    /\ daemon.pc = "wait" /\ mgr = "stopping"
    /\ Goto("off")
    /\ DaemonFrame /\ UNCHANGED <<conns, objVars, lisVars>>

-----------------------------------------------------------------------------
(* The listener goroutine.  Go's select takes any ready branch, so an      *)
(* event, a timer and a done context compete; what follows a branch is not *)
(* interrupted by the context.  A branch that gives up clears the flag and *)
(* reads the manual flag; the row is written in a later step.              *)

SetConnected(c, b) == connected' = [connected EXCEPT ![c] = b]
ListenerGoto(l, pc) == lpc' = [lpc EXCEPT ![l] = pc]

\* The goroutine returns; nobody reads its stream any more.
ListenerReturn(l) ==
    /\ ListenerGoto(l, "done")
    /\ sub' = [sub EXCEPT ![l] = IF @ = "subscribed" THEN "ended" ELSE @]

Selecting(l) == lpc[l] \in {"waiting", "live"}
ListenerFrame == UNCHANGED <<mgr, boot, conns, owner, manual, cancel, lconn,
                             ctxLive, requests, worker, daemon>>

\* Mutant: the flag survives the cancelled listener.
CancelledKeepsFlag(l) ==
    /\ Selecting(l) /\ ~ctxLive[l]
    /\ ListenerReturn(l)
    /\ ListenerFrame /\ UNCHANGED <<connected, status, notices>>

\* The context is done: unsubscribe, clear the flag, return.
ListenerCancelled(l) ==
    /\ Selecting(l) /\ ~ctxLive[l]
    /\ ListenerReturn(l)
    /\ SetConnected(lconn[l], FALSE)
    /\ ListenerFrame /\ UNCHANGED <<status, notices>>

\* Mutant: the flag survives the timeout.
GivesUpKeepsFlag(l) ==
    /\ Selecting(l)
    /\ IF manual[lconn[l]]
       THEN ListenerReturn(l)
       ELSE ListenerGoto(l, "mark") /\ UNCHANGED sub
    /\ ListenerFrame /\ UNCHANGED <<connected, status, notices>>

\* Ten seconds without a first event, or a live stream that has been idle for
\* five minutes while the tunnel table holds a running tunnel, or an event
\* channel that was closed.
ListenerGivesUp(l) ==
    /\ Selecting(l)
    /\ SetConnected(lconn[l], FALSE)
    /\ IF manual[lconn[l]]
       THEN ListenerReturn(l)
       ELSE ListenerGoto(l, "mark") /\ UNCHANGED sub
    /\ ListenerFrame /\ UNCHANGED <<status, notices>>

ListenerMark(l) ==
    /\ lpc[l] = "mark"
    /\ SetStatus(owner[lconn[l]], "FAIL")
    /\ ListenerReturn(l)
    /\ ListenerFrame /\ UNCHANGED <<connected, notices>>

\* Mutant: a full queue takes one more.
EnqueueUnbounded(e) ==
    notices' = notices \/ notices' = [notices EXCEPT ![e] = @ + 1]

\* The event goes to the queue, or is dropped when the queue is full: the
\* reader must not be blocked.  Only shutdown events come back to this module,
\* so only they are counted, and the others may fill the queue at any time.
Enqueue(e) ==
    \/ notices' = notices
    \/ /\ notices[e] < QueueCap
       /\ notices' = [notices EXCEPT ![e] = @ + 1]

\* The first event sets the flag, then the row.
ListenerFirstEvent(l) ==
    /\ lpc[l] = "waiting" /\ sub[l] = "subscribed"
    /\ ListenerGoto(l, "online")
    /\ SetConnected(lconn[l], TRUE)
    /\ ListenerFrame /\ UNCHANGED <<sub, status, notices>>

ListenerOnline(l) ==
    /\ lpc[l] = "online"
    /\ ListenerGoto(l, "live")
    /\ SetStatus(owner[lconn[l]], "ONLINE")
    /\ Enqueue(owner[lconn[l]])
    /\ ListenerFrame /\ UNCHANGED <<connected, sub>>

\* A later event touches neither flag nor row.
ListenerEvent(l) ==
    /\ lpc[l] = "live" /\ sub[l] = "subscribed"
    /\ Enqueue(owner[lconn[l]])
    /\ ListenerFrame /\ UNCHANGED <<lpc, connected, sub, status>>

-----------------------------------------------------------------------------
(* The subscription goroutine: it returns once, with or without an error,  *)
(* and an error may come long after its context was cancelled.             *)

SubGoto(l, pc) == sub' = [sub EXCEPT ![l] = pc]
SubFrame == UNCHANGED <<mgr, boot, conns, owner, manual, cancel, lconn,
                        ctxLive, lpc, requests, notices, worker, daemon>>

\* Without a listener there is nobody to read the stream.
SubConnected(l) ==
    /\ sub[l] = "trying"
    /\ SubGoto(l, IF lpc[l] = "done" THEN "ended" ELSE "subscribed")
    /\ SubFrame /\ UNCHANGED <<connected, status>>

SubFailed(l) ==
    /\ sub[l] = "trying"
    /\ SetConnected(lconn[l], FALSE)
    /\ IF manual[lconn[l]]
       THEN SubGoto(l, "ended")
       ELSE SubGoto(l, "mark")
    /\ SubFrame /\ UNCHANGED status

SubMark(l) ==
    /\ sub[l] = "mark"
    /\ SubGoto(l, "ended")
    /\ SetStatus(owner[lconn[l]], "FAIL")
    /\ SubFrame /\ UNCHANGED connected

-----------------------------------------------------------------------------
(* The event worker, as far as it comes back to the manager.               *)

WorkerFrame == UNCHANGED <<mgr, boot, conns, owner, manual, cancel, lisVars,
                           requests, daemon>>

\* A shutdown event: first the row.  Any other only touches tunnel tables.
WorkerTake(e) ==
    /\ worker[e] = "idle" /\ notices[e] > 0
    /\ notices' = [notices EXCEPT ![e] = @ - 1]
    /\ SetStatus(e, "OFFLINE")
    /\ worker' = [worker EXCEPT ![e] = "notify"]
    /\ WorkerFrame /\ UNCHANGED connected

\* NotifyEndpointStatusChanged(OFFLINE), under m.mu.
WorkerNotify(e) ==
    /\ worker[e] = "notify"
    /\ worker' = [worker EXCEPT ![e] = "idle"]
    /\ IF conns[e] # NoConn /\ connected[conns[e]]
       THEN SetConnected(conns[e], FALSE)
       ELSE UNCHANGED connected
    /\ WorkerFrame /\ UNCHANGED <<status, notices>>

\* Mutant: the workers wait for the Close that waits for them.
WorkerExitLate(e) ==
    /\ worker[e] = "idle" /\ mgr = "closed"
    /\ worker' = [worker EXCEPT ![e] = "exited"]
    /\ WorkerFrame /\ UNCHANGED <<connected, status, notices>>

\* The worker's select may prefer daemonCtx over waiting events.
WorkerExit(e) ==
    /\ worker[e] = "idle" /\ mgr = "stopping"
    /\ worker' = [worker EXCEPT ![e] = "exited"]
    /\ WorkerFrame /\ UNCHANGED <<connected, status, notices>>

-----------------------------------------------------------------------------
(* Close, and the next process.                                            *)

\* StopDaemon cancels daemonCtx, and every listener's context with it.
CloseBegin ==
    /\ mgr = "running"
    /\ mgr' = "stopping"
    /\ ctxLive' = [l \in Listeners |-> FALSE]
    /\ UNCHANGED <<boot, conns, objVars, lconn, lpc, sub, requests, dbVars,
                   daemon>>

\* Once daemon and workers are gone, the table is emptied under m.mu.
CloseEnd ==
    /\ mgr = "stopping" /\ daemon.pc = "off"
    /\ \A e \in Endpoints : worker[e] = "exited"
    /\ mgr' = "closed"
    /\ manual' = [c \in Conns |->
                    manual[c] \/ \E e \in Endpoints : conns[e] = c]
    /\ conns' = [e \in Endpoints |-> NoConn]
    /\ UNCHANGED <<boot, owner, connected, cancel, lisVars, requests,
                   dbVars, daemon>>

\* The memory of a fresh process.  FAIL and DISCONNECT rows stay alone.
Connectable(rows) ==
    {e \in Endpoints : rows[e] \notin {"absent", "FAIL", "DISCONNECT"}}
Objects(v) == [c \in Conns |-> v]
Activations(v) == [l \in Listeners |-> v]
DaemonOff == [pc |-> "off", todo |-> {}, cur |-> NoConn, ep |-> NoEndpoint]

\* A process starts over whatever rows the one before it has left.
Init ==
    /\ status \in [Endpoints -> Statuses]
    /\ mgr = "booting" /\ boot = Connectable(status)
    /\ conns = [e \in Endpoints |-> NoConn] /\ owner = Objects(NoEndpoint)
    /\ manual = Objects(FALSE) /\ connected = Objects(FALSE)
    /\ cancel = Objects(NoListener)
    /\ lconn = Activations(NoConn) /\ ctxLive = Activations(FALSE)
    /\ lpc = Activations("done")
    /\ sub = Activations("ended") /\ requests = {}
    /\ notices = [e \in Endpoints |-> 0]
    /\ worker = [e \in Endpoints |-> "idle"] /\ daemon = DaemonOff

\* A crash at any moment, or the end of a closed process, and a new start.
Restart ==
    /\ UNCHANGED status
    /\ mgr' = "booting" /\ boot' = Connectable(status)
    /\ conns' = [e \in Endpoints |-> NoConn] /\ owner' = Objects(NoEndpoint)
    /\ manual' = Objects(FALSE) /\ connected' = Objects(FALSE)
    /\ cancel' = Objects(NoListener)
    /\ lconn' = Activations(NoConn) /\ ctxLive' = Activations(FALSE)
    /\ lpc' = Activations("done")
    /\ sub' = Activations("ended") /\ requests' = {}
    /\ notices' = [e \in Endpoints |-> 0]
    /\ worker' = [e \in Endpoints |-> "idle"] /\ daemon' = DaemonOff

DaemonStep ==
    \/ DaemonTick \/ (\E c \in Conns : DaemonReadManual(c))
    \/ DaemonReadConnected \/ DaemonTooRecent \/ DaemonCancel
    \/ DaemonConnect \/ DaemonPassDone \/ DaemonExit

\* What a listener does next once the select has chosen.
ListenerStep(l) ==
    ListenerMark(l) \/ ListenerOnline(l)

SelectStep(l) ==
    \/ ListenerCancelled(l) \/ ListenerGivesUp(l)
    \/ ListenerFirstEvent(l) \/ ListenerEvent(l)

SubStep(l) == SubConnected(l) \/ SubFailed(l) \/ SubMark(l)

ApiStep(e) ==
    \/ ApiCreate(e) \/ ApiReconnect(e) \/ ApiConnect(e)
    \/ ApiDisconnect(e) \/ ApiDelete(e) \/ ApiDeleteRow(e)

WorkerStep(e) == WorkerTake(e) \/ WorkerNotify(e) \/ WorkerExit(e)

Next ==
    \/ \E e \in Endpoints : BootConnect(e) \/ ApiStep(e) \/ WorkerStep(e)
    \/ \E l \in Listeners : SelectStep(l) \/ ListenerStep(l) \/ SubStep(l)
    \/ BootDone \/ DaemonStep \/ CloseBegin \/ CloseEnd \/ Restart

Spec == Init /\ [][Next]_vars

\* The scheduler runs every goroutine that can move; a select does not pass
\* over a done context for ever, neither a listener's nor a worker's; the
\* daemon does not find every attempt of an object too recent, since thirty
\* seconds pass between two of its ticks; and it gets a listener when one is
\* at rest again and again (Listeners bounds the model, not the program).
Fairness ==
    /\ WF_vars(DaemonStep) /\ SF_vars(DaemonCancel) /\ SF_vars(DaemonConnect)
    /\ \A e \in Endpoints : WF_vars(WorkerStep(e))
    /\ \A e \in Endpoints : SF_vars(WorkerExit(e))
    /\ WF_vars(CloseEnd)
    /\ \A l \in Listeners :
          /\ WF_vars(ListenerStep(l)) /\ WF_vars(SubStep(l))
          /\ SF_vars(ListenerCancelled(l))

-----------------------------------------------------------------------------
(* Properties *)

\* Every live context is the one an entry of m.connections can still cancel,
\* so there is at most one per endpoint, and none once Close has begun:
\* whatever connects, disconnects, times out or reconnects, no subscription
\* runs on that nobody can stop.
LiveContextIsCancellable ==
    \A l \in Listeners :
        ctxLive[l] =>
            /\ DaemonCtxLive
            /\ \E e \in Endpoints : conns[e] # NoConn /\ cancel[conns[e]] = l

\* A connection object says connected only while a listener that has seen
\* its stream is still serving that object; otherwise checkAndReconnect
\* would skip a dead connection for ever.
Serves(l, c) == lconn[l] = c /\ lpc[l] \in {"online", "live"}

ConnectedIsServed ==
    \A c \in Conns : connected[c] => \E l \in Listeners : Serves(l, c)

\* An entry of the table whose listener has gone is served again: the daemon
\* (or the user) starts a new listener, unless the entry or the process goes.
Orphan(e) ==
    /\ mgr = "running" /\ conns[e] # NoConn
    /\ \A l \in Listeners : lconn[l] = conns[e] => lpc[l] = "done"

Attended(e) ==
    \/ conns[e] = NoConn \/ mgr # "running"
    \/ \E l \in Listeners : lconn[l] = conns[e] /\ lpc[l] # "done"

OrphanIsReconnected == \A e \in Endpoints : Orphan(e) ~> Attended(e)

\* Close completes: the daemon's pass and the workers' notices, which need
\* m.mu and may still be starting listeners, all come to an end, and every
\* listener whose context it cancelled comes to rest, its subscription too.
CloseCompletes ==
    (mgr = "stopping") ~>
        (mgr = "closed" /\ \A l \in Listeners : AtRest(l))

\* manager.go:342 says of DisconnectEndpoint that the flag it sets prevents
\* automatic reconnection; so the daemon reconnects only what is in the table.
DaemonRespectsDisconnect ==
    [][DaemonConnect => conns[daemon.ep] # NoConn]_vars
=============================================================================
