-------------------------- MODULE SseManagerProofs --------------------------
(***************************************************************************)
(* For any endpoints, objects and listeners: TypeOK, that every live       *)
(* context can be cancelled through m.connections, and that a connection   *)
(* flagged connected is served.                                            *)
(***************************************************************************)
EXTENDS SseManager, TLAPS

\* What the daemon and the table rely on.  The table is injective because an
\* object knows its endpoint, and the daemon only looks at objects that had
\* been given to an endpoint: this makes ConnectEndpoint's argument a real
\* endpoint even when the object has left the table in between.
DaemonOK ==
    /\ daemon.pc \in {"connected", "attempt"} => daemon.cur \in Conns
    /\ daemon.pc = "connect" => daemon.ep \in Endpoints
    /\ \A c \in daemon.todo : owner[c] \in Endpoints
    /\ daemon.cur \in Conns => owner[daemon.cur] \in Endpoints

TableOK ==
    \A e \in Endpoints : conns[e] # NoConn => owner[conns[e]] = e

Inv == TypeOK /\ DaemonOK /\ TableOK


\* What StartListener makes of the object's and the listener's fields.
LEMMA StartTypes ==
    ASSUME Inv, NEW c \in Conns, NEW l \in Listeners,
           NEW contexts \in [Listeners -> BOOLEAN],
           StartListener(c, l, contexts)
    PROVE  /\ ctxLive' \in [Listeners -> BOOLEAN]
           /\ cancel' \in [Conns -> Listeners \cup {NoListener}]
           /\ lconn' \in [Listeners -> Conns \cup {NoConn}]
           /\ lpc' \in [Listeners -> ListenerPCs]
           /\ sub' \in [Listeners -> SubPCs]
           /\ manual' \in [Conns -> BOOLEAN]
           /\ connected' \in [Conns -> BOOLEAN]
<1>1. DaemonCtxLive \in BOOLEAN
  BY DEF DaemonCtxLive
<1>2. ctxLive' \in [Listeners -> BOOLEAN]
  BY <1>1 DEF StartListener
<1>3. /\ cancel' \in [Conns -> Listeners \cup {NoListener}]
      /\ lconn' \in [Listeners -> Conns \cup {NoConn}]
  BY DEF Inv, TypeOK, StartListener
<1>4. lpc' \in [Listeners -> ListenerPCs] /\ sub' \in [Listeners -> SubPCs]
  BY DEF Inv, TypeOK, StartListener, ListenerPCs, SubPCs
<1>5. manual' \in [Conns -> BOOLEAN] /\ connected' \in [Conns -> BOOLEAN]
  BY DEF Inv, TypeOK, StartListener
<1>6. QED  BY <1>2, <1>3, <1>4, <1>5

LEMMA CancelledType ==
    ASSUME Inv, NEW c
    PROVE  Cancelled(c) \in [Listeners -> BOOLEAN]
BY DEF Inv, TypeOK, Cancelled

LEMMA ConnectInv ==
    ASSUME Inv, NEW e \in Endpoints, Connect(e)
    PROVE  /\ conns' \in [Endpoints -> Conns \cup {NoConn}]
           /\ owner' \in [Conns -> Endpoints \cup {NoEndpoint}]
           /\ manual' \in [Conns -> BOOLEAN]
           /\ connected' \in [Conns -> BOOLEAN]
           /\ cancel' \in [Conns -> Listeners \cup {NoListener}]
           /\ lconn' \in [Listeners -> Conns \cup {NoConn}]
           /\ ctxLive' \in [Listeners -> BOOLEAN]
           /\ lpc' \in [Listeners -> ListenerPCs]
           /\ sub' \in [Listeners -> SubPCs]
           /\ TableOK'
           /\ \A c \in Conns : owner[c] \in Endpoints => owner'[c] \in Endpoints
<1>1. PICK c \in Conns, l \in Listeners :
          FreeListener(l, c) /\ (Reconnect(e, c, l) \/ ConnectNew(e, c, l))
  BY DEF Connect
<1>2. CASE Reconnect(e, c, l)
  <2>1. StartListener(c, l, Cancelled(c)) /\ UNCHANGED <<conns, owner>>
    BY <1>2 DEF Reconnect
  <2>2. TableOK'
    BY <2>1 DEF Inv, TableOK
  <2>3. QED
    BY <2>1, <2>2, StartTypes, CancelledType DEF Inv, TypeOK
<1>3. CASE ConnectNew(e, c, l)
  <2>1. /\ conns' = [conns EXCEPT ![e] = c]
        /\ owner' = [owner EXCEPT ![c] = e]
        /\ StartListener(c, l, ctxLive)
    BY <1>3 DEF ConnectNew
  <2>2. \A d \in Endpoints : conns[d] # c
    BY <1>3 DEF ConnectNew, FreeConn
  <2>3. TableOK'
    BY <2>1, <2>2, SseAssumption DEF Inv, TypeOK, TableOK
  <2>4. /\ conns' \in [Endpoints -> Conns \cup {NoConn}]
        /\ owner' \in [Conns -> Endpoints \cup {NoEndpoint}]
        /\ \A d \in Conns : owner[d] \in Endpoints => owner'[d] \in Endpoints
    BY <2>1 DEF Inv, TypeOK
  <2>5. ctxLive \in [Listeners -> BOOLEAN]
    BY DEF Inv, TypeOK
  <2>6. QED
    BY <2>1, <2>3, <2>4, <2>5, StartTypes
<1>4. QED  BY <1>1, <1>2, <1>3

LEMMA InitInv == Init => Inv
<1> SUFFICES ASSUME Init PROVE Inv
  OBVIOUS
<1>1. TypeOK
  BY SseAssumption DEF Init, TypeOK, Connectable, Objects, Activations,
     DaemonOff, ListenerPCs, SubPCs, DaemonPCs, Request, Statuses
<1>2. DaemonOK /\ TableOK
  BY SseAssumption DEF Init, DaemonOK, TableOK, DaemonOff
<1>3. QED  BY <1>1, <1>2 DEF Inv

\* UPDATE endpoints SET status keeps the type of the rows.
LEMMA SetStatusType ==
    ASSUME TypeOK, NEW e, NEW s \in Statuses, SetStatus(e, s)
    PROVE  status' \in [Endpoints -> Statuses]
BY DEF TypeOK, SetStatus, Statuses

\* DisconnectEndpoint only takes entries out of the table.
LEMMA DisconnectInv ==
    ASSUME Inv, NEW e \in Endpoints, Disconnect(e)
    PROVE  /\ conns' \in [Endpoints -> Conns \cup {NoConn}]
           /\ manual' \in [Conns -> BOOLEAN]
           /\ connected' \in [Conns -> BOOLEAN]
           /\ ctxLive' \in [Listeners -> BOOLEAN]
           /\ status' \in [Endpoints -> Statuses]
           /\ UNCHANGED <<owner, cancel, lconn, lpc, sub>>
           /\ TableOK'
<1>1. CASE conns[e] = NoConn
  BY <1>1 DEF Disconnect, Inv, TypeOK, TableOK, objVars, lisVars
<1>2. CASE conns[e] # NoConn
  <2>1. /\ manual' = [manual EXCEPT ![conns[e]] = TRUE]
        /\ connected' = [connected EXCEPT ![conns[e]] = FALSE]
        /\ ctxLive' = Cancelled(conns[e])
        /\ conns' = [conns EXCEPT ![e] = NoConn]
        /\ SetStatus(e, "DISCONNECT")
        /\ UNCHANGED <<owner, cancel, lconn, lpc, sub>>
    BY <1>2 DEF Disconnect
  <2>2. status' \in [Endpoints -> Statuses]
    BY <2>1, SetStatusType DEF Inv, Statuses
  <2>3. ctxLive' \in [Listeners -> BOOLEAN]
    BY <2>1, CancelledType
  <2>4. QED
    BY <2>1, <2>2, <2>3 DEF Inv, TypeOK, TableOK
<1>3. QED  BY <1>1, <1>2

LEMMA BootAndApiInv ==
    ASSUME Inv, NEW e \in Endpoints, BootConnect(e) \/ ApiStep(e)
    PROVE  Inv'
<1>1. CASE BootConnect(e) \/ ApiConnect(e)
  <2>1. /\ Connect(e) /\ boot' \subseteq boot /\ requests' \subseteq requests
        /\ UNCHANGED <<mgr, status, notices, worker, daemon>>
    BY <1>1 DEF BootConnect, ApiConnect, dbVars
  <2>2. TypeOK'
    BY <2>1, ConnectInv DEF Inv, TypeOK
  <2>3. DaemonOK'
    BY <2>1, ConnectInv DEF Inv, TypeOK, DaemonOK
  <2>4. QED  BY <2>1, <2>2, <2>3, ConnectInv DEF Inv
<1>2. CASE ApiCreate(e) \/ ApiReconnect(e) \/ ApiDeleteRow(e)
  <2>1. /\ status' \in [Endpoints -> Statuses] /\ requests' \subseteq Request
        /\ UNCHANGED <<mgr, boot, conns, objVars, lisVars, notices, worker,
                       daemon>>
    BY <1>2 DEF ApiCreate, ApiReconnect, ApiDeleteRow, Inv, TypeOK, dbVars,
       Request, Statuses
  <2>2. QED
    BY <2>1 DEF Inv, TypeOK, DaemonOK, TableOK, objVars, lisVars
<1>3. CASE ApiDisconnect(e) \/ ApiDelete(e)
  <2>1. /\ Disconnect(e) /\ requests' \subseteq Request
        /\ UNCHANGED <<mgr, boot, notices, worker, daemon>>
    BY <1>3 DEF ApiDisconnect, ApiDelete, Inv, TypeOK, Request
  <2>2. TypeOK' /\ TableOK'
    BY <2>1, DisconnectInv DEF Inv, TypeOK
  <2>3. DaemonOK'
    BY <2>1, DisconnectInv DEF Inv, DaemonOK
  <2>4. QED  BY <2>2, <2>3 DEF Inv
<1>4. QED  BY <1>1, <1>2, <1>3 DEF ApiStep

LEMMA DaemonInv ==
    ASSUME Inv, DaemonStep
    PROVE  Inv'
<1>1. CASE DaemonConnect
  <2>1. /\ Connect(daemon.ep) /\ daemon.ep \in Endpoints
        /\ daemon' = [daemon EXCEPT !.pc = "scan", !.cur = NoConn,
                                    !.ep = NoEndpoint]
        /\ UNCHANGED <<mgr, boot, requests, status, notices, worker>>
    BY <1>1 DEF DaemonConnect, NextConn, DaemonFrame, dbVars, Inv, DaemonOK
  <2>2. TypeOK' /\ TableOK'
    BY <2>1, ConnectInv DEF Inv, TypeOK, DaemonPCs
  <2>3. DaemonOK'
    BY <2>1, ConnectInv, SseAssumption DEF Inv, TypeOK, DaemonOK
  <2>4. QED  BY <2>2, <2>3 DEF Inv
<1>2. CASE DaemonCancel
  <2>1. /\ daemon.cur \in Conns /\ owner[daemon.cur] \in Endpoints
        /\ daemon' = [daemon EXCEPT !.pc = "connect", !.cur = NoConn,
                                    !.ep = owner[daemon.cur]]
        /\ ctxLive' = Cancelled(daemon.cur)
        /\ UNCHANGED <<mgr, boot, conns, owner, manual, connected, cancel,
                       lconn, lpc, sub, requests, status, notices, worker>>
    BY <1>2 DEF DaemonCancel, DaemonFrame, dbVars, objVars, Inv, DaemonOK
  <2>2. ctxLive' \in [Listeners -> BOOLEAN]
    BY <2>1, CancelledType
  <2>3. TypeOK' /\ TableOK'
    BY <2>1, <2>2 DEF Inv, TypeOK, TableOK, DaemonPCs
  <2>4. DaemonOK'
    BY <2>1, SseAssumption DEF Inv, TypeOK, DaemonOK
  <2>5. QED  BY <2>3, <2>4 DEF Inv
<1>3. CASE \/ DaemonTick \/ DaemonReadConnected \/ DaemonTooRecent
           \/ DaemonPassDone \/ DaemonExit \/ \E c \in Conns : DaemonReadManual(c)
  <2>1. UNCHANGED <<mgr, boot, conns, objVars, lisVars, requests, dbVars>>
    BY <1>3 DEF DaemonTick, DaemonReadConnected, DaemonTooRecent,
       DaemonPassDone, DaemonExit, DaemonReadManual, DaemonFrame
  <2>2. /\ daemon' \in [pc : DaemonPCs, todo : SUBSET Conns,
                        cur : Conns \cup {NoConn},
                        ep : Endpoints \cup {NoEndpoint}]
        /\ DaemonOK'
    <3>1. CASE DaemonTick
      <4>1. daemon' = [daemon EXCEPT !.pc = "scan",
                  !.todo = {c \in Conns : \E e \in Endpoints : conns[e] = c}]
        BY <3>1 DEF DaemonTick
      <4>2. \A c \in daemon'.todo : owner[c] \in Endpoints
        BY <4>1, SseAssumption DEF Inv, TypeOK, TableOK
      <4>3. daemon'.cur = daemon.cur /\ daemon'.pc = "scan"
        BY <4>1 DEF Inv, TypeOK
      <4>4. DaemonOK'
        BY <2>1, <4>2, <4>3 DEF Inv, DaemonOK, objVars
      <4>5. QED  BY <4>1, <4>4 DEF Inv, TypeOK, DaemonPCs
    <3>2. CASE \E c \in Conns : DaemonReadManual(c)
      <4>1. PICK c \in Conns : DaemonReadManual(c)
        BY <3>2
      <4>2. c \in daemon.todo /\ owner[c] \in Endpoints /\ daemon.pc = "scan"
        BY <4>1 DEF DaemonReadManual, Inv, DaemonOK
      <4>3. CASE daemon' = [daemon EXCEPT !.todo = @ \ {c}]
        BY <2>1, <4>2, <4>3 DEF Inv, TypeOK, DaemonOK, objVars
      <4>4. CASE daemon' = [daemon EXCEPT !.pc = "connected",
                                          !.todo = @ \ {c}, !.cur = c]
        BY <2>1, <4>2, <4>4 DEF Inv, TypeOK, DaemonOK, DaemonPCs, objVars
      <4>5. QED  BY <4>1, <4>3, <4>4 DEF DaemonReadManual
    <3>3. CASE DaemonReadConnected \/ DaemonTooRecent
      <4>1. CASE daemon' = [daemon EXCEPT !.pc = "scan", !.cur = NoConn,
                                          !.ep = NoEndpoint]
        BY <2>1, <4>1, SseAssumption DEF Inv, TypeOK, DaemonOK, DaemonPCs,
           objVars
      <4>2. CASE /\ daemon' = [daemon EXCEPT !.pc = "attempt"]
                 /\ daemon.pc = "connected"
        BY <2>1, <4>2 DEF Inv, TypeOK, DaemonOK, DaemonPCs, objVars
      <4>3. QED
        BY <3>3, <4>1, <4>2 DEF DaemonReadConnected, DaemonTooRecent,
           NextConn, Goto
    <3>4. CASE DaemonPassDone \/ DaemonExit
      <4>1. PICK pc \in {"wait", "off"} : daemon' = [daemon EXCEPT !.pc = pc]
        BY <3>4 DEF DaemonPassDone, DaemonExit, Goto
      <4>2. QED
        BY <2>1, <4>1 DEF Inv, TypeOK, DaemonOK, DaemonPCs, objVars
    <3>5. QED  BY <1>3, <3>1, <3>2, <3>3, <3>4
  <2>3. QED
    BY <2>1, <2>2 DEF Inv, TypeOK, TableOK, objVars, lisVars, dbVars
<1>4. QED  BY <1>1, <1>2, <1>3 DEF DaemonStep

\* A goroutine of an activation, or a worker, touches none of what DaemonOK
\* and TableOK speak of.
LEMMA GoroutineInv ==
    ASSUME Inv, UNCHANGED <<mgr, boot, conns, owner, manual, cancel, lconn,
                            ctxLive, requests, daemon>>,
           connected' \in [Conns -> BOOLEAN],
           lpc' \in [Listeners -> ListenerPCs],
           sub' \in [Listeners -> SubPCs],
           status' \in [Endpoints -> Statuses],
           notices' \in [Endpoints -> 0 .. QueueCap],
           worker' \in [Endpoints -> {"idle", "notify", "exited"}]
    PROVE  Inv'
BY DEF Inv, TypeOK, DaemonOK, TableOK

\* A full queue drops the event, so the queue never exceeds its capacity.
LEMMA EnqueueType ==
    ASSUME TypeOK, NEW e, Enqueue(e)
    PROVE  notices' \in [Endpoints -> 0 .. QueueCap]
<1>1. CASE notices' = notices
  BY <1>1 DEF TypeOK
<1>2. CASE e \in Endpoints /\ notices[e] < QueueCap
           /\ notices' = [notices EXCEPT ![e] = @ + 1]
  <2>1. notices[e] + 1 \in 0 .. QueueCap
    BY <1>2, SseAssumption DEF TypeOK
  <2>2. QED  BY <1>2, <2>1 DEF TypeOK
<1>3. CASE e \notin Endpoints /\ notices' = [notices EXCEPT ![e] = @ + 1]
  BY <1>3 DEF TypeOK
<1>4. QED  BY <1>1, <1>2, <1>3 DEF Enqueue

LEMMA ListenerInv ==
    ASSUME Inv, NEW l \in Listeners, SelectStep(l) \/ ListenerStep(l)
    PROVE  Inv'
<1>1. /\ UNCHANGED <<mgr, boot, conns, owner, manual, cancel, lconn, ctxLive,
                     requests, worker, daemon>>
  BY DEF SelectStep, ListenerStep, ListenerCancelled, ListenerGivesUp,
     ListenerFirstEvent, ListenerEvent, ListenerMark, ListenerOnline,
     ListenerFrame
<1>2. connected' \in [Conns -> BOOLEAN]
  BY DEF SelectStep, ListenerStep, ListenerCancelled, ListenerGivesUp,
     ListenerFirstEvent, ListenerEvent, ListenerMark, ListenerOnline,
     SetConnected, Inv, TypeOK
<1>3. lpc' \in [Listeners -> ListenerPCs] /\ sub' \in [Listeners -> SubPCs]
  BY DEF SelectStep, ListenerStep, ListenerCancelled, ListenerGivesUp,
     ListenerFirstEvent, ListenerEvent, ListenerMark, ListenerOnline,
     ListenerGoto, ListenerReturn, ListenerPCs, SubPCs, Inv, TypeOK
<1>4. status' \in [Endpoints -> Statuses]
  BY SetStatusType DEF SelectStep, ListenerStep, ListenerCancelled,
     ListenerGivesUp, ListenerFirstEvent, ListenerEvent, ListenerMark,
     ListenerOnline, Statuses, Inv, TypeOK
<1>5. notices' \in [Endpoints -> 0 .. QueueCap]
  <2>1. notices' = notices \/ \E e : Enqueue(e)
    BY DEF SelectStep, ListenerStep, ListenerCancelled, ListenerGivesUp,
       ListenerFirstEvent, ListenerEvent, ListenerMark, ListenerOnline
  <2>2. QED  BY <2>1, EnqueueType DEF Inv, TypeOK
<1>6. QED
  BY <1>1, <1>2, <1>3, <1>4, <1>5, GoroutineInv DEF Inv, TypeOK

LEMMA SubInv ==
    ASSUME Inv, NEW l \in Listeners, SubStep(l)
    PROVE  Inv'
<1>1. UNCHANGED <<mgr, boot, conns, owner, manual, cancel, lconn, ctxLive,
                  lpc, requests, notices, worker, daemon>>
  BY DEF SubStep, SubConnected, SubFailed, SubMark, SubFrame
<1>2. connected' \in [Conns -> BOOLEAN] /\ sub' \in [Listeners -> SubPCs]
  BY DEF SubStep, SubConnected, SubFailed, SubMark, SubGoto, SetConnected,
     SubPCs, Inv, TypeOK
<1>3. status' \in [Endpoints -> Statuses]
  BY SetStatusType DEF SubStep, SubConnected, SubFailed, SubMark, Statuses,
     Inv, TypeOK
<1>4. QED
  BY <1>1, <1>2, <1>3, GoroutineInv DEF Inv, TypeOK

LEMMA WorkerInv ==
    ASSUME Inv, NEW e \in Endpoints, WorkerStep(e)
    PROVE  Inv'
<1>1. UNCHANGED <<mgr, boot, conns, owner, manual, cancel, lconn, ctxLive,
                  lpc, sub, requests, daemon>>
  BY DEF WorkerStep, WorkerTake, WorkerNotify, WorkerExit, WorkerFrame, lisVars
<1>2. /\ connected' \in [Conns -> BOOLEAN]
      /\ worker' \in [Endpoints -> {"idle", "notify", "exited"}]
  BY DEF WorkerStep, WorkerTake, WorkerNotify, WorkerExit, SetConnected, Inv,
     TypeOK
<1>3. notices' \in [Endpoints -> 0 .. QueueCap]
  <2>1. CASE WorkerTake(e)
    <3>1. notices[e] - 1 \in 0 .. QueueCap
      BY <2>1, SseAssumption DEF WorkerTake, Inv, TypeOK
    <3>2. notices' = [notices EXCEPT ![e] = notices[e] - 1]
      BY <2>1 DEF WorkerTake
    <3>3. QED  BY <3>1, <3>2 DEF Inv, TypeOK
  <2>2. CASE notices' = notices
    BY <2>2 DEF Inv, TypeOK
  <2>3. QED
    BY <2>1, <2>2 DEF WorkerStep, WorkerNotify, WorkerExit
<1>4. status' \in [Endpoints -> Statuses]
  BY SetStatusType DEF WorkerStep, WorkerTake, WorkerNotify, WorkerExit,
     Statuses, Inv, TypeOK
<1>5. QED
  BY <1>1, <1>2, <1>3, <1>4, GoroutineInv DEF Inv, TypeOK

LEMMA ProcessInv ==
    ASSUME Inv, BootDone \/ CloseBegin \/ CloseEnd \/ Restart
    PROVE  Inv'
<1>1. CASE BootDone
  BY <1>1 DEF BootDone, Inv, TypeOK, DaemonOK, TableOK, DaemonPCs, objVars,
     lisVars, dbVars
<1>2. CASE CloseBegin
  BY <1>2 DEF CloseBegin, Inv, TypeOK, DaemonOK, TableOK, objVars, dbVars
<1>3. CASE CloseEnd
  BY <1>3 DEF CloseEnd, Inv, TypeOK, DaemonOK, TableOK, lisVars, dbVars
<1>4. CASE Restart
  <2>1. TypeOK'
    BY <1>4, SseAssumption DEF Restart, Inv, TypeOK, Connectable, Objects,
       Activations, DaemonOff, ListenerPCs, SubPCs, DaemonPCs, Request
  <2>2. DaemonOK' /\ TableOK'
    BY <1>4, SseAssumption DEF Restart, DaemonOK, TableOK, DaemonOff
  <2>3. QED  BY <2>1, <2>2 DEF Inv
<1>5. QED  BY <1>1, <1>2, <1>3, <1>4

LEMMA NextInv == Inv /\ [Next]_vars => Inv'
<1> SUFFICES ASSUME Inv, [Next]_vars PROVE Inv'
  OBVIOUS
<1>1. CASE Next
  BY <1>1, BootAndApiInv, WorkerInv, ListenerInv, SubInv, DaemonInv,
     ProcessInv DEF Next
<1>2. CASE UNCHANGED vars
  BY <1>2 DEF vars, objVars, lisVars, dbVars, Inv, TypeOK, DaemonOK, TableOK
<1>3. QED  BY <1>1, <1>2

\* The connection table, the objects, the goroutines and the rows keep their
\* types whatever the actors do, and the daemon never connects a non-endpoint.
THEOREM TypeCorrect == Spec => []TypeOK
<1>1. Inv => TypeOK
  BY DEF Inv
<1>2. QED  BY InitInv, NextInv, <1>1, PTL DEF Spec

-----------------------------------------------------------------------------
\* A new listener is the one its object cancels; the one before is cancelled.
LEMMA ConnectCancellable ==
    ASSUME Inv, LiveContextIsCancellable, NEW e \in Endpoints, Connect(e),
           UNCHANGED mgr
    PROVE  LiveContextIsCancellable'
<1>1. PICK c \in Conns, l \in Listeners :
          FreeListener(l, c) /\ (Reconnect(e, c, l) \/ ConnectNew(e, c, l))
  BY DEF Connect
<1>2. cancel' = [cancel EXCEPT ![c] = l]
  BY <1>1 DEF Reconnect, ConnectNew, StartListener
<1>3. conns'[e] = c
  BY <1>1 DEF Reconnect, ConnectNew, Inv, TypeOK
<1>4. DaemonCtxLive' = DaemonCtxLive
  BY DEF DaemonCtxLive
<1> SUFFICES ASSUME NEW k \in Listeners, ctxLive'[k]
             PROVE  /\ DaemonCtxLive'
                    /\ \E d \in Endpoints : conns'[d] # NoConn
                                            /\ cancel'[conns'[d]] = k
  BY DEF LiveContextIsCancellable
<1>5. CASE k = l
  <2>1. ctxLive'[l] = DaemonCtxLive
    BY <1>1, CancelledType DEF Reconnect, ConnectNew, StartListener, Inv, TypeOK
  <2>2. cancel'[conns'[e]] = k /\ conns'[e] # NoConn
    BY <1>2, <1>3, <1>5, SseAssumption DEF Inv, TypeOK
  <2>3. QED  BY <1>4, <1>5, <2>1, <2>2
<1>6. CASE k # l
  <2>1. ctxLive[k] /\ (conns[e] = c => k # cancel[c])
    <3>1. CASE Reconnect(e, c, l)
      BY <1>6, <3>1, CancelledType DEF Reconnect, StartListener, Cancelled
    <3>2. CASE ConnectNew(e, c, l)
      BY <1>6, <3>2, SseAssumption DEF ConnectNew, StartListener, Inv, TypeOK
    <3>3. QED  BY <1>1, <3>1, <3>2
  <2>2. PICK d \in Endpoints : conns[d] # NoConn /\ cancel[conns[d]] = k
    BY <2>1 DEF LiveContextIsCancellable
  <2>3. conns[d] # c /\ conns'[d] = conns[d]
    <3>1. CASE Reconnect(e, c, l)
      BY <2>1, <2>2, <3>1 DEF Reconnect
    <3>2. CASE ConnectNew(e, c, l)
      BY <2>2, <3>2 DEF ConnectNew, FreeConn, Inv, TypeOK
    <3>3. QED  BY <1>1, <3>1, <3>2
  <2>4. cancel'[conns'[d]] = k
    BY <1>2, <2>2, <2>3 DEF Inv, TypeOK
  <2>5. DaemonCtxLive'
    BY <1>4, <2>1 DEF LiveContextIsCancellable
  <2>6. QED  BY <2>2, <2>3, <2>4, <2>5
<1>7. QED  BY <1>5, <1>6

LEMMA DisconnectCancellable ==
    ASSUME Inv, LiveContextIsCancellable, NEW e \in Endpoints, Disconnect(e),
           UNCHANGED mgr
    PROVE  LiveContextIsCancellable'
<1>1. CASE conns[e] = NoConn
  BY <1>1 DEF Disconnect, LiveContextIsCancellable, DaemonCtxLive, objVars,
     lisVars
<1>2. CASE conns[e] # NoConn
  <2>1. /\ ctxLive' = Cancelled(conns[e])
        /\ conns' = [conns EXCEPT ![e] = NoConn]
        /\ cancel' = cancel
    BY <1>2 DEF Disconnect
  <2>2. ASSUME NEW k \in Listeners, ctxLive'[k]
        PROVE  /\ DaemonCtxLive'
               /\ \E d \in Endpoints : conns'[d] # NoConn
                                       /\ cancel'[conns'[d]] = k
    <3>1. ctxLive[k] /\ k # cancel[conns[e]]
      BY <2>1, <2>2 DEF Cancelled
    <3>2. PICK d \in Endpoints : conns[d] # NoConn /\ cancel[conns[d]] = k
      BY <3>1 DEF LiveContextIsCancellable
    <3>3. d # e /\ conns'[d] = conns[d]
      BY <2>1, <3>1, <3>2 DEF Inv, TypeOK
    <3>4. DaemonCtxLive'
      BY <3>1 DEF LiveContextIsCancellable, DaemonCtxLive
    <3>5. QED  BY <2>1, <3>2, <3>3, <3>4
  <2>3. QED  BY <2>2 DEF LiveContextIsCancellable
<1>3. QED  BY <1>1, <1>2

\* A step that leaves the table alone, cancels at most, and does not end the
\* daemon's context.
LEMMA QuietCancellable ==
    ASSUME LiveContextIsCancellable, UNCHANGED <<conns, cancel>>,
           DaemonCtxLive => DaemonCtxLive',
           \A l \in Listeners : ctxLive'[l] => ctxLive[l]
    PROVE  LiveContextIsCancellable'
BY DEF LiveContextIsCancellable

LEMMA NextCancellable ==
    Inv /\ LiveContextIsCancellable /\ [Next]_vars => LiveContextIsCancellable'
<1> SUFFICES ASSUME Inv, LiveContextIsCancellable, [Next]_vars
             PROVE  LiveContextIsCancellable'
  OBVIOUS
<1>1. ASSUME NEW e \in Endpoints, BootConnect(e) \/ ApiConnect(e)
      PROVE  LiveContextIsCancellable'
  <2>1. Connect(e) /\ UNCHANGED mgr
    BY <1>1 DEF BootConnect, ApiConnect
  <2>2. QED  BY <2>1, ConnectCancellable
<1>2. CASE DaemonConnect
  <2>1. Connect(daemon.ep) /\ daemon.ep \in Endpoints /\ UNCHANGED mgr
    BY <1>2 DEF DaemonConnect, DaemonFrame, Inv, DaemonOK
  <2>2. QED  BY <2>1, ConnectCancellable
<1>3. ASSUME NEW e \in Endpoints, ApiDisconnect(e) \/ ApiDelete(e)
      PROVE  LiveContextIsCancellable'
  <2>1. Disconnect(e) /\ UNCHANGED mgr
    BY <1>3 DEF ApiDisconnect, ApiDelete
  <2>2. QED  BY <2>1, DisconnectCancellable
<1>4. CASE DaemonCancel
  <2>1. /\ ctxLive' = Cancelled(daemon.cur)
        /\ UNCHANGED <<mgr, conns, cancel>>
    BY <1>4 DEF DaemonCancel, DaemonFrame, objVars
  <2>2. QED
    BY <2>1, QuietCancellable DEF Cancelled, DaemonCtxLive
<1>5. ASSUME NEW e \in Endpoints,
             \/ ApiCreate(e) \/ ApiReconnect(e) \/ ApiDeleteRow(e)
             \/ WorkerStep(e)
      PROVE  LiveContextIsCancellable'
  <2>1. UNCHANGED <<mgr, conns, cancel, ctxLive>>
    BY <1>5 DEF ApiCreate, ApiReconnect, ApiDeleteRow, WorkerStep, WorkerTake,
       WorkerNotify, WorkerExit, WorkerFrame, objVars, lisVars
  <2>2. QED  BY <2>1, QuietCancellable DEF DaemonCtxLive
<1>6. ASSUME NEW l \in Listeners, SelectStep(l) \/ ListenerStep(l) \/ SubStep(l)
      PROVE  LiveContextIsCancellable'
  <2>1. UNCHANGED <<mgr, conns, cancel, ctxLive>>
    BY <1>6 DEF SelectStep, ListenerStep, ListenerCancelled, ListenerGivesUp,
       ListenerFirstEvent, ListenerEvent, ListenerMark, ListenerOnline,
       ListenerFrame, SubStep, SubConnected, SubFailed, SubMark, SubFrame
  <2>2. QED  BY <2>1, QuietCancellable DEF DaemonCtxLive
<1>7. CASE \/ DaemonTick \/ DaemonReadConnected \/ DaemonTooRecent
           \/ DaemonPassDone \/ DaemonExit \/ \E c \in Conns : DaemonReadManual(c)
  <2>1. UNCHANGED <<mgr, conns, cancel, ctxLive>>
    BY <1>7 DEF DaemonTick, DaemonReadConnected, DaemonTooRecent,
       DaemonPassDone, DaemonExit, DaemonReadManual, DaemonFrame, objVars,
       lisVars
  <2>2. QED  BY <2>1, QuietCancellable DEF DaemonCtxLive
<1>8. CASE BootDone
  BY <1>8, QuietCancellable DEF BootDone, DaemonCtxLive, objVars, lisVars
<1>9. CASE CloseBegin \/ Restart
  BY <1>9 DEF CloseBegin, Restart, Activations, LiveContextIsCancellable
<1>10. CASE CloseEnd
  BY <1>10 DEF CloseEnd, lisVars, LiveContextIsCancellable, DaemonCtxLive
<1>11. CASE UNCHANGED vars
  BY <1>11, QuietCancellable DEF vars, objVars, lisVars, DaemonCtxLive
<1>12. QED
  BY <1>1, <1>2, <1>3, <1>4, <1>5, <1>6, <1>7, <1>8, <1>9, <1>10, <1>11
     DEF Next, ApiStep, DaemonStep

\* However connects, disconnects, daemon passes and restarts interleave, the
\* live contexts are those m.connections can cancel, one per endpoint at most.
THEOREM NoUnstoppableListener == Spec => []LiveContextIsCancellable
<1>1. Init => LiveContextIsCancellable
  BY DEF Init, LiveContextIsCancellable, Activations
<1>2. QED
  BY <1>1, InitInv, NextInv, NextCancellable, PTL DEF Spec

-----------------------------------------------------------------------------
\* Clearing flags and leaving the serving listeners alone.
LEMMA QuietServed ==
    ASSUME ConnectedIsServed, UNCHANGED <<lconn, lpc>>,
           \A c \in Conns : connected'[c] => connected[c]
    PROVE  ConnectedIsServed'
BY DEF ConnectedIsServed, Serves

\* A new listener takes no serving one's place, since it was at rest.
LEMMA ConnectServed ==
    ASSUME Inv, ConnectedIsServed, NEW e \in Endpoints, Connect(e)
    PROVE  ConnectedIsServed'
<1>1. PICK c \in Conns, l \in Listeners :
          FreeListener(l, c) /\ (Reconnect(e, c, l) \/ ConnectNew(e, c, l))
  BY DEF Connect
<1>2. /\ lconn' = [lconn EXCEPT ![l] = c]
      /\ lpc' = [lpc EXCEPT ![l] = "waiting"]
      /\ connected' = [connected EXCEPT ![c] = FALSE]
      /\ lpc[l] = "done"
  BY <1>1 DEF Reconnect, ConnectNew, StartListener, FreeListener, AtRest
<1>3. ASSUME NEW d \in Conns, connected'[d]
      PROVE  \E k \in Listeners : Serves(k, d)'
  <2>1. connected[d]
    BY <1>2, <1>3 DEF Inv, TypeOK
  <2>2. PICK k \in Listeners : Serves(k, d)
    BY <2>1 DEF ConnectedIsServed
  <2>3. k # l
    BY <1>2, <2>2 DEF Serves
  <2>4. Serves(k, d)'
    BY <1>2, <2>2, <2>3 DEF Serves, Inv, TypeOK
  <2>5. QED  BY <2>4
<1>4. QED  BY <1>3 DEF ConnectedIsServed

\* A listener that stops serving has cleared its object's flag in the same
\* step; one that starts serving sets it.
LEMMA ListenerServed ==
    ASSUME Inv, ConnectedIsServed, NEW l \in Listeners,
           SelectStep(l) \/ ListenerStep(l)
    PROVE  ConnectedIsServed'
<1>1. lconn' = lconn
  BY DEF SelectStep, ListenerStep, ListenerCancelled, ListenerGivesUp,
     ListenerFirstEvent, ListenerEvent, ListenerMark, ListenerOnline,
     ListenerFrame
<1>2. CASE ListenerCancelled(l) \/ ListenerGivesUp(l)
  <2>1. /\ connected' = [connected EXCEPT ![lconn[l]] = FALSE]
        /\ \E pc : lpc' = [lpc EXCEPT ![l] = pc]
    BY <1>2 DEF ListenerCancelled, ListenerGivesUp, SetConnected,
       ListenerReturn, ListenerGoto
  <2>2. ASSUME NEW d \in Conns, connected'[d]
        PROVE  \E k \in Listeners : Serves(k, d)'
    <3>1. connected[d] /\ lconn[l] # d
      BY <2>1, <2>2 DEF Inv, TypeOK
    <3>2. PICK k \in Listeners : Serves(k, d)
      BY <3>1 DEF ConnectedIsServed
    <3>3. k # l
      BY <3>1, <3>2 DEF Serves
    <3>4. Serves(k, d)'
      BY <1>1, <2>1, <3>2, <3>3 DEF Serves, Inv, TypeOK
    <3>5. QED  BY <3>4
  <2>3. QED  BY <2>2 DEF ConnectedIsServed
<1>3. CASE ListenerFirstEvent(l) \/ ListenerOnline(l)
  <2>1. PICK pc \in {"online", "live"} : lpc' = [lpc EXCEPT ![l] = pc]
    BY <1>3 DEF ListenerFirstEvent, ListenerOnline, ListenerGoto
  <2>2. \/ connected' = connected
        \/ connected' = [connected EXCEPT ![lconn[l]] = TRUE]
    BY <1>3 DEF ListenerFirstEvent, ListenerOnline, SetConnected
  <2>3. ASSUME NEW d \in Conns, connected'[d]
        PROVE  \E k \in Listeners : Serves(k, d)'
    <3>1. CASE lconn[l] = d
      BY <1>1, <2>1, <3>1 DEF Serves, Inv, TypeOK
    <3>2. CASE lconn[l] # d
      <4>1. connected[d]
        BY <2>2, <2>3, <3>2 DEF Inv, TypeOK
      <4>2. PICK k \in Listeners : Serves(k, d)
        BY <4>1 DEF ConnectedIsServed
      <4>3. Serves(k, d)'
        BY <1>1, <2>1, <3>2, <4>2 DEF Serves, Inv, TypeOK
      <4>4. QED  BY <4>3
    <3>3. QED  BY <3>1, <3>2
  <2>4. QED  BY <2>3 DEF ConnectedIsServed
<1>4. CASE ListenerEvent(l)
  BY <1>4, QuietServed DEF ListenerEvent, ListenerFrame
<1>5. CASE ListenerMark(l)
  <2>1. /\ connected' = connected
        /\ lpc[l] = "mark" /\ lpc' = [lpc EXCEPT ![l] = "done"]
    BY <1>5 DEF ListenerMark, ListenerReturn, ListenerGoto
  <2>2. \A k \in Listeners, d \in Conns : Serves(k, d) => Serves(k, d)'
    BY <1>1, <2>1 DEF Serves, Inv, TypeOK
  <2>3. QED  BY <2>1, <2>2 DEF ConnectedIsServed
<1>6. QED
  BY <1>2, <1>3, <1>4, <1>5 DEF SelectStep, ListenerStep

LEMMA NextServed ==
    Inv /\ ConnectedIsServed /\ [Next]_vars => ConnectedIsServed'
<1> SUFFICES ASSUME Inv, ConnectedIsServed, [Next]_vars
             PROVE  ConnectedIsServed'
  OBVIOUS
<1>1. ASSUME NEW e \in Endpoints, BootConnect(e) \/ ApiConnect(e)
      PROVE  ConnectedIsServed'
  <2>1. Connect(e)
    BY <1>1 DEF BootConnect, ApiConnect
  <2>2. QED  BY <2>1, ConnectServed
<1>2. CASE DaemonConnect
  <2>1. Connect(daemon.ep) /\ daemon.ep \in Endpoints
    BY <1>2 DEF DaemonConnect, Inv, DaemonOK
  <2>2. QED  BY <2>1, ConnectServed
<1>3. ASSUME NEW e \in Endpoints,
             (ApiStep(e) /\ ~ApiConnect(e)) \/ WorkerStep(e)
      PROVE  ConnectedIsServed'
  <2>1. UNCHANGED <<lconn, lpc>>
    BY <1>3 DEF ApiStep, ApiCreate, ApiReconnect, ApiDisconnect, ApiDelete,
       ApiDeleteRow, Disconnect, WorkerStep, WorkerTake, WorkerNotify,
       WorkerExit, WorkerFrame, lisVars
  <2>2. \A c \in Conns : connected'[c] => connected[c]
    BY <1>3 DEF ApiStep, ApiCreate, ApiReconnect, ApiDisconnect, ApiDelete,
       ApiDeleteRow, Disconnect, WorkerStep, WorkerTake, WorkerNotify,
       WorkerExit, WorkerFrame, SetConnected, objVars, Inv, TypeOK
  <2>3. QED  BY <2>1, <2>2, QuietServed
<1>4. ASSUME NEW l \in Listeners, SelectStep(l) \/ ListenerStep(l)
      PROVE  ConnectedIsServed'
  BY <1>4, ListenerServed
<1>5. ASSUME NEW l \in Listeners, SubStep(l)
      PROVE  ConnectedIsServed'
  <2>1. UNCHANGED <<lconn, lpc>>
    BY <1>5 DEF SubStep, SubConnected, SubFailed, SubMark, SubFrame
  <2>2. \A c \in Conns : connected'[c] => connected[c]
    BY <1>5 DEF SubStep, SubConnected, SubFailed, SubMark, SetConnected,
       Inv, TypeOK
  <2>3. QED  BY <2>1, <2>2, QuietServed
<1>6. CASE DaemonStep /\ ~DaemonConnect
  BY <1>6, QuietServed DEF DaemonStep, DaemonTick, DaemonReadConnected,
     DaemonTooRecent, DaemonCancel, DaemonPassDone, DaemonExit,
     DaemonReadManual, objVars, lisVars
<1>7. CASE BootDone \/ CloseBegin \/ CloseEnd \/ UNCHANGED vars
  BY <1>7, QuietServed DEF BootDone, CloseBegin, CloseEnd, vars, objVars,
     lisVars
<1>8. CASE Restart
  BY <1>8 DEF Restart, Objects, ConnectedIsServed
<1>9. QED
  BY <1>1, <1>2, <1>3, <1>4, <1>5, <1>6, <1>7, <1>8 DEF Next

\* No object keeps saying connected once nobody reads its stream, so the
\* daemon's IsConnected check never passes over a dead connection.
THEOREM NoFalseConnected == Spec => []ConnectedIsServed
<1>1. Init => ConnectedIsServed
  BY DEF Init, ConnectedIsServed, Objects
<1>2. QED
  BY <1>1, InitInv, NextInv, NextServed, PTL DEF Spec
=============================================================================
