------------------------------ MODULE WebMonitors ------------------------------
(***************************************************************************)
(* The live charts of a node and of a tunnel: the hook that keeps their    *)
(* WebSocket (src/web/src/lib/hooks/use-system-monitor-ws.ts and           *)
(* use-tunnel-monitor-ws.ts, alike but for the message) and the rates that *)
(* the charts compute from its readings (components/ui/                    *)
(* system-stats-charts.tsx and tunnel-stats-charts.tsx).                   *)
(*                                                                         *)
(* A reading is one counter.  Sockets are numbered in the order they are   *)
(* made; one that is closed tells so later.  The address of a socket is    *)
(* well formed, so making one does not fail.                               *)
(***************************************************************************)
EXTENDS Naturals

CONSTANTS
    Hosts,          \* the nodes, or tunnels, whose charts are shown
    MaxSockets,     \* bound on the sockets
    MaxBytes,       \* bound on a counter
    MaxPoints,      \* points of a chart
    None            \* nothing: no host to show, no reading yet

MonitorsAssumption ==
    /\ None \notin Hosts /\ None \notin Nat
    /\ MaxSockets \in Nat /\ MaxBytes \in Nat /\ MaxPoints \in Nat

VARIABLES ui, net, srv

vars == <<ui, net, srv>>

Ids == 1 .. MaxSockets
Sockets == [host : Hosts \cup {None},
            state : {"new", "connecting", "open", "closing", "closed"}]
Reading == [of : Ids, bytes : 0 .. MaxBytes \cup {None}]

\* of says which socket a reading came by; the code does not keep it.
Page == [here : BOOLEAN, host : Hosts \cup {None}, attempted : BOOLEAN,
         ref : 0 .. MaxSockets, connected : BOOLEAN, connecting : BOOLEAN,
         latest : Hosts \cup {None}, prev : Reading \cup {None},
         rate : 0 .. MaxBytes, points : 0 .. MaxPoints]

TypeOK ==
    /\ ui \in Page
    /\ net \in [Ids -> Sockets]
    /\ srv \in [Hosts -> 0 .. MaxBytes]

Init ==
    /\ ui = [here |-> TRUE, host |-> None, attempted |-> FALSE, ref |-> 0,
             connected |-> FALSE, connecting |-> FALSE, latest |-> None,
             prev |-> None, rate |-> 0, points |-> 0]
    /\ net = [s \in Ids |-> [host |-> None, state |-> "new"]]
    /\ srv = [h \in Hosts |-> 0]

-----------------------------------------------------------------------------
(* The hook. *)

Live(s) == net[s].state \in {"connecting", "open"}

\* Mutant: the reference is dropped, the socket is not closed.
DisconnectForgets(u, n) ==
    /\ ui' = [u EXCEPT !.ref = 0, !.connected = FALSE, !.connecting = FALSE,
                       !.attempted = FALSE]
    /\ net' = n

\* disconnect.  A socket that was closed by the other side is still ref.
Disconnect(u, n) ==
    /\ ui' = [u EXCEPT !.ref = 0, !.connected = FALSE, !.connecting = FALSE,
                       !.attempted = FALSE]
    /\ net' = [s \in Ids |-> IF s = u.ref /\ Live(s)
                             THEN [n[s] EXCEPT !.state = "closing"] ELSE n[s]]

\* connect; whoever calls it has no socket left.
Connect(h) ==
    \E s \in Ids :
        /\ net[s].state = "new" /\ \A r \in 1 .. s - 1 : net[r].state # "new"
        /\ ui' = [ui EXCEPT !.host = h, !.attempted = TRUE, !.ref = s,
                            !.connecting = TRUE]
        /\ net' = [net EXCEPT ![s] = [host |-> h, state |-> "connecting"]]

\* The charts' host changes: the node's system is known or not yet, the
\* experimental mode is switched, the address names another one.  The effect
\* connects once, and another host does not make it connect again.
Show(h) ==
    /\ ui.here /\ h # ui.host
    /\ \/ h # None /\ ~ui.attempted /\ Connect(h)
       \/ /\ h # None /\ ui.attempted
          /\ ui' = [ui EXCEPT !.host = h] /\ UNCHANGED net
       \/ h = None /\ Disconnect([ui EXCEPT !.host = None], net)
    /\ UNCHANGED srv

Unmount ==
    /\ ui.here /\ Disconnect([ui EXCEPT !.here = FALSE], net) /\ UNCHANGED srv

-----------------------------------------------------------------------------
(* The socket's events.  They are heard whichever socket is ref, and change *)
(* nothing once the page is left.                                          *)

Heard(u) == ui' = IF ui.here THEN u ELSE ui
To(s, state) == net' = [net EXCEPT ![s].state = state]

\* Mutant: the readings of the socket before are kept.
OpensWithOldReadings(s) ==
    /\ net[s].state = "connecting" /\ To(s, "open")
    /\ Heard([ui EXCEPT !.connected = TRUE, !.connecting = FALSE])
    /\ UNCHANGED srv

\* onopen, and the charts' onConnected.
Opens(s) ==
    /\ net[s].state = "connecting" /\ To(s, "open")
    /\ Heard([ui EXCEPT !.connected = TRUE, !.connecting = FALSE,
                        !.prev = None, !.rate = 0, !.points = 0])
    /\ UNCHANGED srv

\* onerror and onclose: the other side closed it, or is done closing.
Closed(s) ==
    /\ Live(s) \/ net[s].state = "closing"
    /\ To(s, "closed")
    /\ Heard([ui EXCEPT !.connected = FALSE, !.connecting = FALSE])
    /\ UNCHANGED srv

-----------------------------------------------------------------------------
(* The charts' onData. *)

Rate(bytes) ==
    IF ui.prev.bytes = None \/ bytes <= ui.prev.bytes
    THEN 0 ELSE bytes - ui.prev.bytes

\* A first reading of nothing is taken for none (data.tcpRx || null).
First(bytes) == IF bytes = 0 THEN None ELSE bytes

\* newer: the reading's timestamp is later than the one before it.
Message(s, newer) ==
    /\ net[s].state = "open"
    /\ LET bytes == srv[net[s].host]
           u == [ui EXCEPT !.latest = net[s].host,
                           !.points = IF @ = MaxPoints THEN @ ELSE @ + 1]
       IN  IF ui.prev # None /\ newer
           THEN Heard([u EXCEPT !.rate = Rate(bytes),
                                !.prev = [of |-> s, bytes |-> bytes]])
           ELSE Heard([u EXCEPT !.prev = [of |-> s, bytes |-> First(bytes)]])
    /\ UNCHANGED <<net, srv>>

\* What the node counts; a restart begins anew.
Counts(h) ==
    /\ \/ srv[h] < MaxBytes /\ srv' = [srv EXCEPT ![h] = @ + 1]
       \/ srv[h] > 0 /\ srv' = [srv EXCEPT ![h] = 0]
    /\ UNCHANGED <<ui, net>>

Next ==
    \/ Unmount
    \/ \E h \in Hosts \cup {None} : Show(h)
    \/ \E h \in Hosts : Counts(h)
    \/ \E s \in Ids : Opens(s) \/ Closed(s)
    \/ \E s \in Ids, newer \in BOOLEAN : Message(s, newer)

Spec == Init /\ [][Next]_vars

-----------------------------------------------------------------------------
\* Of a step: a rate is the difference of two readings of one socket, so of one host:
\* the counters of two hosts, or of two runs of the page's connection, are
\* never subtracted from one another.
RatesOfOneSocket ==
    ui'.rate # ui.rate /\ ui'.rate > 0 => ui'.prev.of = ui.prev.of

\* However the host comes and goes, and whenever the sockets tell that they
\* are closed, no socket but the one the hook holds stays connected, and a
\* page that is left has none.
HoldsItsSocket ==
    /\ \A s \in Ids : Live(s) => ui.here /\ s = ui.ref
    /\ ui.connected => ui.ref # 0 /\ net[ui.ref].state = "open"
=============================================================================
