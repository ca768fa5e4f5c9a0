---------------------------- MODULE WebSocketHub ----------------------------
(***************************************************************************)
(* Live views of endpoints and instances (internal/websocket): the Hub's   *)
(* loop and its four channels, the two pumps of every client, the monitor  *)
(* workers that query an endpoint or instance while somebody watches it,   *)
(* and the checker that starts and stops them every five seconds.          *)
(*                                                                         *)
(* System clients and tunnel clients run through the same code with maps   *)
(* of their own; a topic stands for an endpoint id or an instance id.  A   *)
(* message is a slot of a client's Send channel.  The capacities, 256 in   *)
(* the code, are parameters.  A Client object is used for one connection.  *)
(***************************************************************************)
EXTENDS Naturals, Sequences

CONSTANTS
    Topics, Clients,
    SendCap,        \* cap(client.Send)
    QueueCap        \* capacity of register, unregister and the broadcasts

ASSUME HubAssumption == SendCap \in Nat \ {0} /\ QueueCap \in Nat \ {0}

VARIABLES
    hub,            \* Run: its control point, the clients of the broadcast
                    \* it is at that are still to be served
    register,       \* h.register
    unregister,     \* h.unregister
    broadcast,      \* h.systemBroadcast, h.tunnelBroadcast
    members,        \* h.systemClients, h.tunnelClients
    client,         \* every client: topic, whether its connection is open,
                    \* its Send channel, its handler and its two pumps
    worker,         \* the topics with an entry in the workers' maps
    checker,        \* the checker: control point, what the Hub told it
    service         \* "running", "stopping" (before Hub.Stop), "stopped"

channels == <<register, unregister, broadcast>>
monitors == <<worker, checker>>
vars == <<hub, channels, members, client, monitors, service>>

Client ==
    [topic : Topics, connected : BOOLEAN, queued : 0 .. SendCap,
     open : BOOLEAN, handler : {"new", "register", "ensure", "gone"},
     reader : {"none", "reading", "leaving", "done"},
     writer : {"none", "running", "done"}]

TypeOK ==
    /\ hub \in [pc : {"select", "serve", "done"}, left : SUBSET Clients]
    /\ \A queue \in {register, unregister} :
          queue \in Seq(Clients) /\ Len(queue) <= QueueCap
    /\ broadcast \in Seq(Topics) /\ Len(broadcast) <= QueueCap
    /\ members \in [Topics -> SUBSET Clients]
    /\ client \in [Clients -> Client]
    /\ worker \subseteq Topics
    /\ checker \in [pc : {"wait", "seen", "done"}, connected : SUBSET Topics]
    /\ service \in {"running", "stopping", "stopped"}

Init ==
    /\ hub = [pc |-> "select", left |-> {}]
    /\ register = << >> /\ unregister = << >> /\ broadcast = << >>
    /\ members = [t \in Topics |-> {}]
    /\ client \in [Clients ->
          [topic : Topics, connected : {FALSE}, queued : {0}, open : {TRUE},
           handler : {"new"}, reader : {"none"}, writer : {"none"}]]
    /\ worker = {}
    /\ checker = [pc |-> "wait", connected |-> {}]
    /\ service = "running"

Room(queue) == Len(queue) < QueueCap

-----------------------------------------------------------------------------
(* A connection: HandleWebSocketConnection and the pumps it starts. *)

Pumps == UNCHANGED <<hub, members, monitors, service>>

Connect(c) ==
    /\ client[c].handler = "new"
    /\ client' = [client EXCEPT ![c].handler = "register",
                                ![c].connected = TRUE]
    /\ Pumps /\ UNCHANGED channels

\* s.hub.register <- client
Register(c) ==
    /\ client[c].handler = "register" /\ Room(register)
    /\ register' = Append(register, c)
    /\ client' = [client EXCEPT ![c].handler = "ensure"]
    /\ Pumps /\ UNCHANGED <<unregister, broadcast>>

\* ensureEndpointMonitor under s.mutex, then the pumps.
EnsureMonitor(c) ==
    /\ client[c].handler = "ensure"
    /\ worker' = worker \cup {client[c].topic}
    /\ client' = [client EXCEPT ![c].handler = "gone",
                                ![c].reader = "reading",
                                ![c].writer = "running"]
    /\ UNCHANGED <<hub, channels, members, checker, service>>

\* The peer goes away, misses its pong, or the connection was closed here.
ReadFails(c) ==
    /\ client[c].reader = "reading"
    /\ client' = [client EXCEPT ![c].reader = "leaving"]
    /\ Pumps /\ UNCHANGED channels

\* ReadPump's deferred call: it waits for room, then closes the connection.
Unregister(c) ==
    /\ client[c].reader = "leaving" /\ Room(unregister)
    /\ unregister' = Append(unregister, c)
    /\ client' = [client EXCEPT ![c].reader = "done", ![c].connected = FALSE]
    /\ Pumps /\ UNCHANGED <<register, broadcast>>

\* WritePump sends all that is queued in one frame.
Write(c) ==
    /\ client[c].writer = "running" /\ client[c].queued > 0
    /\ client[c].connected
    /\ client' = [client EXCEPT ![c].queued = 0]
    /\ Pumps /\ UNCHANGED channels

WriterEnds(c) ==
    /\ client' = [client EXCEPT ![c].writer = "done", ![c].connected = FALSE]
    /\ Pumps /\ UNCHANGED channels

\* A write or a ping fails; what was taken from Send is lost.
WriteFails(c) == client[c].writer = "running" /\ WriterEnds(c)

\* The Hub has closed Send, and it is empty.
WriteClose(c) ==
    /\ client[c].writer = "running"
    /\ ~client[c].open /\ client[c].queued = 0
    /\ WriterEnds(c)

-----------------------------------------------------------------------------
(* The Hub: one goroutine, the only one to change members. *)

Selecting == hub.pc = "select"

RegisterClient ==
    /\ Selecting /\ register # << >>
    /\ LET c == Head(register) IN
          members' = [members EXCEPT ![client[c].topic] = @ \cup {c}]
    /\ register' = Tail(register)
    /\ UNCHANGED <<hub, unregister, broadcast, client, monitors, service>>

\* Mutant: Send is closed whether the client is registered or not.
UnregisterUnchecked ==
    /\ Selecting /\ unregister # << >>
    /\ LET c == Head(unregister) IN
       /\ members' = [members EXCEPT ![client[c].topic] = @ \ {c}]
       /\ client' = [client EXCEPT ![c].open = FALSE]
    /\ unregister' = Tail(unregister)
    /\ UNCHANGED <<hub, register, broadcast, monitors, service>>

\* Mutant: the client is forgotten and its channel stays open.
UnregisterKeepsOpen ==
    /\ Selecting /\ unregister # << >>
    /\ LET c == Head(unregister) IN
          members' = [members EXCEPT ![client[c].topic] = @ \ {c}]
    /\ unregister' = Tail(unregister)
    /\ UNCHANGED <<hub, register, broadcast, client, monitors, service>>

\* A client that is not registered, or not yet, is left as it is.
UnregisterClient ==
    /\ Selecting /\ unregister # << >>
    /\ LET c == Head(unregister)
           registered == c \in members[client[c].topic]
       IN
       /\ members' = [members EXCEPT ![client[c].topic] = @ \ {c}]
       /\ client' = [client EXCEPT ![c].open = @ /\ ~registered]
    /\ unregister' = Tail(unregister)
    /\ UNCHANGED <<hub, register, broadcast, monitors, service>>

BroadcastBegin ==
    /\ Selecting /\ broadcast # << >>
    /\ LET todo == members[Head(broadcast)] IN
          hub' = [pc |-> IF todo = {} THEN "select" ELSE "serve",
                  left |-> todo]
    /\ broadcast' = Tail(broadcast)
    /\ UNCHANGED <<register, unregister, members, client, monitors, service>>

Served(c) ==
    LET left == hub.left \ {c} IN
    hub' = [pc |-> IF left = {} THEN "select" ELSE "serve", left |-> left]

Deliver(c) ==
    /\ hub.pc = "serve" /\ c \in hub.left
    /\ client[c].queued < SendCap
    /\ client' = [client EXCEPT ![c].queued = @ + 1]
    /\ Served(c)
    /\ UNCHANGED <<channels, members, monitors, service>>

\* Mutant: a message that finds no room is dropped, and so is the matter.
KickNobody(c) ==
    /\ hub.pc = "serve" /\ c \in hub.left
    /\ client[c].queued = SendCap
    /\ Served(c)
    /\ UNCHANGED <<channels, members, client, monitors, service>>

\* Send is full: the loop sends to the channel that only the loop empties.
Kick(c) ==
    /\ hub.pc = "serve" /\ c \in hub.left
    /\ client[c].queued = SendCap /\ Room(unregister)
    /\ unregister' = Append(unregister, c)
    /\ Served(c)
    /\ UNCHANGED <<register, broadcast, members, client, monitors, service>>

HubDone ==
    /\ Selecting /\ service = "stopped"
    /\ hub' = [hub EXCEPT !.pc = "done"]
    /\ UNCHANGED <<channels, members, client, monitors, service>>

-----------------------------------------------------------------------------
(* The service: monitor workers, checker, Stop. *)

Elsewhere == UNCHANGED <<hub, register, unregister, members, client, service>>

\* Mutant: the message is queued whether there is room or not.
PublishAnyway(t) ==
    /\ t \in worker
    /\ broadcast' = Append(broadcast, t)
    /\ Elsewhere /\ UNCHANGED <<worker, checker>>

\* A worker has an answer; a full queue drops it.  What a
\* cancelled worker still had to say is left out.
Publish(t) ==
    /\ t \in worker
    /\ broadcast' = IF Room(broadcast) THEN Append(broadcast, t) ELSE broadcast
    /\ Elsewhere /\ UNCHANGED <<worker, checker>>

CheckerLooks ==
    /\ checker.pc = "wait" /\ service = "running"
    /\ checker' = [pc |-> "seen",
                   connected |-> {t \in Topics : members[t] # {}}]
    /\ Elsewhere /\ UNCHANGED <<broadcast, worker>>

\* Mutant: workers are only stopped here, and started by connections.
CheckerOnlyStops ==
    /\ checker.pc = "seen"
    /\ worker' = worker \cap checker.connected
    /\ checker' = [pc |-> "wait", connected |-> {}]
    /\ Elsewhere /\ UNCHANGED broadcast

\* Mutant: workers are never stopped.
CheckerOnlyStarts ==
    /\ checker.pc = "seen"
    /\ worker' = worker \cup checker.connected
    /\ checker' = [pc |-> "wait", connected |-> {}]
    /\ Elsewhere /\ UNCHANGED broadcast

\* The two maps are locked after the Hub was asked, which may have moved on.
CheckerUpdates ==
    /\ checker.pc = "seen"
    /\ worker' = checker.connected
    /\ checker' = [pc |-> "wait", connected |-> {}]
    /\ Elsewhere /\ UNCHANGED broadcast

CheckerExits ==
    /\ checker.pc = "wait" /\ service # "running"
    /\ checker' = [checker EXCEPT !.pc = "done"]
    /\ Elsewhere /\ UNCHANGED <<broadcast, worker>>

\* Stop cancels every worker, then closes the Hub's done channel.
Stop ==
    /\ service = "running" /\ service' = "stopping"
    /\ worker' = {}
    /\ UNCHANGED <<hub, channels, members, client, checker>>

StopHub ==
    /\ service = "stopping" /\ service' = "stopped"
    /\ UNCHANGED <<hub, channels, members, client, monitors>>

-----------------------------------------------------------------------------

HubServes == \E c \in Clients : Deliver(c) \/ Kick(c)

HubStep ==
    \/ RegisterClient \/ UnregisterClient \/ BroadcastBegin \/ HubDone
    \/ HubServes

ClientStep(c) ==
    \/ Connect(c) \/ Register(c) \/ EnsureMonitor(c)
    \/ ReadFails(c) \/ Unregister(c)
    \/ Write(c) \/ WriteFails(c) \/ WriteClose(c)

CheckerStep == CheckerLooks \/ CheckerUpdates \/ CheckerExits

Next ==
    \/ \E c \in Clients : ClientStep(c)
    \/ \E t \in Topics : Publish(t)
    \/ HubStep \/ CheckerStep \/ Stop \/ StopHub

Spec == Init /\ [][Next]_vars

\* Go's select is fair among the ready cases, and tickers fire.  Nothing is
\* asked of the peers, nor of the pumps.
Fairness ==
    /\ SF_vars(RegisterClient) /\ SF_vars(UnregisterClient)
    /\ SF_vars(BroadcastBegin) /\ WF_vars(HubServes)
    /\ WF_vars(CheckerStep)
    /\ \A t \in Topics : WF_vars(Publish(t))

FairSpec == Spec /\ Fairness

-----------------------------------------------------------------------------
(* Properties *)

\* The Hub sends to, and closes, only channels that are open, in whatever
\* order it sees a client's registration, its goodbye and its being kicked;
\* anything else would panic and end the process.
RegisteredIsOpen ==
    \A t \in Topics : \A c \in members[t] : client[c].open

\* A client the Hub has forgotten has been told: its Send is closed, so its
\* WritePump does not wait for ever.
Known(c) ==
    \/ client[c].handler \in {"new", "register"}
    \/ \E i \in DOMAIN register : register[i] = c
    \/ c \in members[client[c].topic]

ForgottenIsTold == \A c \in Clients : Known(c) \/ ~client[c].open

\* The loop waits for itself: nobody else takes from unregister.
Stuck ==
    /\ hub.pc = "serve" /\ ~Room(unregister)
    /\ \E c \in hub.left : client[c].queued = SendCap

\* A closed connection leaves the Hub, also when its goodbye overtook its
\* registration: the monitor worker goes on for it, its Send fills up, and it
\* is kicked; unless the service stops or the loop waits for itself.
Dead(c) == client[c].reader = "done"

DeadIsForgotten ==
    \A c \in Clients :
        Dead(c) ~> \/ service # "running" \/ Stuck
                   \/ ~\E t \in Topics : c \in members[t]

\* Somebody watches: the topic is monitored, although a checker that looked
\* earlier may have stopped the worker a new connection relied on.  Nobody
\* watches, and no connection is about to: the queries end.
Idle(t) == members[t] = {} /\ \A c \in Clients : client[c].handler # "ensure"

WorkerFollowsWatchers ==
    \A t \in Topics :
        /\ members[t] # {} ~> \/ t \in worker \/ members[t] = {}
                              \/ service # "running"
        /\ Idle(t) ~> t \notin worker \/ ~Idle(t) \/ service # "running"
=============================================================================
