------------------------- MODULE WebSocketHubProofs -------------------------
(***************************************************************************)
(* For any clients, topics and capacities: TypeOK, that the Hub uses only  *)
(* channels that are open, and that it forgets nobody untold.              *)
(***************************************************************************)
EXTENDS WebSocketHub, TLAPS

In(c, queue) == \E i \in DOMAIN queue : queue[i] = c
Distinct(queue) == \A i, j \in DOMAIN queue : queue[i] = queue[j] => i = j

\* A queue that receives one more element.
LEMMA Appended ==
    ASSUME NEW S, NEW queue \in Seq(S), NEW c \in S
    PROVE  /\ Append(queue, c) \in Seq(S)
           /\ Len(Append(queue, c)) = Len(queue) + 1
           /\ \A d : In(d, Append(queue, c)) <=> In(d, queue) \/ d = c
           /\ Distinct(queue) /\ ~In(c, queue) => Distinct(Append(queue, c))
<1> DEFINE longer == Append(queue, c)
<1>1. longer \in Seq(S) /\ Len(longer) = Len(queue) + 1
  OBVIOUS
<1>2. /\ DOMAIN queue = 1 .. Len(queue)
      /\ DOMAIN longer = 1 .. Len(queue) + 1
      /\ \A i \in 1 .. Len(queue) : longer[i] = queue[i]
      /\ longer[Len(queue) + 1] = c
      /\ Len(queue) \in Nat
  OBVIOUS
<1>3. \A d : In(d, longer) <=> In(d, queue) \/ d = c
  BY <1>2 DEF In
<1>4. Distinct(queue) /\ ~In(c, queue) => Distinct(longer)
  BY <1>2 DEF Distinct, In
<1>5. QED  BY <1>1, <1>3, <1>4

\* A queue that gives up its first element.
LEMMA Taken ==
    ASSUME NEW S, NEW queue \in Seq(S), queue # << >>
    PROVE  /\ Head(queue) \in S
           /\ Tail(queue) \in Seq(S) /\ Len(Tail(queue)) <= Len(queue)
           /\ \A d : In(d, queue) <=> In(d, Tail(queue)) \/ d = Head(queue)
           /\ Distinct(queue) => /\ Distinct(Tail(queue))
                                 /\ ~In(Head(queue), Tail(queue))
<1> DEFINE rest == Tail(queue)
<1>1. /\ Head(queue) \in S /\ rest \in Seq(S) /\ Len(rest) = Len(queue) - 1
      /\ Len(queue) \in Nat /\ Len(queue) >= 1
  OBVIOUS
<1>2. /\ DOMAIN queue = 1 .. Len(queue) /\ DOMAIN rest = 1 .. Len(queue) - 1
      /\ \A i \in 1 .. Len(queue) - 1 : rest[i] = queue[i + 1]
      /\ Head(queue) = queue[1]
  BY <1>1
<1>3. \A d : In(d, queue) <=> In(d, rest) \/ d = Head(queue)
  <2> TAKE d
  <2>1. In(d, rest) => In(d, queue)
    BY <1>1, <1>2 DEF In
  <2>2. d = Head(queue) => In(d, queue)
    BY <1>1, <1>2 DEF In
  <2>3. ASSUME NEW i \in DOMAIN queue, queue[i] = d, d # Head(queue)
        PROVE  In(d, rest)
    <3>1. i - 1 \in DOMAIN rest /\ rest[i - 1] = d
      BY <2>3, <1>1, <1>2
    <3>2. QED  BY <3>1 DEF In
  <2>4. QED  BY <2>1, <2>2, <2>3 DEF In
<1>4. Distinct(queue) => Distinct(rest) /\ ~In(Head(queue), rest)
  BY <1>1, <1>2 DEF Distinct, In
<1>5. QED  BY <1>1, <1>3, <1>4

-----------------------------------------------------------------------------
(* Types *)

\* One client's record is replaced.
LEMMA Updated ==
    ASSUME client \in [Clients -> Client], NEW c \in Clients,
           NEW r \in Client, client' = [client EXCEPT ![c] = r]
    PROVE  client' \in [Clients -> Client]
OBVIOUS

LEMMA ClientTypes ==
    ASSUME TypeOK, NEW c \in Clients, ClientStep(c)
    PROVE  TypeOK'
<1>1. client \in [Clients -> Client]
  BY DEF TypeOK
<1>2. CASE Connect(c)
  <2>1. client' \in [Clients -> Client]
    <3> DEFINE r == [client[c] EXCEPT !.handler = "register", !.connected = TRUE]
    <3>1. r \in Client
      BY <1>1 DEF Client
    <3>2. client' = [client EXCEPT ![c] = r]
      BY <1>1, <1>2 DEF Connect
    <3>3. QED  BY <1>1, <3>1, <3>2, Updated
  <2>2. QED  BY <1>2, <2>1 DEF TypeOK, Connect, Pumps, channels, monitors
<1>3. CASE Register(c)
  <2>1. register' \in Seq(Clients) /\ Len(register') <= QueueCap
    BY <1>3, Appended, HubAssumption DEF TypeOK, Register, Room
  <2>2. client' \in [Clients -> Client]
    <3> DEFINE r == [client[c] EXCEPT !.handler = "ensure"]
    <3>1. r \in Client
      BY <1>1 DEF Client
    <3>2. client' = [client EXCEPT ![c] = r]
      BY <1>1, <1>3 DEF Register
    <3>3. QED  BY <1>1, <3>1, <3>2, Updated
  <2>3. QED  BY <1>3, <2>1, <2>2 DEF TypeOK, Register, Pumps, monitors
<1>4. CASE EnsureMonitor(c)
  <2>1. client' \in [Clients -> Client]
    <3> DEFINE r == [client[c] EXCEPT !.handler = "gone", !.reader = "reading",
                                     !.writer = "running"]
    <3>1. r \in Client
      BY <1>1 DEF Client
    <3>2. client' = [client EXCEPT ![c] = r]
      BY <1>1, <1>4 DEF EnsureMonitor
    <3>3. QED  BY <1>1, <3>1, <3>2, Updated
  <2>2. worker' \subseteq Topics
    BY <1>1, <1>4 DEF TypeOK, EnsureMonitor, Client
  <2>3. QED  BY <1>4, <2>1, <2>2 DEF TypeOK, EnsureMonitor, channels
<1>5. CASE ReadFails(c)
  <2>1. client' \in [Clients -> Client]
    <3> DEFINE r == [client[c] EXCEPT !.reader = "leaving"]
    <3>1. r \in Client
      BY <1>1 DEF Client
    <3>2. client' = [client EXCEPT ![c] = r]
      BY <1>1, <1>5 DEF ReadFails
    <3>3. QED  BY <1>1, <3>1, <3>2, Updated
  <2>2. QED  BY <1>5, <2>1 DEF TypeOK, ReadFails, Pumps, channels, monitors
<1>6. CASE Unregister(c)
  <2>1. unregister' \in Seq(Clients) /\ Len(unregister') <= QueueCap
    BY <1>6, Appended, HubAssumption DEF TypeOK, Unregister, Room
  <2>2. client' \in [Clients -> Client]
    <3> DEFINE r == [client[c] EXCEPT !.reader = "done", !.connected = FALSE]
    <3>1. r \in Client
      BY <1>1 DEF Client
    <3>2. client' = [client EXCEPT ![c] = r]
      BY <1>1, <1>6 DEF Unregister
    <3>3. QED  BY <1>1, <3>1, <3>2, Updated
  <2>3. QED  BY <1>6, <2>1, <2>2 DEF TypeOK, Unregister, Pumps, monitors
<1>7. CASE Write(c)
  <2>1. client' \in [Clients -> Client]
    <3> DEFINE r == [client[c] EXCEPT !.queued = 0]
    <3>1. r \in Client
      BY <1>1, HubAssumption DEF Client
    <3>2. client' = [client EXCEPT ![c] = r]
      BY <1>1, <1>7 DEF Write
    <3>3. QED  BY <1>1, <3>1, <3>2, Updated
  <2>2. QED  BY <1>7, <2>1 DEF TypeOK, Write, Pumps, channels, monitors
<1>8. CASE WriteFails(c) \/ WriteClose(c)
  <2>1. WriterEnds(c)
    BY <1>8 DEF WriteFails, WriteClose
  <2>2. client' \in [Clients -> Client]
    <3> DEFINE r == [client[c] EXCEPT !.writer = "done", !.connected = FALSE]
    <3>1. r \in Client
      BY <1>1 DEF Client
    <3>2. client' = [client EXCEPT ![c] = r]
      BY <1>1, <2>1 DEF WriterEnds
    <3>3. QED  BY <1>1, <3>1, <3>2, Updated
  <2>3. QED  BY <2>1, <2>2 DEF TypeOK, WriterEnds, Pumps, channels, monitors
<1>9. QED
  BY <1>2, <1>3, <1>4, <1>5, <1>6, <1>7, <1>8 DEF ClientStep

LEMMA HubTypes ==
    ASSUME TypeOK, HubStep
    PROVE  TypeOK'
<1> USE DEF TypeOK
<1>1. CASE RegisterClient
  <2>1. /\ Head(register) \in Clients
        /\ register' \in Seq(Clients) /\ Len(register') <= QueueCap
    BY <1>1, Taken, HubAssumption DEF RegisterClient
  <2>2. members' \in [Topics -> SUBSET Clients]
    BY <1>1, <2>1 DEF RegisterClient
  <2>3. QED  BY <1>1, <2>1, <2>2 DEF RegisterClient, monitors
<1>2. CASE UnregisterClient
  <2> DEFINE c == Head(unregister)
  <2>1. /\ c \in Clients
        /\ unregister' \in Seq(Clients) /\ Len(unregister') <= QueueCap
    BY <1>2, Taken, HubAssumption DEF UnregisterClient
  <2>2. members' \in [Topics -> SUBSET Clients]
    BY <1>2, <2>1 DEF UnregisterClient
  <2> DEFINE registered == c \in members[client[c].topic]
             r == [client[c] EXCEPT !.open = @ /\ ~registered]
  <2>3. client \in [Clients -> Client]
    OBVIOUS
  <2>4. r \in Client
    <3>1. client[c] \in Client
      BY <2>1, <2>3
    <3>2. \A b \in BOOLEAN : [client[c] EXCEPT !.open = b] \in Client
      BY <3>1 DEF Client
    <3>3. (client[c].open /\ ~registered) \in BOOLEAN
      OBVIOUS
    <3>4. QED  BY <3>2, <3>3
  <2>5. client' \in [Clients -> Client]
    <3>1. client' = [client EXCEPT ![c] = r]
      BY <1>2, <2>1, <2>3 DEF UnregisterClient
    <3>2. QED  BY <2>1, <2>3, <2>4, <3>1, Updated
  <2>6. QED  BY <1>2, <2>1, <2>2, <2>5 DEF UnregisterClient, monitors
<1>3. CASE BroadcastBegin
  <2>1. /\ Head(broadcast) \in Topics
        /\ broadcast' \in Seq(Topics) /\ Len(broadcast') <= QueueCap
    BY <1>3, Taken, HubAssumption DEF BroadcastBegin
  <2>2. hub' \in [pc : {"select", "serve", "done"}, left : SUBSET Clients]
    BY <1>3, <2>1 DEF BroadcastBegin
  <2>3. QED  BY <1>3, <2>1, <2>2 DEF BroadcastBegin, monitors
<1>4. CASE HubDone
  BY <1>4 DEF HubDone, channels, monitors
<1>5. ASSUME NEW c \in Clients, Deliver(c)
      PROVE  TypeOK'
  <2>1. client' \in [Clients -> Client]
    <3>1. client \in [Clients -> Client]
      OBVIOUS
    <3>2. client[c].queued + 1 \in 0 .. SendCap
      <4>1. client[c].queued \in 0 .. SendCap
        BY <3>1 DEF Client
      <4>2. client[c].queued < SendCap
        BY <1>5 DEF Deliver
      <4>3. QED  BY <4>1, <4>2, HubAssumption
    <3> DEFINE r == [client[c] EXCEPT !.queued = @ + 1]
    <3>3. r \in Client
      <4>1. client[c] \in Client
        BY <3>1
      <4>2. \A n \in 0 .. SendCap : [client[c] EXCEPT !.queued = n] \in Client
        BY <4>1 DEF Client
      <4>3. QED  BY <3>2, <4>2
    <3>4. client' = [client EXCEPT ![c] = r]
      BY <1>5, <3>1 DEF Deliver
    <3>5. QED  BY <3>1, <3>3, <3>4, Updated
  <2>2. hub' \in [pc : {"select", "serve", "done"}, left : SUBSET Clients]
    BY <1>5 DEF Deliver, Served
  <2>3. QED  BY <1>5, <2>1, <2>2 DEF Deliver, channels, monitors
<1>6. ASSUME NEW c \in Clients, Kick(c)
      PROVE  TypeOK'
  <2>1. unregister' \in Seq(Clients) /\ Len(unregister') <= QueueCap
    BY <1>6, Appended, HubAssumption DEF Kick, Room
  <2>2. hub' \in [pc : {"select", "serve", "done"}, left : SUBSET Clients]
    BY <1>6 DEF Kick, Served
  <2>3. QED  BY <1>6, <2>1, <2>2 DEF Kick, monitors
<1>7. QED
  BY <1>1, <1>2, <1>3, <1>4, <1>5, <1>6 DEF HubStep, HubServes

LEMMA ServiceTypes ==
    ASSUME TypeOK,
           CheckerStep \/ Stop \/ StopHub \/ \E t \in Topics : Publish(t)
    PROVE  TypeOK'
<1> USE DEF TypeOK
<1>1. CASE CheckerStep
  BY <1>1 DEF CheckerStep, CheckerLooks, CheckerUpdates, CheckerExits, Elsewhere
<1>2. CASE Stop \/ StopHub
  BY <1>2 DEF Stop, StopHub, channels, monitors
<1>3. ASSUME NEW t \in Topics, Publish(t)
      PROVE  TypeOK'
  <2>1. broadcast' \in Seq(Topics) /\ Len(broadcast') <= QueueCap
    BY <1>3, Appended, HubAssumption DEF Publish, Room
  <2>2. QED  BY <1>3, <2>1 DEF Publish, Elsewhere
<1>4. QED  BY <1>1, <1>2, <1>3

\* Every variable of the Hub, its clients and the monitors keeps its type,
\* and no channel holds more than its capacity.
THEOREM TypeCorrect == Spec => []TypeOK
<1>1. Init => TypeOK
  <2> SUFFICES ASSUME Init PROVE TypeOK
    OBVIOUS
  <2>1. client \in [Clients -> Client]
    <3> DEFINE First == [topic : Topics, connected : {FALSE}, queued : {0},
                         open : {TRUE}, handler : {"new"}, reader : {"none"},
                         writer : {"none"}]
    <3>1. client \in [Clients -> First]
      BY DEF Init
    <3>2. {FALSE} \subseteq BOOLEAN /\ {TRUE} \subseteq BOOLEAN
          /\ {0} \subseteq 0 .. SendCap
      BY HubAssumption
    <3>3. ASSUME NEW r \in First PROVE r \in Client
      BY <3>2 DEF Client
    <3> HIDE DEF First
    <3>4. QED  BY <3>1, <3>3
  <2>2. << >> \in Seq(Clients) /\ << >> \in Seq(Topics) /\ Len(<< >>) <= QueueCap
    BY HubAssumption
  <2>3. QED  BY <2>1, <2>2 DEF Init, TypeOK
<1>2. TypeOK /\ [Next]_vars => TypeOK'
  <2> SUFFICES ASSUME TypeOK, [Next]_vars
               PROVE  TypeOK'
    OBVIOUS
  <2>1. CASE UNCHANGED vars
    BY <2>1 DEF TypeOK, vars, channels, monitors
  <2>2. CASE Next
    BY <2>2, ClientTypes, HubTypes, ServiceTypes DEF Next
  <2>3. QED  BY <2>1, <2>2
<1>3. QED  BY <1>1, <1>2, PTL DEF Spec

-----------------------------------------------------------------------------
(* Channels that are open, and clients that are told. *)

\* What keeps a closed channel out of members.  A client is queued for
\* registration at most once, after its handler made it and before the Hub
\* took it, and its channel is open until the Hub takes it off members.
Queued(c) == In(c, register)
Unborn(c) == client[c].handler \in {"new", "register"}

Order ==
    /\ Distinct(register)
    /\ \A c \in Clients : Unborn(c) =>
          ~Queued(c) /\ (\A t \in Topics : c \notin members[t])
    /\ \A c \in Clients : Unborn(c) \/ Queued(c) => client[c].open
    /\ \A t \in Topics : \A c \in members[t] :
          /\ client[c].topic = t /\ client[c].open
          /\ ~Queued(c)

Told == \A c \in Clients :
    Unborn(c) \/ Queued(c) \/ c \in members[client[c].topic] \/ ~client[c].open

\* What the two depend on, unchanged or as in the step before.
LEMMA Quiet ==
    ASSUME TypeOK, Order, Told, UNCHANGED <<register, members>>,
           \A c \in Clients : /\ client'[c].topic = client[c].topic
                              /\ client'[c].open = client[c].open
                              /\ Unborn(c)' <=> Unborn(c)
    PROVE  Order' /\ Told'
<1>1. Distinct(register)' /\ \A c : Queued(c)' <=> Queued(c)
  BY DEF Order, Distinct, Queued, In
<1>2. \A t \in Topics : members[t] \subseteq Clients
  BY DEF TypeOK
<1>3. Order'
  BY <1>1, <1>2 DEF Order
<1>4. Told'
  BY <1>1 DEF Told
<1>5. QED  BY <1>3, <1>4

LEMMA ClientOrder ==
    ASSUME TypeOK, Order, Told, NEW c \in Clients, ClientStep(c)
    PROVE  Order' /\ Told'
<1>1. client \in [Clients -> Client]
  BY DEF TypeOK
<1>2. CASE Connect(c)
  BY <1>1, <1>2, Quiet DEF Connect, Pumps, channels, Unborn, Client
<1>3. CASE Register(c)
  <2>1. /\ register \in Seq(Clients)
        /\ Unborn(c) /\ ~Queued(c)
    BY <1>3 DEF TypeOK, Register, Unborn, Order
  <2>2. /\ Distinct(register)'
        /\ \A d : Queued(d)' <=> Queued(d) \/ d = c
    BY <1>3, <2>1, Appended DEF Register, Queued, Order
  <2>3. /\ members' = members
        /\ \A d \in Clients : /\ client'[d].topic = client[d].topic
                              /\ client'[d].open = client[d].open
                              /\ Unborn(d)' <=> Unborn(d) /\ d # c
    BY <1>1, <1>3 DEF Register, Pumps, Unborn, Client
  <2>4. \A t \in Topics : members[t] \subseteq Clients /\ c \notin members[t]
    BY <2>1 DEF TypeOK, Order
  <2>5. Order'
    BY <2>1, <2>2, <2>3, <2>4 DEF Order
  <2>6. Told'
    BY <2>1, <2>2, <2>3 DEF Told
  <2>7. QED  BY <2>5, <2>6
<1>4. CASE EnsureMonitor(c)
  BY <1>1, <1>4, Quiet DEF EnsureMonitor, channels, Unborn, Client
<1>5. CASE ReadFails(c) \/ Write(c) \/ WriteFails(c) \/ WriteClose(c)
  BY <1>1, <1>5, Quiet
  DEF ReadFails, Write, WriteFails, WriteClose, WriterEnds, Pumps, channels,
      Unborn, Client
<1>6. CASE Unregister(c)
  BY <1>1, <1>6, Quiet DEF Unregister, Pumps, Unborn, Client
<1>7. QED  BY <1>2, <1>3, <1>4, <1>5, <1>6 DEF ClientStep

LEMMA RegisterOrder ==
    ASSUME TypeOK, Order, Told, RegisterClient
    PROVE  Order' /\ Told'
<1>1. register \in Seq(Clients) /\ register # << >> /\ register' = Tail(register)
  BY DEF TypeOK, RegisterClient
<1> PICK c \in Clients : c = Head(register)
  BY <1>1, Taken
<1>2. /\ Distinct(register)' /\ ~Queued(c)'
      /\ \A d : Queued(d) <=> Queued(d)' \/ d = c
  <2>1. Distinct(register)
    BY DEF Order
  <2>2. /\ Distinct(Tail(register)) /\ ~In(c, Tail(register))
        /\ \A d : In(d, register) <=> In(d, Tail(register)) \/ d = c
    BY <1>1, <2>1, Taken
  <2>3. QED  BY <1>1, <2>2 DEF Queued
<1> PICK u \in Topics : u = client[c].topic
  BY DEF TypeOK, Client
<1>4. /\ client' = client
      /\ \A t \in Topics : members'[t] = IF t = u THEN members[t] \cup {c}
                                         ELSE members[t]
  BY DEF RegisterClient, TypeOK
<1>5. ~Unborn(c) /\ client[c].open /\ \A d \in Clients : Unborn(d)' <=> Unborn(d)
  BY <1>2, <1>4 DEF Order, Unborn
<1>6. \A t \in Topics : members[t] \subseteq Clients
  BY DEF TypeOK
<1>7. Order'
  <2>1. \A d \in Clients : Unborn(d)' =>
           ~Queued(d)' /\ (\A t \in Topics : d \notin members'[t])
    <3> SUFFICES ASSUME NEW d \in Clients, Unborn(d)'
                 PROVE  ~Queued(d)' /\ \A t \in Topics : d \notin members'[t]
      OBVIOUS
    <3>1. Unborn(d) /\ d # c
      BY <1>5
    <3>2. ~Queued(d) /\ \A t \in Topics : d \notin members[t]
      BY <3>1 DEF Order
    <3>3. QED  BY <3>1, <3>2, <1>2, <1>4
  <2>2. \A d \in Clients : Unborn(d)' \/ Queued(d)' => client'[d].open
    BY <1>2, <1>4, <1>5 DEF Order
  <2>3. \A t \in Topics : \A d \in members'[t] :
           client'[d].topic = t /\ client'[d].open /\ ~Queued(d)'
    <3> TAKE t \in Topics
    <3> TAKE d \in members'[t]
    <3>1. CASE d = c /\ t = u
      BY <3>1, <1>2, <1>4, <1>5
    <3>2. CASE d \in members[t]
      BY <3>2, <1>2, <1>4 DEF Order
    <3>3. QED  BY <3>1, <3>2, <1>4
  <2>4. QED  BY <1>2, <2>1, <2>2, <2>3 DEF Order
<1>8. Told'
  <2> SUFFICES ASSUME NEW d \in Clients
               PROVE  Unborn(d)' \/ Queued(d)' \/ d \in members'[client'[d].topic]
                      \/ ~client'[d].open
    BY DEF Told
  <2>1. client[d].topic \in Topics
    BY DEF TypeOK, Client
  <2>2. CASE d = c
    BY <2>2, <1>4
  <2>3. CASE d # c
    BY <2>1, <2>3, <1>2, <1>4, <1>5 DEF Told
  <2>4. QED  BY <2>2, <2>3
<1>9. QED  BY <1>7, <1>8

LEMMA UnregisterOrder ==
    ASSUME TypeOK, Order, Told, UnregisterClient
    PROVE  Order' /\ Told'
<1> DEFINE c == Head(unregister)
           u == client[c].topic
           registered == c \in members[u]
<1>1. c \in Clients
  BY Taken DEF TypeOK, UnregisterClient
<1>2. u \in Topics /\ client \in [Clients -> Client]
  BY <1>1 DEF TypeOK, Client
<1>3. /\ register' = register
      /\ \A t \in Topics : members'[t] = IF t = u THEN members[t] \ {c}
                                         ELSE members[t]
  BY <1>2 DEF UnregisterClient, TypeOK
<1>4. client' = [client EXCEPT ![c].open = client[c].open /\ ~registered]
  BY DEF UnregisterClient
<1>5. /\ \A d \in Clients : /\ client'[d].topic = client[d].topic
                            /\ Unborn(d)' <=> Unborn(d)
                            /\ d # c => client'[d].open = client[d].open
      /\ client'[c].open = (client[c].open /\ ~registered)
  <2> DEFINE r == [client[c] EXCEPT !.open = @ /\ ~registered]
  <2>1. client' = [client EXCEPT ![c] = r]
    BY <1>1, <1>2, <1>4
  <2>2. /\ r.topic = client[c].topic /\ r.handler = client[c].handler
        /\ r.open = (client[c].open /\ ~registered)
    BY <1>1, <1>2 DEF Client
  <2> HIDE DEF r
  <2>3. client'[c] = r /\ \A d \in Clients \ {c} : client'[d] = client[d]
    BY <1>1, <1>2, <2>1
  <2>4. QED  BY <1>1, <2>2, <2>3 DEF Unborn
<1>6. Distinct(register)' /\ \A d : Queued(d)' <=> Queued(d)
  BY <1>3 DEF Order, Distinct, Queued, In
<1>7. /\ registered => ~Unborn(c) /\ ~Queued(c)
      /\ \A t \in Topics : members[t] \subseteq Clients
      /\ \A t \in Topics : c \in members[t] => t = u
  BY <1>1, <1>2 DEF Order, TypeOK
<1> HIDE DEF c, u, registered
<1>8. Order'
  <2>1. \A d \in Clients : Unborn(d)' =>
           ~Queued(d)' /\ (\A t \in Topics : d \notin members'[t])
    <3> SUFFICES ASSUME NEW d \in Clients, Unborn(d)'
                 PROVE  ~Queued(d)' /\ \A t \in Topics : d \notin members'[t]
      OBVIOUS
    <3>1. ~Queued(d) /\ \A t \in Topics : d \notin members[t]
      BY <1>5 DEF Order
    <3>2. QED  BY <3>1, <1>3, <1>6
  <2>2. \A d \in Clients : Unborn(d)' \/ Queued(d)' => client'[d].open
    BY <1>5, <1>6, <1>7 DEF Order
  <2>3. \A t \in Topics : \A d \in members'[t] :
           client'[d].topic = t /\ client'[d].open /\ ~Queued(d)'
    <3> TAKE t \in Topics
    <3> TAKE d \in members'[t]
    <3>1. d \in members[t] /\ d # c /\ d \in Clients
      BY <1>3, <1>7
    <3>2. QED  BY <3>1, <1>5, <1>6 DEF Order
  <2>4. QED  BY <1>6, <2>1, <2>2, <2>3 DEF Order
<1>9. Told'
  <2> SUFFICES ASSUME NEW d \in Clients
               PROVE  Unborn(d)' \/ Queued(d)' \/ d \in members'[client'[d].topic]
                      \/ ~client'[d].open
    BY DEF Told
  <2>1. client[d].topic \in Topics
    BY DEF TypeOK, Client
  <2>2. CASE d = c /\ registered
    BY <2>2, <1>5
  <2>3. CASE d = c /\ ~registered
    BY <2>3, <1>5, <1>6, <1>1 DEF Told, u, registered
  <2>4. CASE d # c
    BY <2>1, <2>4, <1>3, <1>5, <1>6 DEF Told
  <2>5. QED  BY <2>2, <2>3, <2>4
<1>10. QED  BY <1>8, <1>9

LEMMA OtherOrder ==
    ASSUME TypeOK, Order, Told,
           \/ BroadcastBegin \/ HubDone \/ HubServes
           \/ CheckerStep \/ Stop \/ StopHub
           \/ \E t \in Topics : Publish(t)
           \/ UNCHANGED vars
    PROVE  Order' /\ Told'
<1>1. CASE \E c \in Clients : Deliver(c)
  <2>1. PICK c \in Clients : Deliver(c)
    BY <1>1
  <2>2. client \in [Clients -> Client]
    BY DEF TypeOK
  <2>3. \A d \in Clients : /\ client'[d].topic = client[d].topic
                          /\ client'[d].open = client[d].open
                          /\ Unborn(d)' <=> Unborn(d)
    BY <2>1, <2>2 DEF Deliver, Unborn, Client
  <2>4. QED  BY <2>1, <2>3, Quiet DEF Deliver, channels
<1>2. CASE \/ BroadcastBegin \/ HubDone \/ \E c \in Clients : Kick(c)
           \/ CheckerStep \/ Stop \/ StopHub
           \/ \E t \in Topics : Publish(t)
           \/ UNCHANGED vars
  <2>1. UNCHANGED <<register, members, client>>
    BY <1>2 DEF BroadcastBegin, HubDone, Kick, CheckerStep, CheckerLooks,
       CheckerUpdates, CheckerExits, Stop, StopHub, Publish, Elsewhere,
       channels, vars
  <2>2. QED  BY <2>1, Quiet DEF Unborn
<1>3. QED  BY <1>1, <1>2 DEF HubServes

THEOREM OrderHolds == Spec => [](TypeOK /\ Order /\ Told)
<1>1. Init => Order /\ Told
  <2> SUFFICES ASSUME Init PROVE Order /\ Told
    OBVIOUS
  <2>1. \A c \in Clients : client[c].open = TRUE /\ Unborn(c)
    BY DEF Init, Unborn
  <2>2. (\A c : ~Queued(c)) /\ Distinct(register)
    BY DEF Init, Queued, In, Distinct
  <2>3. \A t \in Topics : members[t] = {}
    BY DEF Init
  <2>4. QED  BY <2>1, <2>2, <2>3 DEF Order, Told
<1>2. TypeOK /\ Order /\ Told /\ [Next]_vars => Order' /\ Told'
  BY ClientOrder, RegisterOrder, UnregisterOrder, OtherOrder
  DEF Next, HubStep
<1>3. QED  BY <1>1, <1>2, TypeCorrect, PTL DEF Spec

\* The Hub sends to, and closes, only channels that are open, in whatever
\* order it takes registrations, goodbyes and kicks.
THEOREM NoClosedChannel == Spec => []RegisteredIsOpen
<1>1. Order => RegisteredIsOpen
  BY DEF Order, RegisteredIsOpen
<1>2. QED  BY <1>1, OrderHolds, PTL

\* A client the Hub has forgotten has had its Send closed.
THEOREM ForgottenAreTold == Spec => []ForgottenIsTold
<1>1. Told => ForgottenIsTold
  BY DEF Told, ForgottenIsTold, Known, Unborn, Queued, In
<1>2. QED  BY <1>1, OrderHolds, PTL
=============================================================================
