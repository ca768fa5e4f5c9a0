------------------------------- MODULE WebSseDebug -------------------------------
(***************************************************************************)
(* The page that shows a node's raw event stream                           *)
(* (src/web/src/pages/endpoints/sse-debug/index.tsx) and the hook that     *)
(* keeps the EventSource (lib/hooks/use-nowhere-sse.ts).                   *)
(*                                                                         *)
(* net is the set of the EventSources that are not closed, numbered as     *)
(* they are made, and whether each is open.  A closed one tells nothing    *)
(* more.                                                                   *)
(***************************************************************************)
EXTENDS Naturals

CONSTANTS
    MaxSources,     \* bound on the sources
    MaxLogs         \* lines that are kept

DebugAssumption == MaxSources \in Nat /\ MaxLogs \in Nat

VARIABLES ui, net, srv

vars == <<ui, net, srv>>

Source == [n : 1 .. MaxSources, open : BOOLEAN]
Kinds == {"connected", "error", "event"}

\* listening: the number of the source whose custom events are heard.
Page == [here : BOOLEAN, loading : BOOLEAN, detail : BOOLEAN,
         ref : 0 .. MaxSources, listening : 0 .. MaxSources,
         connected : BOOLEAN, connecting : BOOLEAN,
         error : BOOLEAN, logs : 0 .. MaxLogs]

TypeOK == ui \in Page /\ net \subseteq Source /\ srv \in 0 .. MaxSources

\* srv counts the sources made.
Init ==
    /\ ui = [here |-> TRUE, loading |-> TRUE, detail |-> FALSE, ref |-> 0,
             listening |-> 0, connected |-> FALSE, connecting |-> FALSE,
             error |-> FALSE, logs |-> 0]
    /\ net = {} /\ srv = 0

\* fetchEndpointDetail, once.
DetailReturns ==
    /\ ui.here /\ ui.loading
    /\ \E ok \in BOOLEAN : ui' = [ui EXCEPT !.loading = FALSE, !.detail = ok]
    /\ UNCHANGED <<net, srv>>

-----------------------------------------------------------------------------
(* The hook. *)

\* Mutant: a source is closed by an error only.
NothingClosed(sources) == sources

\* cleanup, on the sources that are not closed: only the one at ref is.
Cleanup(sources) == {s \in sources : s.n # ui.ref}

\* connect, once there is nothing at ref.
Opening(sources) ==
    /\ srv < MaxSources /\ srv' = srv + 1
    /\ net' = sources \cup {[n |-> srv', open |-> FALSE]}
    /\ ui' = [ui EXCEPT !.ref = srv', !.listening = srv', !.connecting = TRUE,
                        !.error = FALSE]

\* The button is shown while nothing is connected; it does nothing when an
\* error that the stream told of has left the source at ref.
ConnectManually ==
    /\ ui.here /\ ui.detail /\ ~ui.connected /\ ~ui.connecting
    /\ ui.ref = 0 /\ Opening(net)

Disconnected(u) == [u EXCEPT !.ref = 0, !.listening = 0, !.connected = FALSE,
                             !.connecting = FALSE, !.error = FALSE]

Disconnect ==
    /\ ui.here /\ (ui.connected \/ ui.connecting)
    /\ ui' = Disconnected(ui) /\ net' = Cleanup(net) /\ UNCHANGED srv

\* Offered beside an error.
Reconnect ==
    /\ ui.here /\ ui.detail /\ ui.error /\ ~ui.connecting
    /\ Opening(Cleanup(net))

Unmount ==
    /\ ui.here
    /\ ui' = [Disconnected(ui) EXCEPT !.here = FALSE] /\ net' = Cleanup(net)
    /\ UNCHANGED srv

-----------------------------------------------------------------------------
(* The source's events. *)

\* onopen
Opens(s) ==
    /\ ~s.open /\ net' = (net \ {s}) \cup {[s EXCEPT !.open = TRUE]}
    /\ ui' = [ui EXCEPT !.connected = TRUE, !.connecting = FALSE,
                        !.error = FALSE]
    /\ UNCHANGED srv

\* Mutant: the log keeps every line.
KeepsAll(logs) == logs + 1

\* onMessage: every message is a line of the log, which keeps the last ones.
Kept(logs) == IF logs = MaxLogs THEN logs ELSE logs + 1

\* processEvent: onMessage first, then what the message says of the stream.
Message(s, kind) ==
    /\ s.open
    /\ ui' = [ui EXCEPT
                 !.logs = Kept(@),
                 !.connected = (@ \/ kind = "connected") /\ kind # "error",
                 !.connecting = @ /\ kind = "event",
                 !.error = (@ \/ kind = "error") /\ kind # "connected"]
    /\ UNCHANGED <<net, srv>>

\* onerror closes what is at ref.
Fails(s) ==
    /\ net' = Cleanup(net)
    /\ ui' = [Disconnected(ui) EXCEPT !.error = TRUE]
    /\ UNCHANGED srv

ClearLogs ==
    /\ ui.here /\ ui.logs > 0 /\ ui' = [ui EXCEPT !.logs = 0]
    /\ UNCHANGED <<net, srv>>

Next ==
    \/ DetailReturns \/ ConnectManually \/ Disconnect \/ Reconnect \/ Unmount
    \/ ClearLogs
    \/ \E s \in net : Opens(s) \/ Fails(s) \/ \E kind \in Kinds : Message(s, kind)

Spec == Init /\ [][Next]_vars

-----------------------------------------------------------------------------
\* However the user connects, disconnects and reconnects, and whatever the
\* stream tells, one source at most is not closed; it is the one whose custom
\* events are heard, and a page that is left has none.
HoldsItsSource ==
    \A s \in net : ui.here /\ s.n = ui.ref /\ s.n = ui.listening
=============================================================================
