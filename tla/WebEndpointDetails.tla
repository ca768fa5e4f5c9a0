-------------------------- MODULE WebEndpointDetails --------------------------
(***************************************************************************)
(* The page of one node (src/web/src/pages/endpoints/details/index.tsx)    *)
(* and the handlers it calls (internal/api/endpoint.go).  Its operations   *)
(* are flows of several requests: an edit of the address or the key, and a *)
(* reset of the key, disconnect the node, write, and connect again 1.5 s   *)
(* later.  The server answers a disconnect and a reconnect before it does  *)
(* them, in goroutines.                                                    *)
(*                                                                         *)
(* ui is what the page holds, net the goroutines under way, srv the node as *)
(* the dashboard has it.  A detail is the revision of the row it shows.    *)
(* Toasts and layout are left out; the page's instances, logs and backups  *)
(* are WebEndpointData's part.                                             *)
(***************************************************************************)
EXTENDS Naturals, FiniteSets

CONSTANTS
    Flows,          \* flows the user starts
    MaxRev,         \* bound on the revisions of the node's row
    None            \* nobody has disconnected the node, nothing is shown

DetailsAssumption == None \notin Flows /\ MaxRev \in Nat

VARIABLES ui, net, srv

vars == <<ui, net, srv>>

Modals == {"none", "edit", "key", "delete", "debug"}
Ops == {"connect", "disconnect", "edit", "name", "key"}
Flow == [op : Ops \cup {"none"},
         pc : {"idle", "disconnect", "write", "wait", "connect", "done",
               "failed"}]
Goroutine == [kind : {"off", "on"}, flow : Flows]

Page == [here : BOOLEAN, shown : (0 .. MaxRev) \cup {None},
         status : {"on", "off"}, loading : BOOLEAN, modal : Modals,
         flows : [Flows -> Flow]]

TypeOK ==
    /\ ui \in Page
    /\ net \subseteq Goroutine
    /\ srv \in [rev : 0 .. MaxRev, off : Flows \cup {None}, gone : BOOLEAN]

NoFlow == [op |-> "none", pc |-> "idle"]

\* The effect that runs once fetches the detail.
Init ==
    /\ ui = [here |-> TRUE, shown |-> None, status |-> "off",
             loading |-> TRUE, modal |-> "none",
             flows |-> [f \in Flows |-> NoFlow]]
    /\ net = {}
    /\ srv = [rev |-> 0, off |-> None, gone |-> FALSE]

-----------------------------------------------------------------------------
(* The toolbar. *)

Connected == srv.off = None

\* fetchEndpointDetail, and what it leaves when it fails.
FetchDetail ==
    /\ ui.loading
    /\ \/ /\ ~srv.gone
          /\ ui' = [ui EXCEPT !.loading = FALSE, !.shown = srv.rev,
                       !.status = IF Connected THEN "on" ELSE "off"]
       \/ ui' = [ui EXCEPT !.loading = FALSE]
    /\ UNCHANGED <<net, srv>>

\* The button spins while something is loading.
RefreshEnabled == ui.here /\ ui.modal = "none" /\ ~ui.loading

RefreshAll ==
    /\ RefreshEnabled
    /\ ui' = [ui EXCEPT !.loading = TRUE] /\ UNCHANGED <<net, srv>>

-----------------------------------------------------------------------------
(* Flows. *)

\* The cards of the node wait for its detail; the toolbar is under no modal.
InfoCard == ui.here /\ ui.shown # None
Toolbar == InfoCard /\ ui.modal = "none"

Start(f, op, pc) ==
    ui' = [ui EXCEPT !.flows[f] = [op |-> op, pc |-> pc], !.modal = "none"]

Goes(f, pc) == ui' = [ui EXCEPT !.flows[f].pc = pc]
Ends(f, pc) ==
    ui' = [ui EXCEPT !.flows[f].pc = pc, !.loading = TRUE]

\* handleDisconnect and handleConnect; the toolbar shows the one that fits
\* the status it has.
Disconnect(f) ==
    /\ Toolbar /\ ui.status = "on" /\ ui.flows[f] = NoFlow
    /\ Start(f, "disconnect", "disconnect") /\ UNCHANGED <<net, srv>>

Connect(f) ==
    /\ Toolbar /\ ui.status = "off" /\ ui.flows[f] = NoFlow
    /\ Start(f, "connect", "connect") /\ UNCHANGED <<net, srv>>

\* The modals, which cover the toolbar.
EditModal == ui.here /\ ui.modal = "edit"
KeyModal == ui.here /\ ui.modal = "key"
DeleteModal == ui.here /\ ui.modal = "delete"

OpenEdit ==
    /\ Toolbar
    /\ ui' = [ui EXCEPT !.modal = "edit"]
    /\ UNCHANGED <<net, srv>>

\* An edit of neither address nor key is written and that is all.
SubmitEdit(f) ==
    /\ EditModal /\ ui.flows[f] = NoFlow
    /\ Start(f, "edit", "disconnect") \/ Start(f, "name", "write")
    /\ UNCHANGED <<net, srv>>

ResetApiKey(f) ==
    /\ KeyModal /\ ui.flows[f] = NoFlow
    /\ ui' = [ui EXCEPT !.flows[f] = [op |-> "key", pc |-> "disconnect"]]
    /\ UNCHANGED <<net, srv>>

Go(kind, f) == net' = net \cup {[kind |-> kind, flow |-> f]}

\* PATCH disconnect.  An error is a toast, and the flow goes on.
Disconnecting(f) ==
    /\ ui.flows[f].pc = "disconnect"
    /\ \/ Go("off", f)
       \/ UNCHANGED net
    /\ \/ ui.flows[f].op # "disconnect" /\ Goes(f, "write")
       \/ ui.flows[f].op = "disconnect" /\ Ends(f, "done")
    /\ UNCHANGED srv

\* PATCH updateConfig connects with the new values before it answers; a new
\* key does not.  The key's modal closes with its flow.
Write(f) ==
    /\ ui.flows[f].pc = "write"
    /\ \/ Goes(f, "failed") /\ UNCHANGED srv
       \/ /\ ~srv.gone /\ srv.rev < MaxRev
          /\ srv' = [srv EXCEPT !.rev = @ + 1,
                        !.off = IF ui.flows[f].op = "key" THEN @ ELSE None]
          /\ ui' = [ui EXCEPT !.flows[f].pc =
                           IF ui.flows[f].op = "name" THEN "done" ELSE "wait",
                       !.loading = TRUE,
                       !.modal = IF @ = "key" THEN "none" ELSE @]
    /\ UNCHANGED net

\* Mutant: the write has connected the node, no need to do it again.
WaitForNothing(f) ==
    /\ ui.flows[f].pc = "wait"
    /\ Goes(f, IF ui.flows[f].op = "edit" THEN "done" ELSE "connect")
    /\ UNCHANGED <<net, srv>>

\* setTimeout(handleConnect, 1500), for which the goroutine of the flow's own
\* disconnect is never too slow.
Wait(f) ==
    /\ ui.flows[f].pc = "wait"
    /\ [kind |-> "off", flow |-> f] \notin net
    /\ Goes(f, "connect")
    /\ UNCHANGED <<net, srv>>

\* PATCH reconnect tries the node before it answers.
Connecting(f) ==
    /\ ui.flows[f].pc = "connect"
    /\ \/ Goes(f, "failed") /\ UNCHANGED net
       \/ ~srv.gone /\ Go("on", f) /\ Ends(f, "done")
    /\ UNCHANGED srv

\* A goroutine of the server: DisconnectEndpoint, or ConnectEndpoint, which
\* forgets that the node was disconnected by hand.
Run(g) ==
    /\ net' = net \ {g}
    /\ srv' = [srv EXCEPT !.off =
                  IF g.kind = "off" THEN g.flow ELSE None]
    /\ UNCHANGED ui

-----------------------------------------------------------------------------
(* Modals. *)

OpenModal ==
    /\ Toolbar
    /\ \E m \in {"key", "delete", "debug"} :
          /\ m = "debug" => ui.status = "on"
          /\ ui' = [ui EXCEPT !.modal = m]
    /\ UNCHANGED <<net, srv>>

\* A request of the modal's goes on without it.
CloseModal ==
    /\ ui.modal # "none"
    /\ ui' = [ui EXCEPT !.modal = "none"] /\ UNCHANGED <<net, srv>>

\* HandleDeleteEndpoint disconnects first, and the page leaves.
DeleteEndpoint ==
    /\ DeleteModal /\ ~srv.gone
    /\ srv' = [srv EXCEPT !.gone = TRUE]
    /\ ui' = [ui EXCEPT !.modal = "none", !.here = FALSE]
    /\ UNCHANGED net

\* Leaving unmounts the page; its flows and timers go on.
Leave ==
    /\ ui.here
    /\ ui' = [ui EXCEPT !.here = FALSE, !.modal = "none"]
    /\ UNCHANGED <<net, srv>>

Next ==
    \/ FetchDetail \/ RefreshAll
    \/ OpenEdit \/ OpenModal \/ CloseModal \/ DeleteEndpoint \/ Leave
    \/ \E f \in Flows :
          \/ Disconnect(f) \/ Connect(f) \/ SubmitEdit(f) \/ ResetApiKey(f)
          \/ Disconnecting(f) \/ Write(f) \/ Wait(f) \/ Connecting(f)
    \/ \E g \in net : Run(g)

Spec == Init /\ [][Next]_vars

-----------------------------------------------------------------------------
\* The server disconnects in its own time, perhaps after the write has
\* connected the node anew: an edit or a new key that has come to its end
\* does not leave the node cut off by its own disconnect, whatever other
\* flows do meanwhile.
EditReconnects ==
    \A f \in Flows :
        /\ ui.flows[f].op \in {"edit", "key"} /\ ui.flows[f].pc = "done"
        /\ [kind |-> "on", flow |-> f] \notin net
        => srv.off # f
=============================================================================
