-------------------------------- MODULE WebNodes --------------------------------
(***************************************************************************)
(* The list of nodes (src/web/src/pages/endpoints/index.tsx): connecting,  *)
(* disconnecting, renaming and deleting a node, and editing its key or its *)
(* address, which disconnects it, writes, and reconnects it a second or so *)
(* later - by a timer of the page's that leaving the page clears.          *)
(*                                                                         *)
(* ui is what the page holds (sel is the node of the modals), net the      *)
(* lists on their way and the goroutines the server has answered before,   *)
(* srv the nodes.  The switch between cards and table is left out: what    *)
(* either of them offers, a node offers.                                   *)
(***************************************************************************)
EXTENDS Naturals, FiniteSets

CONSTANTS
    Nodes,          \* rows of the list
    Flows,          \* edits of a key or an address
    None, User      \* who disconnected a node: nobody, the user

NodesAssumption ==
    /\ IsFiniteSet(Nodes) /\ {None, User} \cap (Nodes \cup Flows) = {}
    /\ None # User

VARIABLES ui, net, srv

vars == <<ui, net, srv>>

Modals == {"none", "rename", "key", "config", "delete", "portal", "copy"}

Flow == [node : Nodes \cup {None},
         pc : {"idle", "disconnect", "write", "rewrite", "wait", "connect",
               "done", "failed", "cut"}]

Page == [here : BOOLEAN, loading : BOOLEAN, shown : SUBSET Nodes,
         modal : Modals, sel : Nodes \cup {None}, flows : [Flows -> Flow]]

TypeOK ==
    /\ ui \in Page
    /\ net \in [lists : SUBSET SUBSET Nodes, goroutines :
                                         SUBSET ({"off", "on"} \X Flows)]
    /\ srv \in [nodes : SUBSET Nodes, off : [Nodes -> Flows \cup {None, User}]]

\* The effect that runs once fetches the list.
Init ==
    /\ ui = [here |-> TRUE, loading |-> TRUE, shown |-> {}, modal |-> "none",
             sel |-> None, flows |-> [f \in Flows |->
                                          [node |-> None, pc |-> "idle"]]]
    /\ net = [lists |-> {Nodes}, goroutines |-> {}]
    /\ srv = [nodes |-> Nodes, off |-> [n \in Nodes |-> None]]

-----------------------------------------------------------------------------
(* The list. *)

Fetching == [net EXCEPT !.lists = @ \cup {srv.nodes}]

\* The button in the page's header, and the timer of 30 s.
Fetch ==
    /\ ui.here
    /\ \/ ui.modal = "none" /\ ui' = [ui EXCEPT !.loading = TRUE]
       \/ UNCHANGED ui
    /\ net' = Fetching /\ UNCHANGED srv

\* Answers come in any order, and the last one to come is shown.
ListReturns(l) ==
    /\ net' = [net EXCEPT !.lists = @ \ {l}]
    /\ ui' = IF ui.here THEN [ui EXCEPT !.loading = FALSE, !.shown = l] ELSE ui
    /\ UNCHANGED srv

\* What a node's card offers, and what its row of the table does.
CardMenu == {"toggle", "rename", "key", "config", "copy", "portal", "delete"}
TableRow == {"toggle", "rename", "key", "config", "copy", "delete"}

Offers(n, op) ==
    /\ ui.here /\ ui.modal = "none" /\ ~ui.loading /\ n \in ui.shown
    /\ op \in CardMenu \cup TableRow

\* Cards lead to the node's page: that unmounts this one, whose timers are
\* cleared.
Leave ==
    /\ ui.here
    /\ ui' = [ui EXCEPT !.here = FALSE, !.modal = "none",
                 !.flows = [f \in Flows |->
                    IF @[f].pc = "wait" THEN [@[f] EXCEPT !.pc = "cut"]
                    ELSE @[f]]]
    /\ UNCHANGED <<net, srv>>

Exists(n) == n \in srv.nodes

\* handleConnect and handleDisconnect of a node that has no flow.
Connect(n) ==
    /\ Offers(n, "toggle") /\ Exists(n) /\ srv.off[n] # None
    /\ srv' = [srv EXCEPT !.off[n] = None]
    /\ net' = Fetching /\ ui' = [ui EXCEPT !.loading = TRUE]

Disconnect(n) ==
    /\ Offers(n, "toggle") /\ Exists(n) /\ srv.off[n] = None
    /\ srv' = [srv EXCEPT !.off[n] = User]
    /\ net' = Fetching /\ ui' = [ui EXCEPT !.loading = TRUE]

-----------------------------------------------------------------------------
(* The modals, which share the node they are about. *)

\* handleCardClick, handleEditApiKeyClick, handleEditConfigClick,
\* handleDeleteClick, handleAddTunnel.
OpenModal(n, m) ==
    /\ Offers(n, m)
    /\ ui' = [ui EXCEPT !.modal = m, !.sel = n] /\ UNCHANGED <<net, srv>>

CloseModal ==
    /\ ui.modal # "none"
    /\ ui' = [ui EXCEPT !.modal = "none"] /\ UNCHANGED <<net, srv>>

RenameModal == ui.modal = "rename"
ConfigModal == ui.modal = "config"
KeyModal == ui.modal = "key"
DeleteModal == ui.modal = "delete"
PortalModal == ui.modal = "portal"

\* PUT connects the node, whoever disconnected it.
Rename ==
    /\ RenameModal /\ Exists(ui.sel)
    /\ srv' = [srv EXCEPT !.off[ui.sel] = None]
    /\ ui' = [ui EXCEPT !.modal = "none", !.loading = TRUE]
    /\ net' = Fetching

\* The modal has closed when the answer comes.
Delete ==
    /\ DeleteModal
    /\ srv' = [srv EXCEPT !.nodes = @ \ {ui.sel}]
    /\ ui' = [ui EXCEPT !.modal = "none", !.loading = TRUE]
    /\ net' = [net EXCEPT !.lists = @ \cup {srv'.nodes}]

\* handleSubmitAddTunnel leaves the list alone.
AddTunnel ==
    /\ PortalModal
    /\ ui' = [ui EXCEPT !.modal = "none"] /\ UNCHANGED <<net, srv>>

-----------------------------------------------------------------------------
(* Edits of a key or an address. *)

\* Mutant: the timer reads the node when it fires.
NodeSelected(f) == ui.sel

\* The handler's closure: the node of the render the user saw.
NodeOf(f) == ui.flows[f].node

Goes(f, pc) == ui' = [ui EXCEPT !.flows[f].pc = pc]

\* The key's modal stays open until the key is written.
EditKey(f) ==
    /\ KeyModal /\ ui.flows[f].pc = "idle"
    /\ ui' = [ui EXCEPT !.flows[f] = [node |-> ui.sel, pc |-> "disconnect"]]
    /\ UNCHANGED <<net, srv>>

\* An edit of neither key nor address is written and that is all.
EditConfig(f) ==
    /\ ConfigModal /\ ui.flows[f].pc = "idle"
    /\ \E pc \in {"disconnect", "rewrite"} :
          ui' = [ui EXCEPT !.modal = "none",
                    !.flows[f] = [node |-> ui.sel, pc |-> pc]]
    /\ UNCHANGED <<net, srv>>

\* An error is a toast, and the flow goes on.
Disconnecting(f) ==
    /\ ui.flows[f].pc = "disconnect" /\ Goes(f, "write")
    /\ \/ /\ Exists(NodeOf(f))
          /\ net' = [net EXCEPT !.goroutines = @ \cup {<<"off", f>>}]
       \/ UNCHANGED net
    /\ UNCHANGED srv

\* The server connects the node with what is written.
Write(f) ==
    /\ ui.flows[f].pc \in {"write", "rewrite"}
    /\ \/ Goes(f, "failed") /\ UNCHANGED <<net, srv>>
       \/ /\ Exists(NodeOf(f))
          /\ srv' = [srv EXCEPT !.off[NodeOf(f)] = None]
          /\ ui' = [ui EXCEPT !.flows[f].pc = CASE @ = "rewrite" -> "done"
                                          [] @ = "write" /\ ui.here -> "wait"
                                          [] OTHER -> "cut",
                       !.modal = IF @ = "key" THEN "none" ELSE @,
                       !.loading = TRUE]
          /\ net' = Fetching

\* The timer is slower than the goroutine of the flow's own disconnect.
Wait(f) ==
    /\ ui.flows[f].pc = "wait" /\ <<"off", f>> \notin net.goroutines
    /\ Goes(f, "connect") /\ UNCHANGED <<net, srv>>

Connecting(f) ==
    /\ ui.flows[f].pc = "connect"
    /\ LET n == NodeOf(f)
       IN  \/ Goes(f, "failed") /\ UNCHANGED <<net, srv>>
           \/ /\ Exists(n)
              /\ srv' = [srv EXCEPT !.off[n] = None]
              /\ ui' = [ui EXCEPT !.flows[f].pc = "done", !.loading = TRUE]
              /\ net' = Fetching

\* A goroutine of the server's disconnects.
Run(g) ==
    /\ net' = [net EXCEPT !.goroutines = @ \ {g}]
    /\ srv' = [srv EXCEPT !.off[ui.flows[g[2]].node] = g[2]]
    /\ UNCHANGED ui

Next ==
    \/ Fetch \/ Leave \/ CloseModal \/ Rename \/ Delete \/ AddTunnel
    \/ \E l \in net.lists : ListReturns(l)
    \/ \E n \in Nodes : \/ Connect(n) \/ Disconnect(n)
                        \/ \E m \in Modals \ {"none"} : OpenModal(n, m)
    \/ \E f \in Flows : \/ EditKey(f) \/ EditConfig(f) \/ Disconnecting(f)
                        \/ Write(f) \/ Wait(f) \/ Connecting(f)
    \/ \E g \in net.goroutines : Run(g)

Spec == Init /\ [][Next]_vars

-----------------------------------------------------------------------------
\* A flow takes seconds, in which the modals turn to other nodes: one that
\* has come to its end leaves no node cut off by its own disconnect.
EditReconnects ==
    \A f \in Flows : ui.flows[f].pc = "done" => \A n \in Nodes : srv.off[n] # f
=============================================================================
