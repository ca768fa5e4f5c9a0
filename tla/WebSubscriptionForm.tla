-------------------------- MODULE WebSubscriptionForm ---------------------------
(***************************************************************************)
(* The form of a subscription                                              *)
(* (src/web/src/components/subscriptions/subscription-form-modal.tsx):     *)
(* tunnels and external URLs are imported, renamed, removed and put in an  *)
(* order, which is a list of its own beside the tunnels and the URLs.  The *)
(* server takes no order that does not list each of them exactly once      *)
(* (internal/subscription/service.go).                                     *)
(*                                                                         *)
(* A URL is where it leads and the name behind it.  ui is what the form    *)
(* holds, net the subscription being saved, srv the subscription and the   *)
(* tunnels there are.  The icon is WebIconPicker's; the name, the limit    *)
(* and the expiry, of which none depends on another, are one field that is *)
(* valid or not.                                                           *)
(***************************************************************************)
EXTENDS Naturals, FiniteSets, Sequences, SequencesExt

CONSTANTS
    Portals,        \* tunnels
    Hosts,          \* where URLs lead
    Names,          \* what is behind them
    None            \* nothing

FormAssumption ==
    /\ IsFiniteSet(Portals) /\ IsFiniteSet(Hosts) /\ IsFiniteSet(Names)
    /\ None \notin Portals \cup Hosts \cup Names

VARIABLES ui, net, srv

vars == <<ui, net, srv>>

Uris == Hosts \X Names

PortalItem(p) == [source |-> "portal", of |-> <<p, None>>]
UrlItem(u) == [source |-> "url", of |-> u]

Items == {PortalItem(p) : p \in Portals} \cup {UrlItem(u) : u \in Uris}

\* Lists without repetition.
Lists(S) == {s \in UNION {[1 .. n -> S] : n \in 0 .. Cardinality(S)} :
                IsInjective(s)}

Sources == [tunnelIds : Lists(Portals), externalUris : Lists(Uris),
            nodeOrder : Seq(Items)]

Nothing == [tunnelIds |-> << >>, externalUris |-> << >>, nodeOrder |-> << >>]

Importers == {"none", "portal", "url"}

\* target: the URL whose name is edited, by its place; named: the tunnels
\* that have a name of their own here.
Page == [open : BOOLEAN, form : Sources, valid : BOOLEAN,
         portals : SUBSET Portals, importer : Importers,
         selection : SUBSET Portals, target : Nat, named : SUBSET Portals,
         confirming : BOOLEAN, submitting : BOOLEAN]

TypeOK ==
    /\ ui \in Page
    /\ net \subseteq Sources
    /\ srv \in [sub : Sources, portals : SUBSET Portals]

\* Is an order one the server takes?
ValidateNodeOrder(s) ==
    /\ IsInjective(s.nodeOrder)
    /\ Range(s.nodeOrder) = {PortalItem(p) : p \in Range(s.tunnelIds)}
                                \cup {UrlItem(u) : u \in Range(s.externalUris)}

Init ==
    /\ srv = [sub |-> Nothing, portals |-> Portals]
    /\ ui = [open |-> FALSE, form |-> Nothing, valid |-> FALSE,
             portals |-> Portals, importer |-> "none", selection |-> {},
             target |-> 0, named |-> {}, confirming |-> FALSE,
             submitting |-> FALSE]
    /\ net = {}

-----------------------------------------------------------------------------
(* The sources. *)

\* toFormState: an order of another length than the sources is not taken.
ToFormState(s) ==
    LET default == [i \in 1 .. Len(s.tunnelIds) |-> PortalItem(s.tunnelIds[i])]
                   \o [i \in 1 .. Len(s.externalUris) |->
                          UrlItem(s.externalUris[i])]
    IN  IF Len(s.nodeOrder) = Len(default) THEN s
        ELSE [s EXCEPT !.nodeOrder = default]

\* The effect of opening the form: for a new subscription, or for the one
\* there is.
Open ==
    /\ ~ui.open
    /\ \E s \in {srv.sub, Nothing} :
          ui' = [ui EXCEPT !.open = TRUE, !.form = ToFormState(s),
                    !.valid = s # Nothing, !.importer = "none",
                    !.selection = {}, !.target = 0, !.confirming = FALSE]
    /\ UNCHANGED <<net, srv>>

Close ==
    /\ ui.open /\ ~ui.submitting
    /\ ui' = [ui EXCEPT !.open = FALSE] /\ UNCHANGED <<net, srv>>

\* The modals over the form cover it.
FormBody == ui.open /\ ui.importer = "none" /\ ui.target = 0
            /\ ~ui.confirming /\ ~ui.submitting

Edits(form) == ui' = [ui EXCEPT !.form = form]

SetFields ==
    /\ FormBody
    /\ ui' = [ui EXCEPT !.valid = ~@] /\ UNCHANGED <<net, srv>>

OpenImporter(mode) ==
    /\ FormBody
    /\ ui' = [ui EXCEPT !.importer = mode, !.selection = {}]
    /\ UNCHANGED <<net, srv>>

CloseImporter ==
    /\ ui.open /\ ui.importer # "none"
    /\ ui' = [ui EXCEPT !.importer = "none"] /\ UNCHANGED <<net, srv>>

PortalImporter == ui.open /\ ui.importer = "portal"
UrlImporter == ui.open /\ ui.importer = "url"

\* Tunnels that are in the form already are not offered.
AvailablePortals == ui.portals \ Range(ui.form.tunnelIds)

TogglePortalSelection(p) ==
    /\ PortalImporter /\ p \in AvailablePortals
    /\ ui' = [ui EXCEPT !.selection = IF p \in @ THEN @ \ {p} ELSE @ \cup {p}]
    /\ UNCHANGED <<net, srv>>

ImportPortals ==
    /\ PortalImporter /\ ui.selection # {}
    /\ LET new == SetToSeq(ui.selection)
           items == [i \in 1 .. Len(new) |-> PortalItem(new[i])]
       IN  ui' = [ui EXCEPT !.importer = "none",
                            !.form.tunnelIds = @ \o new,
                            !.form.nodeOrder = @ \o items]
    /\ UNCHANGED <<net, srv>>

\* A draft with a line that is wrong, or twice in it or in the form already,
\* is not taken.
InspectExternalUris(draft) ==
    /\ draft # << >> /\ IsInjective(draft)
    /\ Range(draft) \cap Range(ui.form.externalUris) = {}

ImportUrls(draft) ==
    /\ UrlImporter /\ InspectExternalUris(draft)
    /\ LET items == [i \in 1 .. Len(draft) |-> UrlItem(draft[i])]
       IN  ui' = [ui EXCEPT !.importer = "none",
                            !.form.externalUris = @ \o draft,
                            !.form.nodeOrder = @ \o items]
    /\ UNCHANGED <<net, srv>>

\* The rows: of the order, what is a tunnel that is known or a URL.
TableRows ==
    {i \in 1 .. Len(ui.form.nodeOrder) :
        LET item == ui.form.nodeOrder[i]
        IN  item.source = "portal" => item.of[1] \in ui.portals}

\* filter(): no list has anything twice, so one place at most is left out.
Without(s, x) == RemoveFirst(s, x)

RemovePortal(i) ==
    /\ FormBody /\ i \in TableRows /\ ui.form.nodeOrder[i].source = "portal"
    /\ LET p == ui.form.nodeOrder[i].of[1]
       IN  ui' = [ui EXCEPT !.named = @ \ {p},
                    !.form.tunnelIds = Without(@, p),
                    !.form.nodeOrder = Without(@, PortalItem(p))]
    /\ UNCHANGED <<net, srv>>

RemoveExternal(i) ==
    /\ FormBody /\ i \in 1 .. Len(ui.form.externalUris)
    /\ LET u == ui.form.externalUris[i]
       IN  Edits([ui.form EXCEPT !.externalUris = RemoveAt(@, i),
                                 !.nodeOrder = Without(@, UrlItem(u))])
    /\ UNCHANGED <<net, srv>>

\* arrayMove: a row that was dropped takes the other's place.
HandleDragEnd(i, j) ==
    /\ FormBody /\ i # j /\ {i, j} \subseteq TableRows
    /\ Edits([ui.form EXCEPT !.nodeOrder =
                 InsertAt(RemoveAt(@, i), j, @[i])])
    /\ UNCHANGED <<net, srv>>

-----------------------------------------------------------------------------
(* Names.  A tunnel's is beside the tunnel, a URL's is part of the URL. *)

OpenNameEditor(i) ==
    /\ FormBody /\ i \in TableRows
    /\ ui' = [ui EXCEPT !.target = i] /\ UNCHANGED <<net, srv>>

CloseNameEditor ==
    /\ ui.open /\ ui.target # 0
    /\ ui' = [ui EXCEPT !.target = 0] /\ UNCHANGED <<net, srv>>

NameEditor == ui.open /\ ui.target # 0

Target == ui.form.nodeOrder[ui.target]

\* A tunnel's own name is no name of its own here.
SavePortalName ==
    /\ NameEditor /\ Target.source = "portal"
    /\ \E named \in {ui.named \cup {Target.of[1]}, ui.named \ {Target.of[1]}} :
          ui' = [ui EXCEPT !.target = 0, !.named = named]
    /\ UNCHANGED <<net, srv>>

Renamed(s, x, y) == [i \in 1 .. Len(s) |-> IF s[i] = x THEN y ELSE s[i]]

\* Mutant: the order keeps the URL as it was.
RenameUriOnly(u, v) ==
    [ui.form EXCEPT !.externalUris = Renamed(@, u, v)]

RenameUri(u, v) ==
    [ui.form EXCEPT !.externalUris = Renamed(@, u, v),
                    !.nodeOrder = Renamed(@, UrlItem(u), UrlItem(v))]

\* A name that would make the URL another one of the form's is an error.
SaveUrlName(name) ==
    /\ NameEditor /\ Target.source = "url"
    /\ LET u == Target.of
           v == <<u[1], name>>
       IN  /\ v \notin Range(ui.form.externalUris) \ {u}
           /\ ui' = [ui EXCEPT !.target = 0, !.form = RenameUri(u, v)]
    /\ UNCHANGED <<net, srv>>

-----------------------------------------------------------------------------
(* Saving. *)

Saves == ui' = [ui EXCEPT !.submitting = TRUE] /\ net' = {ui.form}

\* External URLs are asked about once more.
Submit ==
    /\ FormBody /\ ui.valid /\ TableRows # {}
    /\ IF ui.form.externalUris = << >> THEN Saves
       ELSE ui' = [ui EXCEPT !.confirming = TRUE] /\ UNCHANGED net
    /\ UNCHANGED srv

ConfirmModal == ui.open /\ ui.confirming /\ ~ui.submitting

CloseConfirm ==
    /\ ConfirmModal
    /\ ui' = [ui EXCEPT !.confirming = FALSE] /\ UNCHANGED <<net, srv>>

SaveSubscription == ConfirmModal /\ Saves /\ UNCHANGED srv

\* The page loads the tunnels anew.
SaveReturns(s) ==
    /\ ValidateNodeOrder(s) /\ Range(s.tunnelIds) \subseteq srv.portals
    /\ srv' = [srv EXCEPT !.sub = s] /\ net' = {}
    /\ ui' = [ui EXCEPT !.submitting = FALSE, !.confirming = FALSE,
                        !.open = FALSE, !.portals = srv.portals]

SaveFails ==
    /\ ui.submitting
    /\ ui' = [ui EXCEPT !.submitting = FALSE, !.confirming = FALSE]
    /\ net' = {} /\ UNCHANGED srv

\* A tunnel is deleted elsewhere, and it leaves the subscription.
DeletePortal(p) ==
    /\ p \in srv.portals
    /\ srv' = [portals |-> srv.portals \ {p},
               sub |-> [srv.sub EXCEPT !.tunnelIds = Without(@, p),
                           !.nodeOrder = Without(@, PortalItem(p))]]
    /\ UNCHANGED <<ui, net>>

Next ==
    \/ Open \/ Close \/ SetFields \/ CloseImporter \/ ImportPortals
    \/ CloseNameEditor \/ SavePortalName \/ Submit \/ CloseConfirm
    \/ SaveSubscription \/ SaveFails
    \/ \E mode \in Importers \ {"none"} : OpenImporter(mode)
    \/ \E p \in Portals : TogglePortalSelection(p) \/ DeletePortal(p)
    \/ \E draft \in Lists(Uris) : ImportUrls(draft)
    \/ \E i \in 1 .. Len(ui.form.nodeOrder) :
          \/ RemovePortal(i) \/ RemoveExternal(i) \/ OpenNameEditor(i)
          \/ \E j \in 1 .. Len(ui.form.nodeOrder) : HandleDragEnd(i, j)
    \/ \E name \in Names : SaveUrlName(name)
    \/ \E s \in net : SaveReturns(s)

Spec == Init /\ [][Next]_vars

-----------------------------------------------------------------------------
\* Whatever was imported, renamed, removed and moved, in whatever order, the
\* form has an order the server takes: saving never fails for the order.
OrderIsComplete == ValidateNodeOrder(ui.form)
=============================================================================
