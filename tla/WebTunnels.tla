------------------------------- MODULE WebTunnels -------------------------------
(***************************************************************************)
(* The list of tunnels (src/web/src/pages/tunnels/index.tsx): its pages,   *)
(* the rows a user picks over several of them, the deletion of one row or  *)
(* of what is picked - one request per tunnel, given up by the page at the *)
(* first that fails - and the tunnel that is created from a URL.           *)
(*                                                                         *)
(* ui is what the page holds, net the lists on their way, srv the tunnels, *)
(* numbered in the order of the list.  The search and the filters choose   *)
(* rows as the pages do.  The actions are WebTunnelActions's, the form is  *)
(* WebTunnelForm's; other modals only cover the list and are left out.     *)
(***************************************************************************)
EXTENDS Naturals, FiniteSets

CONSTANTS
    MaxTunnel,      \* tunnels there ever are
    PageSize,       \* rows of a page
    MaxLists        \* bound: lists on their way

TunnelsAssumption ==
    /\ MaxTunnel \in Nat \ {0, 1} /\ PageSize \in Nat \ {0}
    /\ MaxLists \in Nat \ {0}

VARIABLES ui, net, srv

vars == <<ui, net, srv>>

TunnelNumbers == 1 .. MaxTunnel
Pages == 1 .. MaxTunnel
All == {0}

Modals == {"none", "url", "one", "batch"}

\* What an answer holds: the rows of a page, and how many pages there are.
List == [rows : SUBSET TunnelNumbers, pages : Pages]

\* from, to: the page that was shown when the deletion was confirmed and, if
\* it deletes as many as were on it, the one before it, otherwise 0.
\* creating: the page that was shown when the URL was sent, or 0.
Page == [rows : SUBSET TunnelNumbers, page : Pages, pages : Pages,
         picked : (SUBSET TunnelNumbers) \cup {All},
         modal : Modals, target : TunnelNumbers \cup {0},
         deleting : SUBSET TunnelNumbers, deletesOne : BOOLEAN,
         from : Pages, to : Pages \cup {0}, creating : Pages \cup {0}]

TypeOK ==
    /\ ui \in Page
    /\ net \subseteq List
    /\ srv \subseteq TunnelNumbers

Init ==
    /\ srv = TunnelNumbers \ {MaxTunnel}
    /\ ui = [rows |-> {}, page |-> 1, pages |-> 1, picked |-> {},
             modal |-> "none", target |-> 0, deleting |-> {},
             deletesOne |-> FALSE, from |-> 1, to |-> 0,
             creating |-> 0]
    /\ net = {}

-----------------------------------------------------------------------------
(* The list. *)

Place(s, t) == Cardinality({u \in s : u <= t})

\* The page of the rows the server would answer with.
ListOf(s, page) ==
    [rows |-> {t \in s : /\ Place(s, t) > (page - 1) * PageSize
                          /\ Place(s, t) <= page * PageSize},
     pages |-> LET n == (Cardinality(s) + PageSize - 1) \div PageSize
               IN  IF n = 0 THEN 1 ELSE n]

\* The lists on their way; beyond MaxLists none is sent.
Fetching(s, page) ==
    IF Cardinality(net) < MaxLists THEN net \cup {ListOf(s, page)} ELSE net

Shows(u, l) == [u EXCEPT !.rows = l.rows, !.pages = l.pages]

\* The effects, the timer of 15 s, the button and a saved form.
FetchTunnels ==
    /\ net' = Fetching(srv, ui.page)
    /\ UNCHANGED <<ui, srv>>

\* Answers come in any order, and the last one to come is shown.
ListReturns(l) ==
    /\ net' = net \ {l}
    /\ ui' = Shows(ui, l) /\ UNCHANGED srv

Pagination(p) == ui.pages > 1 /\ p <= ui.pages /\ p # ui.page

\* The effect fetches the page.
SetPage(p) ==
    /\ Pagination(p) /\ ui.modal = "none"
    /\ ui' = [ui EXCEPT !.page = p]
    /\ net' = Fetching(srv, p)
    /\ UNCHANGED srv

\* The filters, the order and the number of rows start at the first page.
ResetFilters ==
    /\ ui.page # 1 /\ ui.modal = "none"
    /\ ui' = [ui EXCEPT !.page = 1]
    /\ net' = Fetching(srv, 1)
    /\ UNCHANGED srv

\* Mutant: rows of other pages are not deleted.
SelectedRows ==
    IF ui.picked = All THEN ui.rows ELSE ui.picked \cap ui.rows

SelectedIds == IF ui.picked = All THEN ui.rows ELSE ui.picked

\* A row's box keeps what is picked on other pages; the box of the table
\* picks all rows there are, and all that come.
TableSelects(t) ==
    /\ ui.modal = "none" /\ t \in ui.rows
    /\ ui' = [ui EXCEPT !.picked =
                 IF t \in SelectedIds THEN SelectedIds \ {t}
                 ELSE SelectedIds \cup {t}]
    /\ UNCHANGED <<net, srv>>

TableSelectsAll ==
    /\ ui.modal = "none" /\ ui.rows # {}
    /\ ui' = [ui EXCEPT !.picked = IF @ = All THEN {} ELSE All]
    /\ UNCHANGED <<net, srv>>

BulkActions == ui.modal = "none" /\ SelectedIds # {}

-----------------------------------------------------------------------------
(* The modals. *)

\* The page's header and a row's buttons.
OpenModal(m, t) ==
    /\ ui.modal = "none"
    /\ \/ m = "url" /\ t = 0
       \/ m = "batch" /\ t = 0 /\ BulkActions
       \/ m = "one" /\ t \in ui.rows
    /\ ui' = [ui EXCEPT !.modal = m, !.target = IF m = "one" THEN t ELSE 0]
    /\ UNCHANGED <<net, srv>>

CloseModal ==
    /\ ui.modal # "none"
    /\ ui' = [ui EXCEPT !.modal = "none", !.target = 0]
    /\ UNCHANGED <<net, srv>>

UrlCreateModal == ui.modal = "url"

SubmitUrlCreate ==
    /\ UrlCreateModal /\ ui.creating = 0
    /\ ui' = [ui EXCEPT !.creating = ui.page] /\ UNCHANGED <<net, srv>>

\* A new tunnel is the last of the list, of which the page is fetched that was
\* shown when the URL was sent.  Neither this button nor that of a deletion
\* waits for the list here, as they do in the code.
UrlReturns ==
    /\ ui.creating # 0 /\ MaxTunnel \notin srv
    /\ srv' = srv \cup {MaxTunnel}
    /\ ui' = [ui EXCEPT !.modal = IF @ = "url" THEN "none" ELSE @,
                        !.creating = 0]
    /\ net' = Fetching(srv', ui.creating)

\* The tunnel may be there all the same.
UrlFails ==
    /\ ui.creating # 0
    /\ srv' = srv \/ srv' = srv \cup {MaxTunnel}
    /\ ui' = [ui EXCEPT !.creating = 0] /\ UNCHANGED net

DeleteModal == ui.modal \in {"one", "batch"}

DeleteTargets == IF ui.target # 0 THEN {ui.target} ELSE SelectedIds

ConfirmDelete ==
    /\ DeleteModal /\ ui.deleting = {} /\ DeleteTargets # {}
    /\ ui' = [ui EXCEPT !.deleting = DeleteTargets,
                 !.deletesOne = ui.target # 0, !.from = ui.page,
                 !.to = IF Cardinality(DeleteTargets) = Cardinality(ui.rows)
                        THEN ui.page - 1 ELSE 0]
    /\ UNCHANGED <<net, srv>>

Deleted(u) == [u EXCEPT !.deleting = {}, !.deletesOne = FALSE, !.from = 1,
                        !.to = 0]

\* All of them are gone.  The modal closes, what was picked is picked no
\* longer, and a page of which all was deleted is left for the one before it:
\* page, rows and fetch are those of the moment the deletion was confirmed.
\* (A modal that was closed and opened for another tunnel meanwhile closes
\* too.)
DeleteReturns ==
    /\ ui.deleting # {} /\ ui.deleting \subseteq srv
    /\ srv' = srv \ ui.deleting
    /\ LET page == IF ui.to # 0 THEN ui.to ELSE ui.page
       IN /\ ui' = Deleted([ui EXCEPT !.page = page, !.target = 0,
                       !.picked = IF ui.deletesOne THEN @ ELSE {},
                       !.modal = IF @ \in {"one", "batch"} THEN "none" ELSE @])
          /\ net' = IF ui.to = 0 THEN Fetching(srv', ui.from)
                    ELSE IF page = ui.page THEN net
                    ELSE Fetching(srv', page)

\* One failed - it was gone already, say, or its answer is lost -: any of them
\* may be deleted, but nothing is fetched and the modal stays.
DeleteFails ==
    /\ ui.deleting # {}
    /\ \E gone \in SUBSET (ui.deleting \cap srv) : srv' = srv \ gone
    /\ ui' = Deleted(ui) /\ UNCHANGED net

Next ==
    \/ FetchTunnels \/ ResetFilters \/ TableSelectsAll \/ CloseModal
    \/ SubmitUrlCreate \/ UrlReturns \/ UrlFails
    \/ ConfirmDelete \/ DeleteReturns \/ DeleteFails
    \/ \E l \in net : ListReturns(l)
    \/ \E p \in Pages : SetPage(p)
    \/ \E t \in TunnelNumbers : TableSelects(t)
    \/ \E m \in Modals, t \in TunnelNumbers \cup {0} : OpenModal(m, t)

Spec == Init /\ [][Next]_vars

-----------------------------------------------------------------------------
\* Of a step: while the user is asked to confirm a deletion, lists keep coming: they do
\* not change which tunnels will be deleted - unless all rows are picked.
ConfirmedStays ==
    DeleteModal /\ ui'.modal = ui.modal /\ ui.picked # All
    => DeleteTargets' = DeleteTargets
=============================================================================
