---------------------------- MODULE WebSubscriptions ----------------------------
(***************************************************************************)
(* The list of subscriptions (src/web/src/pages/subscriptions/index.tsx),  *)
(* the actions that are confirmed - to delete one, to change its token, to *)
(* reset its traffic -, and the preferences of what it puts out, which are *)
(* saved where it is imported                                              *)
(* (src/web/src/components/subscriptions/subscription-import-modal.tsx):   *)
(* with all of the subscription, as it was in the list.                    *)
(*                                                                         *)
(* ui is what the page holds, net the lists on their way and the requests  *)
(* to save, srv the subscriptions there are.  What a request writes and    *)
(* what it is answered are two steps, in any order with those of another   *)
(* request, and one that is said to have failed may have been written or   *)
(* be written yet: Update commits before it reads what it answers          *)
(* (src/internal/subscription/service.go), and answers are lost.           *)
(***************************************************************************)
EXTENDS Naturals, FiniteSets

CONSTANTS
    Subs,           \* subscriptions
    Prefs,          \* preferences
    Rests,          \* all the rest of a subscription
    None,           \* no subscription
    MaxSaves        \* bound: requests to save under way

SubscriptionsAssumption ==
    /\ MaxSaves \in Nat
    /\ IsFiniteSet(Subs) /\ IsFiniteSet(Prefs) /\ IsFiniteSet(Rests)
    /\ None \notin Subs \cup Prefs \cup Rests

VARIABLES ui, net, srv

vars == <<ui, net, srv>>

Row == [prefs : Prefs, rest : Rests]
NoRow == [prefs |-> None, rest |-> None]
List == [Subs -> Row \cup {NoRow}]

Actions == {"delete", "rotate", "reset"}

\* target: the subscription that is imported and its row when that began,
\* saved: what the preferences were last known to be, savedHere: by the answer
\* to a request of this modal's.
Page == [rows : List, loading : BOOLEAN,
         form : BOOLEAN, editing : Subs \cup {None}, edited : Row \cup {NoRow},
         pending : [action : Actions \cup {"none"}, sub : Subs \cup {None}],
         actionLoading : BOOLEAN,
         target : Subs \cup {None}, row : Row \cup {NoRow},
         prefs : Prefs \cup {None}, saved : Prefs \cup {None},
         saving : BOOLEAN, savedHere : BOOLEAN]

\* A request of the form or of the modal: on its way, written, given up but
\* perhaps to be written yet, or answered, the list that follows being
\* awaited.  alone: no other was under way since it was sent, which no code
\* keeps.
Request == [sub : Subs \cup {None}, row : Row \cup {NoRow}, form : BOOLEAN,
            alone : BOOLEAN, list : List,
            stage : {"free", "sent", "written", "left", "listing"}]

Slots == 1 .. MaxSaves

TypeOK ==
    /\ ui \in Page
    /\ net \in [lists : SUBSET List, saves : [Slots -> Request]]
    /\ srv \in List

NoPending == [action |-> "none", sub |-> None]
EmptyList == [s \in Subs |-> NoRow]
Free == [sub |-> None, row |-> NoRow, form |-> FALSE, alone |-> FALSE,
         stage |-> "free", list |-> EmptyList]

Init ==
    /\ srv \in [Subs -> Row]
    /\ ui = [rows |-> EmptyList, loading |-> TRUE, form |-> FALSE,
             editing |-> None, edited |-> NoRow, pending |-> NoPending, actionLoading |-> FALSE,
             target |-> None, row |-> NoRow, prefs |-> None, saved |-> None,
             saving |-> FALSE, savedHere |-> FALSE]
    /\ net = [lists |-> {srv}, saves |-> [k \in Slots |-> Free]]

-----------------------------------------------------------------------------
(* The list. *)

Plain == ~ui.form /\ ui.pending = NoPending /\ ui.target = None

Loading(u) == [u EXCEPT !.loading = TRUE]
Fetching(s) == [net EXCEPT !.lists = @ \cup {s}]

\* The button waits for the list.
LoadData ==
    /\ Plain /\ ~ui.loading
    /\ ui' = Loading(ui) /\ net' = Fetching(srv) /\ UNCHANGED srv

\* Two loads may bring the same list.
Fetched(l) == net' = net \/ net' = [net EXCEPT !.lists = @ \ {l}]

ListReturns(l) ==
    /\ Fetched(l)
    /\ ui' = [ui EXCEPT !.rows = l, !.loading = FALSE] /\ UNCHANGED srv

\* An error is shown over the rows there were.
ListFails(l) ==
    /\ Fetched(l)
    /\ ui' = [ui EXCEPT !.loading = FALSE] /\ UNCHANGED srv

RowActions(s) == Plain /\ ui.rows[s] # NoRow

-----------------------------------------------------------------------------
(* Requests to save. *)

Holds(k, stages) == net.saves[k].stage \in stages
UnderWay(k) == Holds(k, {"sent", "written", "left"})

\* The first free slot takes the request; the others are not alone any more.
Send(k, sub, row, form) ==
    /\ Holds(k, {"free"}) /\ \A j \in Slots : j < k => ~Holds(j, {"free"})
    /\ net' = [net EXCEPT !.saves = [j \in Slots |->
          IF j = k THEN [sub |-> sub, row |-> row, form |-> form,
                         alone |-> \A i \in Slots : ~UnderWay(i),
                         stage |-> "sent", list |-> EmptyList]
          ELSE [net.saves[j] EXCEPT !.alone = FALSE]]]

Put(k, q) == [net EXCEPT !.saves[k] = q]

\* All of the row is written.  A new subscription is none of Subs.
Written(q) == IF q.sub = None \/ srv[q.sub] = NoRow THEN srv
              ELSE [srv EXCEPT ![q.sub] = q.row]

SaveWrites(k) ==
    /\ \/ /\ Holds(k, {"sent"})
          /\ net.saves[k].sub # None => srv[net.saves[k].sub] # NoRow
          /\ net' = Put(k, [net.saves[k] EXCEPT !.stage = "written"])
       \/ Holds(k, {"left"}) /\ net' = Put(k, Free)
    /\ srv' = Written(net.saves[k]) /\ UNCHANGED ui

\* The list is awaited before the button is enabled again.
Answered(k) ==
    /\ Holds(k, {"written"})
    /\ net' = Put(k, [net.saves[k] EXCEPT !.stage = "listing", !.list = srv,
                                          !.row = NoRow, !.alone = FALSE])
    /\ UNCHANGED srv

\* Mutant: what is known to be saved is what the switches say by now.
ShowSavedNow(q) ==
    [ui EXCEPT !.saved = ui.prefs, !.savedHere = ui.target = q.sub /\ q.alone]

\* A modal that was closed and opened for another subscription meanwhile is
\* told of the first one's.
ShowSaved(q) ==
    IF ui.target = None THEN ui
    ELSE [ui EXCEPT !.saved = q.row.prefs,
                    !.savedHere = ui.target = q.sub /\ q.alone]

SaveReturns(k) ==
    /\ Answered(k) /\ ~net.saves[k].form
    /\ ui' = Loading(ShowSaved(net.saves[k]))

\* The form is closed, before the list is there.
FormReturns(k) ==
    /\ Answered(k) /\ net.saves[k].form
    /\ ui' = Loading([ui EXCEPT !.form = FALSE, !.editing = None,
                                !.edited = NoRow])

\* A list that does not come leaves the rows that were there.
SavedListEnds(k) ==
    /\ Holds(k, {"listing"}) /\ net' = Put(k, Free) /\ UNCHANGED srv
    /\ \E rows \in {net.saves[k].list, ui.rows} :
          ui' = [ui EXCEPT !.rows = rows, !.loading = FALSE,
                           !.saving = @ /\ net.saves[k].form]

\* The form stays as it was.
SaveFails(k) ==
    /\ Holds(k, {"sent", "written"})
    /\ \/ net' = Put(k, Free)
       \/ /\ Holds(k, {"sent"})
          /\ net' = Put(k, [net.saves[k] EXCEPT !.stage = "left"])
    /\ ui' = IF net.saves[k].form THEN ui
             ELSE [ui EXCEPT !.saving = FALSE, !.savedHere = FALSE]
    /\ UNCHANGED srv

-----------------------------------------------------------------------------
(* The form, for a new subscription or one of the list. *)

\* The form of a new one is always mounted and stays busy until the list is
\* there; that of an old one is mounted when it is opened.
Submitting ==
    \E k \in Slots :
       /\ net.saves[k].form
       /\ net.saves[k].sub = ui.editing
       /\ Holds(k, {"sent", "written"} \cup
                   IF ui.editing = None THEN {"listing"} ELSE {})

OpenForm(s) ==
    /\ Plain /\ (s # None => ui.rows[s] # NoRow)
    /\ ui' = [ui EXCEPT !.form = TRUE, !.editing = s,
                 !.edited = IF s = None THEN NoRow ELSE ui.rows[s]]
    /\ UNCHANGED <<net, srv>>

CloseForm ==
    /\ ui.form /\ ~Submitting
    /\ ui' = [ui EXCEPT !.form = FALSE, !.editing = None, !.edited = NoRow]
    /\ UNCHANGED <<net, srv>>

\* The preferences are those of the row the form was opened with.
FormSaves(k, rest) ==
    /\ ui.form /\ ~Submitting
    /\ Send(k, ui.editing,
            IF ui.editing = None THEN NoRow
            ELSE [ui.edited EXCEPT !.rest = rest], TRUE)
    /\ UNCHANGED <<ui, srv>>

-----------------------------------------------------------------------------
(* Actions that are confirmed. *)

AskAction(s, a) ==
    /\ RowActions(s)
    /\ ui' = [ui EXCEPT !.pending = [action |-> a, sub |-> s]]
    /\ UNCHANGED <<net, srv>>

ConfirmAction == ui.pending # NoPending /\ ~ui.actionLoading

CancelAction ==
    /\ ConfirmAction
    /\ ui' = [ui EXCEPT !.pending = NoPending] /\ UNCHANGED <<net, srv>>

RunConfirmedAction ==
    /\ ConfirmAction
    /\ ui' = [ui EXCEPT !.actionLoading = TRUE] /\ UNCHANGED <<net, srv>>

Carried == IF ui.pending.action = "delete"
           THEN [srv EXCEPT ![ui.pending.sub] = NoRow] ELSE srv

\* The list is awaited with the modal closed.  One that is opened meanwhile
\* is enabled here at once, in the code when the list is there.
ActionReturns ==
    /\ ui.actionLoading /\ ui.pending # NoPending
    /\ srv[ui.pending.sub] # NoRow
    /\ srv' = Carried
    /\ ui' = Loading([ui EXCEPT !.pending = NoPending,
                                !.actionLoading = FALSE])
    /\ net' = Fetching(srv')

\* What failed may have been carried out, its answer lost.
ActionFails ==
    /\ ui.actionLoading /\ ui.pending # NoPending
    /\ srv' = srv \/ srv' = Carried
    /\ ui' = [ui EXCEPT !.actionLoading = FALSE] /\ UNCHANGED net

-----------------------------------------------------------------------------
(* Importing a subscription, and its preferences. *)

OpenImport(s) ==
    /\ RowActions(s)
    /\ ui' = [ui EXCEPT !.target = s, !.row = ui.rows[s],
                 !.prefs = ui.rows[s].prefs, !.saved = ui.rows[s].prefs,
                 !.saving = FALSE, !.savedHere = FALSE]
    /\ UNCHANGED <<net, srv>>

\* What the modal held is forgotten: it is set again when the modal opens.
CloseImport ==
    /\ ui.target # None
    /\ ui' = [ui EXCEPT !.target = None, !.row = NoRow, !.prefs = None,
                 !.saved = None, !.saving = FALSE, !.savedHere = FALSE]
    /\ UNCHANGED <<net, srv>>

\* While they are being saved, too.
OutputPreferences(p) ==
    /\ ui.target # None /\ p # ui.prefs
    /\ ui' = [ui EXCEPT !.prefs = p] /\ UNCHANGED <<net, srv>>

PreferencesDirty == ui.prefs # ui.saved

SavePreferences(k) ==
    /\ ui.target # None /\ PreferencesDirty /\ ~ui.saving
    /\ Send(k, ui.target, [ui.row EXCEPT !.prefs = ui.prefs], FALSE)
    /\ ui' = [ui EXCEPT !.saving = TRUE] /\ UNCHANGED srv

Next ==
    \/ LoadData \/ CloseForm \/ CancelAction \/ RunConfirmedAction
    \/ ActionReturns \/ ActionFails \/ CloseImport
    \/ \E l \in net.lists : ListReturns(l) \/ ListFails(l)
    \/ \E s \in Subs \cup {None} : OpenForm(s)
    \/ \E s \in Subs : OpenImport(s) \/ \E a \in Actions : AskAction(s, a)
    \/ \E p \in Prefs : OutputPreferences(p)
    \/ \E k \in Slots :
          \/ SaveWrites(k) \/ SaveReturns(k) \/ FormReturns(k)
          \/ SavedListEnds(k) \/ SaveFails(k) \/ SavePreferences(k)
          \/ \E rest \in Rests : FormSaves(k, rest)

Spec == Init /\ [][Next]_vars

-----------------------------------------------------------------------------
\* The switches may be moved while what they said is being saved, and saves
\* may overlap, be answered out of order or fail after they were written.
\* When the button says that there is nothing to save, and that by the answer
\* to a request of this modal's that no other overlapped and none has failed
\* or is under way since, the server has what the switches say.
NothingToSaveIsSaved ==
    ui.target # None /\ ui.savedHere /\ ~PreferencesDirty
    /\ (\A k \in Slots : ~UnderWay(k)) /\ srv[ui.target] # NoRow
    => srv[ui.target].prefs = ui.prefs
=============================================================================
