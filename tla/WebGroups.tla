------------------------------- MODULE WebGroups --------------------------------
(***************************************************************************)
(* The drawer of the groups of tunnels                                     *)
(* (src/web/src/components/tunnels/group-management-drawer.tsx): a group   *)
(* is created, renamed in its row, and deleted after a question.  One      *)
(* request is under way at a time and the buttons wait for it, but the     *)
(* drawer itself closes at any time, and may be open again when its answer *)
(* comes.                                                                  *)
(*                                                                         *)
(* ui is what the drawer holds, net the lists on their way, srv the groups. *)
(* Of a name only matters whether there is one that can be sent.           *)
(***************************************************************************)
EXTENDS Naturals, FiniteSets

CONSTANTS
    Groups,         \* groups
    None            \* no group

GroupsAssumption ==
    IsFiniteSet(Groups) /\ None \notin Groups

VARIABLES ui, net, srv

vars == <<ui, net, srv>>

\* The request under way: none, a new group's, or one about a group; then the
\* drawer's list and the page's are awaited (refreshAfterSave).
Action == [op : {"none", "create", "rename", "delete", "list", "saved"},
           group : Groups \cup {None}]

Idle == [op |-> "none", group |-> None]

\* after: the list that an action waits for.
List == [groups : SUBSET Groups, after : BOOLEAN]

\* loading is drawn instead of the table; editing is the row that is a form.
Page == [open : BOOLEAN, groups : SUBSET Groups, loading : BOOLEAN, action : Action,
         creating : BOOLEAN, newName : BOOLEAN,
         editing : Groups \cup {None}, editName : BOOLEAN,
         deleting : Groups \cup {None}]

TypeOK ==
    /\ ui \in Page
    /\ net \subseteq List
    /\ srv \subseteq Groups

Init ==
    /\ srv = {}
    /\ ui = [open |-> FALSE, groups |-> srv, loading |-> FALSE,
             action |-> Idle, creating |-> FALSE, newName |-> FALSE,
             editing |-> None, editName |-> FALSE, deleting |-> None]
    /\ net = {}

\* Mutant: a group's buttons do not wait.
NeverBusy == FALSE

Busy == ui.action # Idle

-----------------------------------------------------------------------------
(* The list. *)

LoadGroups ==
    /\ ~ui.open
    /\ ui' = [ui EXCEPT !.open = TRUE, !.loading = TRUE]
    /\ net' = net \cup {[groups |-> srv, after |-> FALSE]} /\ UNCHANGED srv

\* Lists come in any order, and the last one to come is shown.
GroupsReturn(l) ==
    /\ net' = net \ {l} /\ UNCHANGED srv
    /\ \E groups \in {l.groups, ui.groups} :      \* or the load fails
          ui' = [ui EXCEPT !.groups = groups, !.loading = FALSE,
                           !.action.op = IF l.after THEN "saved" ELSE @]

RefreshEnds ==
    /\ ui.action.op = "saved"
    /\ ui' = [ui EXCEPT !.action = Idle] /\ UNCHANGED <<net, srv>>

\* ResetTransientState.
HandleOpenChange ==
    /\ ui.open
    /\ ui' = [ui EXCEPT !.open = FALSE, !.creating = FALSE, !.newName = FALSE,
                        !.editing = None, !.editName = FALSE, !.deleting = None]
    /\ UNCHANGED <<net, srv>>

-----------------------------------------------------------------------------
(* The forms. *)

ShowCreate ==
    /\ ui.open /\ ~Busy /\ ~ui.creating
    /\ ui' = [ui EXCEPT !.creating = TRUE, !.editing = None, !.editName = FALSE]
    /\ UNCHANGED <<net, srv>>

CreateForm == ui.open /\ ui.creating /\ ~Busy

SetNewName ==
    /\ CreateForm
    /\ ui' = [ui EXCEPT !.newName = ~@] /\ UNCHANGED <<net, srv>>

CancelCreate ==
    /\ CreateForm
    /\ ui' = [ui EXCEPT !.creating = FALSE, !.newName = FALSE]
    /\ UNCHANGED <<net, srv>>

ShownGroups == IF ui.open /\ ~ui.loading THEN ui.groups ELSE {}

StartEditing(g) ==
    /\ g \in ShownGroups /\ ~Busy /\ ui.editing # g
    /\ ui' = [ui EXCEPT !.editing = g, !.editName = FALSE,
                        !.creating = FALSE, !.newName = FALSE]
    /\ UNCHANGED <<net, srv>>

EditForm == ui.editing \in ShownGroups /\ ~Busy

SetEditName ==
    /\ EditForm
    /\ ui' = [ui EXCEPT !.editName = ~@] /\ UNCHANGED <<net, srv>>

\* Also what a submitted name does that is the group's own.
CancelEditing ==
    /\ EditForm
    /\ ui' = [ui EXCEPT !.editing = None, !.editName = FALSE]
    /\ UNCHANGED <<net, srv>>

AskDelete(g) ==
    /\ g \in ShownGroups /\ ~Busy /\ ui.deleting = None
    /\ ui' = [ui EXCEPT !.deleting = g] /\ UNCHANGED <<net, srv>>

CancelDelete ==
    /\ ui.deleting # None /\ ~Busy
    /\ ui' = [ui EXCEPT !.deleting = None] /\ UNCHANGED <<net, srv>>

-----------------------------------------------------------------------------
(* The requests. *)

Sends(op, g) ==
    /\ ui' = [ui EXCEPT !.action = [op |-> op, group |-> g]]
    /\ UNCHANGED <<net, srv>>

CreateGroup ==
    /\ CreateForm /\ ui.newName /\ Sends("create", None)

RenameGroup ==
    /\ EditForm /\ ui.editName /\ Sends("rename", ui.editing)

DeleteGroup ==
    /\ ui.deleting # None /\ ~Busy /\ Sends("delete", ui.deleting)

\* After each of them the drawer fetches the groups, and then the page does.
Succeeds(u, groups) ==
    /\ srv' = groups /\ net' = net \cup {[groups |-> groups, after |-> TRUE]}
    /\ ui' = [u EXCEPT !.action = [op |-> "list", group |-> None],
                       !.loading = TRUE]

CreateReturns(g) ==
    /\ ui.action.op = "create" /\ g \notin srv
    /\ Succeeds([ui EXCEPT !.creating = FALSE, !.newName = FALSE],
                srv \cup {g})

RenameReturns ==
    /\ ui.action.op = "rename" /\ ui.action.group \in srv
    /\ Succeeds([ui EXCEPT !.editing = None, !.editName = FALSE],
                srv)

\* A form that is open for the group closes.
DeleteReturns ==
    /\ ui.action.op = "delete"
    /\ Succeeds(IF ui.editing = ui.action.group
                THEN [ui EXCEPT !.deleting = None, !.editing = None,
                                !.editName = FALSE]
                ELSE [ui EXCEPT !.deleting = None],
                srv \ {ui.action.group})

\* A toast, and the form stays.
ActionFails ==
    /\ ui.action.op \in {"create", "rename", "delete"}
    /\ ui' = [ui EXCEPT !.action = Idle] /\ UNCHANGED <<net, srv>>

Next ==
    \/ LoadGroups \/ HandleOpenChange \/ ShowCreate \/ CancelCreate
    \/ CancelEditing \/ CancelDelete \/ CreateGroup \/ RenameGroup
    \/ DeleteGroup \/ RenameReturns \/ DeleteReturns \/ ActionFails
    \/ RefreshEnds
    \/ \E l \in net : GroupsReturn(l)
    \/ SetNewName \/ SetEditName
    \/ \E g \in Groups : \/ StartEditing(g) \/ AskDelete(g)
                         \/ CreateReturns(g)

Spec == Init /\ [][Next]_vars

-----------------------------------------------------------------------------
\* Of a step: the drawer closes and opens under a request, whose answer empties the forms
\* then: it never takes away a name that is being edited for another group.
AnswerKeepsOtherForms ==
    ui.editing # None /\ ui'.editing = None /\ ui.action # Idle /\ ui'.open
    => ui.editing = ui.action.group
=============================================================================
