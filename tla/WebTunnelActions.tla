---------------------------- MODULE WebTunnelActions ----------------------------
(***************************************************************************)
(* Starting, stopping and restarting tunnels in the list                   *)
(* (src/web/src/pages/tunnels/index.tsx), one row or all rows that are     *)
(* picked: one request per tunnel.  The page stops waiting at the first    *)
(* that fails, and a row that is busy may be part of a batch.              *)
(*                                                                         *)
(* ui is what the page holds, net the actions it awaits, srv the tunnels   *)
(* that run.  The list itself is WebTunnels's.                             *)
(***************************************************************************)
EXTENDS Naturals, FiniteSets

CONSTANTS
    Rows,           \* rows of the list
    MaxOps          \* bound: actions the page awaits at a time

ActionsAssumption == IsFiniteSet(Rows) /\ MaxOps \in Nat \ {0}

VARIABLES ui, net, srv

vars == <<ui, net, srv>>

PortalAction == {"start", "stop", "restart"}

\* An action: the tunnels it is for and those it awaits.  Once the last one is
\* done the list is fetched, and `list` holds the answer.
Op == [ids : SUBSET Rows, left : SUBSET Rows, action : PortalAction,
       list : SUBSET SUBSET Rows]

\* The rows that are shown as running, those that are busy, those picked.
Page == [running : SUBSET Rows, busy : SUBSET Rows, picked : SUBSET Rows]

TypeOK == ui \in Page /\ net \subseteq Op /\ srv \subseteq Rows

Init ==
    /\ srv \in SUBSET Rows
    /\ ui = [running |-> srv, busy |-> {}, picked |-> {}]
    /\ net = {}

\* The rows of a list: what is shown may lag behind.
Select(rows) ==
    /\ ui.picked # rows
    /\ ui' = [ui EXCEPT !.picked = rows] /\ UNCHANGED <<net, srv>>

Begins(ids, a) ==
    /\ ids # {} /\ Cardinality(net) < MaxOps
    /\ net' = net \cup
                {[ids |-> ids, left |-> ids, action |-> a, list |-> {}]}
    /\ ui' = [ui EXCEPT !.busy = @ \cup ids] /\ UNCHANGED srv

\* The buttons of a row.
RowActions(r, a) ==
    /\ r \notin ui.busy
    /\ a \in IF r \in ui.running THEN {"stop", "restart"} ELSE {"start"}

RunAction(r, a) == RowActions(r, a) /\ Begins({r}, a)

BulkActions == ui.picked # {}

RunBatchAction(a) ==
    /\ BulkActions
    /\ Begins(IF a = "start" THEN ui.picked \ ui.running
              ELSE ui.picked \cap ui.running, a)

\* Mutant: it is the rows picked by now that are marked no longer.
UnmarkPicked(op, u) == [u EXCEPT !.busy = @ \ u.picked]

\* markBusy(id, false) of each.
Unmark(op, u) == [u EXCEPT !.busy = @ \ op.ids]

\* A tunnel is done; after the last one the list is fetched.
ActionReturns(op, r) ==
    /\ srv' = IF op.action = "stop" THEN srv \ {r} ELSE srv \cup {r}
    /\ net' = (net \ {op}) \cup
                {[op EXCEPT !.left = @ \ {r},
                            !.list = IF op.left = {r} THEN {srv'} ELSE {}]}
    /\ UNCHANGED ui

\* The page waits no longer, and fetches nothing: what is left is carried
\* out, or not, unseen.
ActionFails(op) ==
    /\ op.left # {}
    /\ net' = net \ {op} /\ ui' = Unmark(op, ui)
    /\ \E done \in SUBSET op.left :
          srv' = IF op.action = "stop" THEN srv \ done ELSE srv \cup done

\* The list is shown, though a later one may have been before.
ActionEnds(op) ==
    /\ net' = net \ {op}
    /\ \E list \in op.list : ui' = Unmark(op, [ui EXCEPT !.running = list])
    /\ UNCHANGED srv

\* The timer of 15 s.
Poll ==
    /\ ui.running # srv
    /\ ui' = [ui EXCEPT !.running = srv] /\ UNCHANGED <<net, srv>>

Next ==
    \/ Poll
    \/ \E rows \in SUBSET Rows : Select(rows)
    \/ \E r \in Rows, a \in PortalAction : RunAction(r, a)
    \/ \E a \in PortalAction : RunBatchAction(a)
    \/ \E op \in net : \/ ActionFails(op) \/ ActionEnds(op)
                       \/ \E r \in op.left : ActionReturns(op, r)

Spec == Init /\ [][Next]_vars

-----------------------------------------------------------------------------
\* Rows are busy for actions that overlap and fail in part: none stays so
\* after the last action it is part of has ended.
BusyEnds == ui.busy \subseteq UNION {op.ids : op \in net}
=============================================================================
