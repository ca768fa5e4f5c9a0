--------------------------- MODULE WebEndpointData ---------------------------
(***************************************************************************)
(* What the page of a node shows and does of its instances: the list, the  *)
(* statistics, clearing the logs, and the backup of Portals to a file and  *)
(* back (src/web/src/pages/endpoints/details/index.tsx).                   *)
(*                                                                         *)
(* ui is what the page holds, net the lists that are on their way to the   *)
(* backup's modal, srv the Portals the node runs.  Picks are positions in  *)
(* the list the modal shows.                                               *)
(***************************************************************************)
EXTENDS Naturals, FiniteSets, Sequences, Functions

CONSTANTS Insts

InstsAssumption == IsFiniteSet(Insts)

VARIABLES ui, net, srv

vars == <<ui, net, srv>>

Lists == UNION {{l \in [1 .. n -> Insts] : IsInjective(l)} :
                n \in 0 .. Cardinality(Insts)}

Modals == {"none", "backup", "restore", "logs", "uninstall"}

Page == [loading : SUBSET {"stats", "instances"}, modal : Modals,
         envelope : Lists, picked : SUBSET (1 .. Cardinality(Insts)),
         spinning : BOOLEAN,
         restore : {"pick", "file", "importing", "result"}]

TypeOK ==
    /\ ui \in Page
    /\ net \subseteq Lists
    /\ srv \in SUBSET Insts

\* The effect that runs once fetches both.
Init ==
    /\ ui = [loading |-> {"stats", "instances"}, modal |-> "none",
             envelope |-> << >>, picked |-> {}, spinning |-> FALSE,
             restore |-> "pick"]
    /\ net = {}
    /\ srv \in SUBSET Insts

\* The modals.  One that opens over another is left out.
LogsModal == ui.modal = "logs"
BackupModal == ui.modal = "backup"
MayPick == BackupModal /\ ~ui.spinning
RestoreModal == ui.modal = "restore"

Awaiting(part) == [ui EXCEPT !.loading = @ \cup {part}]

RefreshAll ==
    /\ ui.modal = "none" /\ ui.loading = {}
    /\ ui' = [ui EXCEPT !.loading = {"stats", "instances"}]
    /\ UNCHANGED <<net, srv>>

\* "refresTunnel" is awaited before the list is asked for.
RefreshTunnels ==
    /\ ui.modal = "none"
    /\ ui' = Awaiting("instances") /\ UNCHANGED <<net, srv>>

InstancesReturn ==
    /\ "instances" \in ui.loading
    /\ ui' = [ui EXCEPT !.loading = @ \ {"instances"}]
    /\ UNCHANGED <<net, srv>>

StatsReturn ==
    /\ "stats" \in ui.loading
    /\ ui' = [ui EXCEPT !.loading = @ \ {"stats"}] /\ UNCHANGED <<net, srv>>

ClearLogs ==
    /\ LogsModal
    /\ ui' = [Awaiting("stats") EXCEPT !.modal = "none"]
    /\ UNCHANGED <<net, srv>>

OpenModal ==
    /\ ui.modal = "none"
    /\ \/ \E m \in {"logs", "uninstall"} : ui' = [ui EXCEPT !.modal = m]
       \/ ui' = [ui EXCEPT !.modal = "restore",
                    !.restore = IF @ = "importing" THEN @ ELSE "pick"]
    /\ UNCHANGED <<net, srv>>

\* A request of the modal's goes on without it.
CloseModal ==
    /\ ui.modal # "none"
    /\ ui' = [ui EXCEPT !.modal = "none"] /\ UNCHANGED <<net, srv>>

-----------------------------------------------------------------------------
(* Backup. *)

\* Opened again before the first answer is there, two are under way.  The
\* server lists the Portals in an order of its own.
OpenBackup ==
    /\ ui.modal = "none" /\ Cardinality(net) < 2
    /\ ui' = [ui EXCEPT !.modal = "backup", !.envelope = << >>,
                        !.picked = {}, !.spinning = TRUE]
    /\ \E l \in Lists : Range(l) = srv /\ net' = net \cup {l}
    /\ UNCHANGED srv

\* Mutant: the picks of an earlier answer are kept.
BackupKeepsPicks(l) ==
    [ui EXCEPT !.spinning = FALSE, !.envelope = l,
               !.picked = IF @ = {} THEN 1 .. Len(l) ELSE @]

BackupShown(l) ==
    [ui EXCEPT !.spinning = FALSE, !.envelope = l,
               !.picked = 1 .. Len(l)]

\* onBackupOpenChange of the render in which the modal was closed opens it:
\* a failure leaves an empty modal.
BackupReturn ==
    /\ \E l \in net :
          /\ net' = net \ {l}
          /\ \/ ui' = BackupShown(l)
             \/ ui' = [ui EXCEPT !.spinning = FALSE,
                         !.modal = IF @ = "none" THEN "backup" ELSE @]
    /\ UNCHANGED srv

ToggleBackup ==
    /\ MayPick
    /\ \E i \in 1 .. Len(ui.envelope) :
          ui' = [ui EXCEPT !.picked = IF i \in @ THEN @ \ {i}
                                      ELSE @ \cup {i}]
    /\ UNCHANGED <<net, srv>>

ToggleBackupAll ==
    /\ MayPick /\ Len(ui.envelope) > 0
    /\ ui' = [ui EXCEPT !.picked =
                 IF Cardinality(@) = Len(ui.envelope) THEN {}
                 ELSE 1 .. Len(ui.envelope)]
    /\ UNCHANGED <<net, srv>>

\* The file holds what is picked of the list.
ConfirmBackup ==
    /\ MayPick /\ ui.picked # {}
    /\ ui' = [ui EXCEPT !.modal = "none"] /\ UNCHANGED <<net, srv>>

-----------------------------------------------------------------------------
(* Restore: pick, importing, result. *)

PickFile ==
    /\ RestoreModal /\ ui.restore # "importing"
    /\ ui' = [ui EXCEPT !.restore = IF @ = "result" THEN "pick" ELSE "file"]
    /\ UNCHANGED <<net, srv>>

\* A file that is no backup of Portals is refused before anything is sent.
SubmitRestore ==
    /\ RestoreModal /\ ui.restore = "file"
    /\ ui' = [ui EXCEPT !.restore = "importing"] /\ UNCHANGED <<net, srv>>

\* Some instances are imported, others are skipped or fail.
RestoreReturn ==
    /\ ui.restore = "importing"
    /\ \/ /\ srv' \in {s \in SUBSET Insts : srv \subseteq s}
          /\ ui' = [Awaiting("instances") EXCEPT !.restore = "result"]
       \/ /\ \E r \in {"pick", "file"} : ui' = [ui EXCEPT !.restore = r]
          /\ UNCHANGED srv
    /\ UNCHANGED net

\* Portals come and go meanwhile.
Meanwhile ==
    /\ \E i \in Insts : srv' = IF i \in srv THEN srv \ {i} ELSE srv \cup {i}
    /\ UNCHANGED <<ui, net>>

Next ==
    \/ RefreshAll \/ RefreshTunnels \/ InstancesReturn \/ StatsReturn
    \/ ClearLogs \/ OpenModal \/ CloseModal
    \/ OpenBackup \/ BackupReturn \/ ToggleBackup \/ ToggleBackupAll
    \/ ConfirmBackup \/ PickFile \/ SubmitRestore \/ RestoreReturn
    \/ Meanwhile

Spec == Init /\ [][Next]_vars

-----------------------------------------------------------------------------
\* Picks are positions, and a second answer may replace the list they point
\* into: what is picked is always something the modal shows, so no answer
\* turns a pick into another Portal or into nothing.
PicksAreShown ==
    /\ ui.picked \subseteq 1 .. Len(ui.envelope)
    /\ ui.spinning => ui.picked = {}
=============================================================================
