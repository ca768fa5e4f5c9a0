------------------------------ MODULE WebLogPanel ------------------------------
(***************************************************************************)
(* The log on the page of a tunnel                                         *)
(* (src/web/src/pages/tunnels/details/index.tsx): the lines of a day's     *)
(* file (src/web/src/components/ui/file-log-viewer.tsx) or, live, those of *)
(* a stream.                                                               *)
(*                                                                         *)
(* ui is what the panel holds, net how many fetches of each day's file are *)
(* under way, srv whether the server has the file of a day.                *)
(***************************************************************************)
EXTENDS Naturals, FiniteSets

CONSTANTS
    Dates,          \* days there may be log files of
    Today,          \* one of them
    MaxFetches      \* bound: fetches of one day's file under way

DatesAssumption == Today \in Dates /\ MaxFetches \in Nat

VARIABLES ui, net, srv

vars == <<ui, net, srv>>

\* shown: lines of a day's file, of the stream, or nothing.  refreshed: the
\* counter of refreshes is not zero.  crossed: when the last fetch began, one
\* of another day was under way, which no code keeps.
Page == [here : BOOLEAN, date : Dates, live : BOOLEAN,
         shown : Dates \cup {"live", "empty"}, loading : BOOLEAN,
         clearing : BOOLEAN, popover : BOOLEAN, refreshed : BOOLEAN,
         crossed : BOOLEAN]

TypeOK ==
    /\ ui \in Page
    /\ net \in [Dates -> Nat]
    /\ srv \subseteq Dates

\* The panel asks for the file of today.
Init ==
    /\ srv \in SUBSET Dates
    /\ ui = [here |-> TRUE, date |-> Today, live |-> FALSE,
             shown |-> "empty", loading |-> TRUE, clearing |-> FALSE,
             popover |-> FALSE, refreshed |-> FALSE, crossed |-> FALSE]
    /\ net = [d \in Dates |-> IF d = Today THEN 1 ELSE 0]

Toolbar == ui.here /\ ~ui.popover

Asked(panel, date) ==
    [panel EXCEPT !.date = date, !.loading = TRUE,
                  !.crossed = \E d \in Dates : d # date /\ net[d] > 0]

\* fetchFileLogs of the date it is rendered with, n times; nothing aborts the
\* fetch before it.
FetchFileLogs(panel, date, n) ==
    /\ net[date] + n <= MaxFetches
    /\ ui' = Asked(panel, date)
    /\ net' = [net EXCEPT ![date] = @ + n] /\ UNCHANGED srv

\* A new date is fetched by one effect and, after the first refresh, by the
\* other one as well.  The date and the button are disabled in live mode.
PickDate(d) ==
    /\ Toolbar /\ ~ui.live /\ d # ui.date
    /\ FetchFileLogs(ui, d, IF ui.refreshed THEN 2 ELSE 1)

RefreshLog ==
    /\ Toolbar /\ ~ui.live /\ ~ui.loading
    /\ FetchFileLogs([ui EXCEPT !.refreshed = TRUE], ui.date, 1)

Answered(d) == net[d] > 0 /\ net' = [net EXCEPT ![d] = @ - 1]

\* The first of two answers ends the loading; an answer in live mode
\* overwrites what came live.
LogReturns(d) ==
    /\ Answered(d) /\ UNCHANGED srv
    /\ ui' = IF ui.here
             THEN [ui EXCEPT !.loading = FALSE,
                             !.shown = IF d \in srv THEN d ELSE "empty"]
             ELSE ui

LogFails(d) ==
    /\ Answered(d) /\ UNCHANGED srv
    /\ ui' = IF ui.here
             THEN [ui EXCEPT !.loading = FALSE, !.shown = "empty"] ELSE ui

\* The display is cleared, and the stream opened.
LiveOn ==
    /\ Toolbar /\ ~ui.live
    /\ ui' = [ui EXCEPT !.live = TRUE, !.shown = "empty"]
    /\ UNCHANGED <<net, srv>>

\* Mutant: a new date alone fetches the file.
LiveOffByDate ==
    /\ Toolbar /\ ui.live
    /\ IF ui.date = Today
       THEN ui' = [ui EXCEPT !.live = FALSE] /\ UNCHANGED <<net, srv>>
       ELSE FetchFileLogs([ui EXCEPT !.live = FALSE], Today, 1)

\* Back to the file of today, which counts as a refresh: it is asked for even
\* if the date stays, and twice if it does not.
LiveOff ==
    /\ Toolbar /\ ui.live
    /\ FetchFileLogs([ui EXCEPT !.live = FALSE, !.refreshed = TRUE], Today,
                     IF ui.date = Today THEN 1 ELSE 2)

\* A line of the stream.
AppendLog ==
    /\ ui.here /\ ui.live
    /\ ui' = [ui EXCEPT !.shown = "live"] /\ UNCHANGED <<net, srv>>

\* What is exported are the lines that are shown.
ExportLogs == Toolbar /\ ~ui.live /\ ui.shown # "empty" /\ UNCHANGED vars

OpenClear ==
    /\ Toolbar /\ ~ui.clearing
    /\ ui' = [ui EXCEPT !.popover = TRUE] /\ UNCHANGED <<net, srv>>

\* Live, the display is cleared; otherwise every file is to be deleted.
ClearLogs ==
    /\ ui.here /\ ui.popover
    /\ \/ ui' = [ui EXCEPT !.popover = FALSE]
       \/ ui' = IF ui.live
                THEN [ui EXCEPT !.popover = FALSE, !.shown = "empty"]
                ELSE [ui EXCEPT !.popover = FALSE, !.clearing = TRUE]
    /\ UNCHANGED <<net, srv>>

ClearReturns ==
    /\ ui.clearing
    /\ \/ ui' = [ui EXCEPT !.clearing = FALSE] /\ UNCHANGED srv
       \/ /\ ui' = [ui EXCEPT !.clearing = FALSE, !.shown = "empty"]
          /\ srv' = {}
    /\ UNCHANGED net

\* The tunnel logs, today.
Logs ==
    /\ srv' = srv \cup {Today} /\ UNCHANGED <<ui, net>>

Leave ==
    /\ ui.here
    /\ ui' = [ui EXCEPT !.here = FALSE, !.popover = FALSE, !.live = FALSE]
    /\ UNCHANGED <<net, srv>>

Next ==
    \/ \E d \in Dates : PickDate(d) \/ LogReturns(d) \/ LogFails(d)
    \/ RefreshLog \/ LiveOn \/ LiveOff \/ AppendLog \/ ExportLogs
    \/ OpenClear \/ ClearLogs \/ ClearReturns \/ Logs \/ Leave

Spec == Init /\ [][Next]_vars

-----------------------------------------------------------------------------
\* The log's mode, its date and its fetches change in any order, and one
\* change may fetch twice.  At rest the log shows the day that is chosen, or
\* nothing - unless the fetch of that day began while one of another day was
\* under way, which nothing keeps apart.
RestsOnFile ==
    ui.here /\ ~ui.live /\ (\A d \in Dates : net[d] = 0) /\ ~ui.crossed
    => ui.shown \in {ui.date, "empty"}
=============================================================================
