---------------------------- MODULE WebTunnelDetails ----------------------------
(***************************************************************************)
(* The page of one tunnel (src/web/src/pages/tunnels/details/index.tsx):   *)
(* the detail, which is fetched anew every 15 s, and the requests that     *)
(* change the tunnel, of which those of different kinds overlap.           *)
(*                                                                         *)
(* ui is what the page holds, net the details on their way and the requests *)
(* that the server has carried out, srv the tunnel.  The log is            *)
(* WebLogPanel's part, the charts are WebTrend's, the form                 *)
(* WebTunnelForm's.                                                        *)
(***************************************************************************)
EXTENDS Naturals, FiniteSets

CONSTANTS
    None            \* nothing is shown

VARIABLES ui, net, srv

vars == <<ui, net, srv>>

Actions == {"start", "stop", "restart"}
\* panel: the form, the tags, the QR code or a chart in full.
Modals == {"none", "panel", "reset", "delete"}

\* A detail: is the tunnel running, is it restarted automatically.
Detail == [running : BOOLEAN, restart : BOOLEAN]

Kinds == {"action", "restart", "reset", "delete"}

\* asked: actionPending, updatingRestart, resetting and deleting; action and
\* restart: what was asked for last.  crossed: what is shown or on its way may
\* be of before a change, which no code keeps.
Page == [here : BOOLEAN, detail : Detail \cup {None}, loading : BOOLEAN,
         modal : Modals, asked : SUBSET Kinds, action : Actions,
         restart : BOOLEAN, crossed : BOOLEAN]

TypeOK ==
    /\ ui \in Page
    /\ net \in [details : SUBSET Detail, done : SUBSET Kinds]
    /\ srv \in [tunnel : Detail, gone : BOOLEAN]

\* The effect fetches the detail.
Init ==
    /\ srv \in [tunnel : Detail, gone : {FALSE}]
    /\ ui = [here |-> TRUE, detail |-> None, loading |-> TRUE,
             modal |-> "none", asked |-> {}, action |-> "start",
             restart |-> FALSE, crossed |-> FALSE]
    /\ net = [details |-> {srv.tunnel}, done |-> {}]

-----------------------------------------------------------------------------
(* The detail. *)

FetchingDetail == net.details \cup {srv.tunnel}

\* A fetch brings what is true, and no other answer comes after it if none is
\* on its way.
Fetched(panel) ==
    [panel EXCEPT !.crossed = @ /\ (net.details # {} \/ panel.asked # {})]

\* The timer, a saved form and the button ask quietly: only the first answer
\* is waited for without a page.
FetchQuietly ==
    /\ ui.here /\ ui' = Fetched(ui)
    /\ net' = [net EXCEPT !.details = FetchingDetail] /\ UNCHANGED srv

\* Two fetches may bring the same detail.
Brought(d) == net' = net \/ net' = [net EXCEPT !.details = @ \ {d}]

\* Answers come in any order, and the last one to come is shown.
DetailReturns(d) ==
    /\ Brought(d)
    /\ ui' = IF ui.here THEN [ui EXCEPT !.detail = d, !.loading = FALSE]
             ELSE ui
    /\ UNCHANGED srv

\* A failure is a toast: what is shown stays.
DetailFails(d) ==
    /\ Brought(d)
    /\ ui' = [ui EXCEPT !.loading = FALSE, !.crossed = TRUE] /\ UNCHANGED srv

Spinner == ui.loading
NoDetail == ~ui.loading /\ ui.detail = None
Body == ui.here /\ ~Spinner /\ ~NoDetail
Plain == Body /\ ui.modal = "none"

OpenModal(m) ==
    /\ Plain
    /\ ui' = [ui EXCEPT !.modal = m] /\ UNCHANGED <<net, srv>>

CloseModal ==
    /\ ui.modal # "none"
    /\ ui' = [ui EXCEPT !.modal = "none"] /\ UNCHANGED <<net, srv>>

Left(panel) ==
    [panel EXCEPT !.here = FALSE, !.modal = "none", !.detail = None]

Leave ==
    /\ ui.here /\ ui' = Left(ui) /\ UNCHANGED <<net, srv>>

-----------------------------------------------------------------------------
(* Requests, of which one of each kind is under way at a time.  A modal may *)
(* be closed over its own.                                                  *)

MayAsk(k) == Body /\ k \notin ui.asked

\* runAction does nothing while another action is under way.
RunAction(a) ==
    /\ Plain /\ MayAsk("action")
    /\ a = (IF ui.detail.running THEN "stop" ELSE "start")
          \/ (a = "restart" /\ ui.detail.running)
    /\ ui' = [ui EXCEPT !.asked = @ \cup {"action"}, !.action = a]
    /\ UNCHANGED <<net, srv>>

UpdateRestart ==
    /\ Plain /\ MayAsk("restart")
    /\ ui' = [ui EXCEPT !.asked = @ \cup {"restart"},
                        !.restart = ~ui.detail.restart]
    /\ UNCHANGED <<net, srv>>

ConfirmReset ==
    /\ ui.modal = "reset" /\ MayAsk("reset")
    /\ ui' = [ui EXCEPT !.asked = @ \cup {"reset"}] /\ UNCHANGED <<net, srv>>

ConfirmDelete ==
    /\ ui.modal = "delete" /\ MayAsk("delete")
    /\ ui' = [ui EXCEPT !.asked = @ \cup {"delete"}] /\ UNCHANGED <<net, srv>>

\* The server does what it is asked for; a detail on its way is of before.
Carry(k) ==
    /\ k \in ui.asked \ net.done /\ ~srv.gone
    /\ srv' = [tunnel |->
                  [running |-> IF k = "action" THEN ui.action # "stop"
                               ELSE srv.tunnel.running,
                   restart |-> IF k = "restart" THEN ui.restart
                               ELSE srv.tunnel.restart],
               gone |-> k = "delete"]
    /\ net' = [net EXCEPT !.done = @ \cup {k}]
    /\ ui' = [ui EXCEPT !.crossed = @ \/ net.details # {}]

\* Events and other users change the tunnel, too.
Elsewhere ==
    /\ srv' \in [tunnel : Detail, gone : {srv.gone}]
    /\ ui' = [ui EXCEPT !.crossed = TRUE] /\ UNCHANGED net

\* The flag is taken back, with what was asked for.
Ended(k) ==
    [ui EXCEPT !.asked = @ \ {k},
               !.action = IF k = "action" THEN "start" ELSE @,
               !.restart = @ /\ k # "restart"]

\* What failed may have been done.
RequestFails(k) ==
    /\ k \in ui.asked
    /\ ui' = [Ended(k) EXCEPT !.crossed = @ \/ k \in net.done]
    /\ net' = [net EXCEPT !.done = @ \ {k}] /\ UNCHANGED srv

Answered(k, details) ==
    /\ k \in net.done /\ UNCHANGED srv
    /\ net' = [details |-> details, done |-> net.done \ {k}]

\* The detail is fetched after it; the button does not wait for it here, as
\* it does in the code.
ActionReturns ==
    /\ Answered("action", FetchingDetail)
    /\ ui' = Fetched(Ended("action"))

\* Mutant: the switch is turned from what it shows by now.
TurnedByNow == [ui.detail EXCEPT !.restart = ~@]

Turned == [ui.detail EXCEPT !.restart = ui.restart]

\* The page sets what it sent, and fetches nothing.
RestartReturns ==
    /\ Answered("restart", net.details)
    /\ ui' = [Ended("restart") EXCEPT !.detail = IF @ = None THEN None
                                                ELSE Turned]

ResetReturns ==
    /\ Answered("reset", FetchingDetail)
    /\ ui' = Fetched([Ended("reset") EXCEPT
                         !.modal = IF @ = "reset" THEN "none" ELSE @])

\* The page leaves for the list.
DeleteReturns ==
    /\ Answered("delete", net.details)
    /\ ui' = Left(Ended("delete"))

Next ==
    \/ FetchQuietly \/ CloseModal \/ Leave \/ Elsewhere
    \/ \E d \in net.details : DetailReturns(d) \/ DetailFails(d)
    \/ \E m \in Modals \ {"none"} : OpenModal(m)
    \/ \E a \in Actions : RunAction(a)
    \/ UpdateRestart \/ ConfirmReset \/ ConfirmDelete
    \/ \E k \in Kinds : Carry(k) \/ RequestFails(k)
    \/ ActionReturns \/ RestartReturns \/ ResetReturns \/ DeleteReturns

Spec == Init /\ [][Next]_vars

-----------------------------------------------------------------------------
\* Polls overlap with the requests of four buttons, one of which sets what it
\* sent instead of fetching.  At rest the page shows the tunnel as it is -
\* unless a detail was under way across a change, a request that was carried
\* out is said to have failed, a fetch failed, or the tunnel was changed
\* elsewhere, which the next poll makes good.
RestsOnTunnel ==
    ui.here /\ ui.detail # None /\ net.details = {} /\ ui.asked = {}
    /\ ~ui.crossed
    => ui.detail = srv.tunnel
=============================================================================
