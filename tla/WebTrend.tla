-------------------------------- MODULE WebTrend --------------------------------
(***************************************************************************)
(* The history charts of a tunnel's page: the hook that fetches them and   *)
(* fetches them anew every 15 s (src/web/src/lib/hooks/                    *)
(* use-metrics-trend.ts) and the page's use of it                          *)
(* (pages/tunnels/details/index.tsx).                                      *)
(*                                                                         *)
(* A series is the version of it that the server answered with.  The page  *)
(* knows the tunnel's instance once its detail has arrived, and another    *)
(* one when the tunnel was created anew.                                   *)
(***************************************************************************)
EXTENDS Naturals, FiniteSets

CONSTANTS
    Insts,          \* the tunnel's instances
    MaxVersion,     \* bound on the versions of a series
    MaxAsked,       \* bound on the requests on their way
    None            \* nothing

TrendAssumption ==
    None \notin Insts /\ MaxVersion \in Nat /\ MaxAsked \in Nat

VARIABLES ui, net, srv

vars == <<ui, net, srv>>

Series == [inst : Insts, version : 0 .. MaxVersion]

\* A request and, once the server has served it, the answer.  quiet: it does
\* not show that it is loading.
Request == [inst : Insts, quiet : BOOLEAN,
            answer : 0 .. MaxVersion \cup {None}]

Page == [here : BOOLEAN, inst : Insts \cup {None}, timer : BOOLEAN,
         data : Series \cup {None}, loading : BOOLEAN, error : BOOLEAN]

TypeOK ==
    /\ ui \in Page
    /\ net \subseteq Request
    /\ srv \in 0 .. MaxVersion

Init ==
    /\ ui = [here |-> TRUE, inst |-> None, timer |-> FALSE, data |-> None,
             loading |-> FALSE, error |-> FALSE]
    /\ net = {} /\ srv = 0

-----------------------------------------------------------------------------
(* Asking. *)

\* Mutant: the request before is not aborted.
NoneAborted == {}

\* abortControllerRef: what is on its way when another request is made.
Aborted == net

\* The aborted request's finally ends the loading that the new one has begun.
Loading(quiet) ==
    IF \E r \in Aborted : ~r.quiet THEN FALSE ELSE ui.loading \/ ~quiet

\* fetchTrendData
Fetch(inst, quiet) ==
    /\ Cardinality(net \ Aborted) < MaxAsked
    /\ net' = (net \ Aborted)
              \cup {[inst |-> inst, quiet |-> quiet, answer |-> None]}
    /\ ui' = [ui EXCEPT !.inst = inst, !.timer = TRUE, !.error = FALSE,
                        !.loading = Loading(quiet)]
    /\ UNCHANGED srv

\* The effects of a new instance: fetch it, and set the timer anew.
Show(i) ==
    /\ ui.here /\ i # ui.inst /\ Fetch(i, FALSE)

\* refresh: the button, and what follows an action.
Refresh == ui.here /\ ui.inst # None /\ Fetch(ui.inst, FALSE)

\* The timer polls without showing it.
Poll == ui.here /\ ui.timer /\ Fetch(ui.inst, TRUE)

\* The detail's answer names no instance any more.
ShowNothing ==
    /\ ui.here /\ ui.inst # None
    /\ ui' = [ui EXCEPT !.inst = None, !.timer = FALSE, !.data = None,
                        !.loading = FALSE, !.error = FALSE]
    /\ UNCHANGED <<net, srv>>

Unmount ==
    /\ ui.here
    /\ ui' = [ui EXCEPT !.here = FALSE, !.timer = FALSE] /\ net' = net \ Aborted
    /\ UNCHANGED srv

-----------------------------------------------------------------------------
(* Answers. *)

Serve(r) ==
    /\ r.answer = None
    /\ net' = (net \ {r}) \cup {[r EXCEPT !.answer = srv]}
    /\ UNCHANGED <<ui, srv>>

Returned(r, u) ==
    /\ net' = net \ {r}
    /\ ui' = IF ui.here THEN [u EXCEPT !.loading = @ /\ r.quiet] ELSE ui
    /\ UNCHANGED srv

Returns(r) ==
    /\ r.answer # None
    /\ Returned(r, [ui EXCEPT !.data = [inst |-> r.inst, version |-> r.answer]])

\* What is shown stays.
Fails(r) == Returned(r, [ui EXCEPT !.error = TRUE])

\* The server samples.
Sample == srv < MaxVersion /\ srv' = srv + 1 /\ UNCHANGED <<ui, net>>

Next ==
    \/ Refresh \/ Poll \/ ShowNothing \/ Unmount \/ Sample
    \/ \E i \in Insts : Show(i)
    \/ \E r \in net : Serve(r) \/ Returns(r) \/ Fails(r)

Spec == Init /\ [][Next]_vars

-----------------------------------------------------------------------------
\* Of a step: polls, refreshes and changes of the instance overlap: the charts of an
\* instance never go back to an older series than the one they show.
NeverOlder ==
    ui.data # None /\ ui'.data # None /\ ui'.data.inst = ui.data.inst
    => ui'.data.version >= ui.data.version
=============================================================================
