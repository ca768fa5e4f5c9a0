-------------------------------- MODULE WebUpdate --------------------------------
(***************************************************************************)
(* The program's update of itself, as a tab of the browser sees it: the    *)
(* chip beside the logo (src/web/src/components/layout/update-chip.tsx),   *)
(* the version card of the settings (components/settings/                  *)
(* version-settings.tsx) and what they ask of internal/api/version.go.     *)
(*                                                                         *)
(* Of an update only its end is modelled: the new file is in place, or the *)
(* update failed; what it tells meanwhile and the localStorage that keeps  *)
(* the last finding are left out.  The old process has a newer release,    *)
(* the new one none, and the program is started once more.                 *)
(***************************************************************************)
EXTENDS Naturals, FiniteSets

CONSTANTS
    Flows,          \* the updates that the tab asks for
    MaxAsked,       \* bound on the requests on their way
    Countdown,      \* COUNTDOWN_SECONDS, both of them
    None            \* no answer yet, no countdown

UpdateAssumption ==
    /\ MaxAsked \in Nat /\ Countdown \in Nat \ {0} /\ None \notin Nat

VARIABLES ui, net, srv

vars == <<ui, net, srv>>

Views == {"chip", "card"}
Timer == 0 .. Countdown \cup {None}

\* A request, who made it, and its answer: yes is a pending restart, or a
\* newer release.  A flow is handleUpdate's, or performAutoUpdate's.
Request == [op : {"current", "releases", "update", "restart"},
            by : {"mount", "check", "card", "probe", "chip"} \cup Flows,
            answer : {None, "yes", "no", "failed"}]

Chip == [here : BOOLEAN, auto : BOOLEAN, checking : BOOLEAN, timer : Timer,
         state : {"idle", "has-update", "updating", "update-complete",
                  "restarting", "error"}]
Card == [here : BOOLEAN, newer : BOOLEAN, checking : BOOLEAN,
         updating : BOOLEAN, pending : BOOLEAN, timer : Timer]

\* A flow is waiting between two polls.  loaded: the process that was running
\* when the tab was loaded; the code does not keep it.
Page == [chip : Chip, card : Card, loaded : 0 .. 1,
         flow : [Flows -> [of : Views, step : {"none", "asked", "waiting",
                                              "polling", "over"}]]]

\* srv.run is 0 in the old process and 1 in the new one.
TypeOK ==
    /\ ui \in Page /\ net \subseteq Request
    /\ srv \in [run : 0 .. 1, up : BOOLEAN, pending : BOOLEAN,
                exiting : BOOLEAN, updates : SUBSET Flows]

NoFlow == [of |-> "chip", step |-> "none"]
NoChip == [here |-> TRUE, auto |-> TRUE, checking |-> FALSE, timer |-> None,
           state |-> "idle"]
NoCard == [here |-> FALSE, newer |-> FALSE, checking |-> FALSE,
           updating |-> FALSE, pending |-> FALSE, timer |-> None]

Asks(op, by) == [op |-> op, by |-> by, answer |-> None]

Init ==
    /\ ui = [chip |-> NoChip, card |-> NoCard, loaded |-> 0,
             flow |-> [f \in Flows |-> NoFlow]]
    /\ net = {Asks("current", "mount")}
    /\ srv = [run |-> 0, up |-> TRUE, pending |-> FALSE, exiting |-> FALSE,
              updates |-> {}]

ChipIs(f) == ui' = [ui EXCEPT !.chip = f]
Found(answer) == IF answer = "yes" THEN "has-update" ELSE "idle"

-----------------------------------------------------------------------------
(* The chip. *)

\* The mount's effect.  localStorage may know of a newer release, and the
\* day's first visit asks for one.
MountReturns(r) ==
    /\ r.by = "mount" /\ r.op = "current" /\ r.answer # None
    /\ IF r.answer = "yes"
       THEN /\ ChipIs([ui.chip EXCEPT !.state = "update-complete"])
            /\ net' = net \ {r}
       ELSE /\ \/ UNCHANGED ui
               \/ /\ r.answer = "no"
                  /\ \E found \in {"has-update", "idle"} :
                        ChipIs([ui.chip EXCEPT !.state = found])
            /\ \/ net' = net \ {r}
               \/ /\ ui.chip.auto
                  /\ net' = (net \ {r}) \cup {Asks("releases", "mount")}
    /\ UNCHANGED srv

MountFound(r) ==
    /\ r.by = "mount" /\ r.op = "releases" /\ r.answer # None
    /\ ui' = IF r.answer = "failed" THEN ui
             ELSE [ui EXCEPT !.chip.state = Found(r.answer)]
    /\ net' = net \ {r} /\ UNCHANGED srv

PendingRestart == ui.chip.state \in {"update-complete", "restarting"}
ShowChip == /\ ui.chip.here /\ ui.chip.state # "idle"
            /\ ui.chip.auto \/ PendingRestart

\* runCheck, by the panel's button.
RunCheck ==
    /\ ShowChip /\ ~ui.chip.checking
    /\ ChipIs([ui.chip EXCEPT !.checking = TRUE])
    /\ net' = net \cup {Asks("current", "check")} /\ UNCHANGED srv

CheckReturns(r) ==
    /\ r.by = "check" /\ r.op = "current" /\ r.answer # None
    /\ IF r.answer = "yes"
       THEN /\ ChipIs([ui.chip EXCEPT !.state = "update-complete",
                                      !.checking = FALSE])
            /\ net' = net \ {r}
       ELSE /\ net' = (net \ {r}) \cup {Asks("releases", "check")}
            /\ UNCHANGED ui
    /\ UNCHANGED srv

\* Whatever the chip has come to meanwhile.
CheckFound(r) ==
    /\ r.by = "check" /\ r.op = "releases" /\ r.answer # None
    /\ ui' = IF r.answer = "failed"
             THEN [ui EXCEPT !.chip.checking = FALSE]
             ELSE [ui EXCEPT !.chip.checking = FALSE,
                             !.chip.state = Found(r.answer)]
    /\ net' = net \ {r} /\ UNCHANGED srv

OfChip == {"mount", "check"}

\* The sidebar is folded: its timer is cleared, its answers go nowhere.
ToggleChip ==
    /\ IF ui.chip.here
       THEN /\ ui' = [ui EXCEPT
                         !.chip = [NoChip EXCEPT !.here = FALSE,
                                                 !.auto = ui.chip.auto],
                         !.flow = [f \in Flows |->
                             IF @[f].of = "chip" /\ @[f].step # "none"
                             THEN [@[f] EXCEPT !.step = "over"] ELSE @[f]]]
            /\ net' = {r \in net : r.by \notin OfChip}
       ELSE /\ ChipIs([ui.chip EXCEPT !.here = TRUE])
            /\ net' = net \cup {Asks("current", "mount")}
    /\ UNCHANGED srv

\* autoCheckUpdates is switched: the effect runs anew.
ToggleAuto ==
    /\ ChipIs([ui.chip EXCEPT !.auto = ~@])
    /\ net' = IF ui.chip.here
              THEN {r \in net : r.by # "mount"} \cup {Asks("current", "mount")}
              ELSE net
    /\ UNCHANGED srv

-----------------------------------------------------------------------------
(* The card. *)

OpenCard ==
    /\ ~ui.card.here
    /\ ui' = [ui EXCEPT !.card.here = TRUE]
    /\ net' = net \cup {Asks("current", "card")} /\ UNCHANGED srv

LeaveCard ==
    /\ ui.card.here
    /\ ui' = [ui EXCEPT !.card = NoCard,
                        !.flow = [f \in Flows |->
                            IF @[f].of = "card" /\ @[f].step # "none"
                            THEN [@[f] EXCEPT !.step = "over"] ELSE @[f]]]
    /\ net' = {r \in net : r.by # "card" \/ r.op = "restart"} /\ UNCHANGED srv

\* fetchVersionData and checkUpdate; loading hides the card.
CardReturns(r) ==
    /\ r.by = "card" /\ r.op \in {"current", "releases"} /\ r.answer # None
    /\ ui' = IF r.op = "current"
             THEN [ui EXCEPT !.card.pending = @ \/ r.answer = "yes"]
             ELSE [ui EXCEPT !.card.checking = FALSE,
                             !.card.newer = IF r.answer = "failed" THEN @
                                            ELSE r.answer = "yes"]
    /\ net' = net \ {r} /\ UNCHANGED srv

Loaded == /\ ui.card.here
          /\ ~\E r \in net : r.by = "card" /\ r.op = "current"

CheckUpdate ==
    /\ Loaded /\ ~ui.card.checking
    /\ ui' = [ui EXCEPT !.card.checking = TRUE]
    /\ net' = net \cup {Asks("releases", "card")} /\ UNCHANGED srv

-----------------------------------------------------------------------------
(* handleUpdate of the chip, performAutoUpdate of the card. *)

MayUpdate(v) ==
    \/ v = "chip" /\ ShowChip /\ ui.chip.state \in {"has-update", "error"}
    \/ /\ v = "card" /\ Loaded
       /\ ui.card.newer /\ ~ui.card.pending /\ ~ui.card.updating

Updating(u, v) == IF v = "chip" THEN [u EXCEPT !.chip.state = "updating"]
                  ELSE [u EXCEPT !.card.updating = TRUE]
Complete(u, v) == IF v = "chip" THEN [u EXCEPT !.chip.state = "update-complete"]
                  ELSE [u EXCEPT !.card.updating = FALSE, !.card.pending = TRUE]
Failed(u, v) == IF v = "chip" THEN [u EXCEPT !.chip.state = "error"]
                ELSE [u EXCEPT !.card.updating = FALSE]

HandleUpdate(v, f) ==
    /\ MayUpdate(v)
    /\ ui.flow[f].step = "none"
    /\ ui' = Updating([ui EXCEPT !.flow[f] = [of |-> v, step |-> "asked"]], v)
    /\ net' = net \cup {Asks("update", f)} /\ UNCHANGED srv

\* A flow whose view is gone changes nothing any more.
Step(f, u, step) ==
    ui' = IF ui.flow[f].step = "over" THEN ui
          ELSE [u EXCEPT !.flow[f].step = step]

UpdateReturns(r) ==
    /\ r.op = "update" /\ r.answer # None
    /\ IF r.answer = "failed"
       THEN Step(r.by, Failed(ui, ui.flow[r.by].of), "over")
       ELSE Step(r.by, ui, "waiting")
    /\ net' = net \ {r} /\ UNCHANGED srv

Poll(f) ==
    /\ ui.flow[f].step = "waiting"
    /\ ui' = [ui EXCEPT !.flow[f].step = "polling"]
    /\ net' = net \cup {Asks("current", f)} /\ UNCHANGED srv

\* The deadline, ten minutes or five.
GiveUp(f) ==
    /\ ui.flow[f].step = "waiting"
    /\ Step(f, Failed(ui, ui.flow[f].of), "over") /\ UNCHANGED <<net, srv>>

\* Mutant: any answer says that the update is over.
PollTakesAny(r) ==
    /\ r.op = "current" /\ r.by \in Flows /\ r.answer # None
    /\ IF r.answer # "failed"
       THEN Step(r.by, Complete(ui, ui.flow[r.by].of), "over")
       ELSE Step(r.by, ui, "waiting")
    /\ net' = net \ {r} /\ UNCHANGED srv

PollReturns(r) ==
    /\ r.op = "current" /\ r.by \in Flows /\ r.answer # None
    /\ IF r.answer = "yes"
       THEN Step(r.by, Complete(ui, ui.flow[r.by].of), "over")
       ELSE Step(r.by, ui, "waiting")
    /\ net' = net \ {r} /\ UNCHANGED srv

-----------------------------------------------------------------------------
(* The restart. *)

\* Either view; the chip's countdown goes on when a check shows it complete
\* again, and is begun anew.
StartCountdown(v) ==
    /\ \/ /\ v = "chip" /\ ShowChip /\ ui.chip.state = "update-complete"
          /\ ChipIs([ui.chip EXCEPT !.state = "restarting", !.timer = Countdown])
       \/ /\ v = "card" /\ Loaded /\ ui.card.pending /\ ui.card.timer = None
          /\ ui' = [ui EXCEPT !.card.timer = Countdown]
    /\ UNCHANGED <<net, srv>>

\* triggerRestart, when the countdown ends.
Tick(v) ==
    /\ ui[v].here /\ ui[v].timer \notin {None, 0}
    /\ ui' = [ui EXCEPT ![v].timer = @ - 1]
    /\ net' = IF ui'[v].timer = 0 THEN net \cup {Asks("restart", v)} ELSE net
    /\ UNCHANGED srv

\* Answered, refused or cut off alike: the tab waits for the server.
RestartReturns(r) ==
    /\ r.op = "restart" /\ r.answer # None
    /\ net' = (net \ {r}) \cup {Asks("current", "probe")} /\ UNCHANGED <<ui, srv>>

\* A tab whose reload finds nobody is reloaded again.
Reload ==
    /\ srv.up
    /\ ui' = [ui EXCEPT !.chip = [NoChip EXCEPT !.auto = ui.chip.auto],
                        !.card = NoCard, !.loaded = srv.run,
                        !.flow = [f \in Flows |->
                            IF @[f].step = "none" THEN NoFlow
                            ELSE [@[f] EXCEPT !.step = "over"]]]
    /\ net' = {Asks("current", "mount")} /\ UNCHANGED srv

\* The probe is answered; or it is not, and is made again, until the tab is
\* reloaded after 60 s at the latest.
ProbeReturns(r) ==
    /\ r.by = "probe" /\ r.answer # None
    /\ \/ Reload
       \/ /\ r.answer = "failed"
          /\ net' = (net \ {r}) \cup {Asks("current", "probe")}
          /\ UNCHANGED <<ui, srv>>

-----------------------------------------------------------------------------
(* The server. *)

YesNo(b) == IF b THEN "yes" ELSE "no"
Answer(r) ==
    CASE r.op = "current" -> YesNo(srv.pending)
      [] r.op = "releases" -> YesNo(srv.run = 0)
      [] r.op = "restart" -> YesNo(srv.pending)
      [] OTHER -> "yes"

\* HandleAutoUpdate answers first and updates then, HandleRestart answers
\* and exits 300 ms later, unless no update is pending.
Serve(r) ==
    /\ srv.up /\ r.answer = None
    /\ net' = (net \ {r}) \cup {[r EXCEPT !.answer = Answer(r)]}
    /\ srv' = CASE r.op = "update" -> [srv EXCEPT !.updates = @ \cup {r.by}]
                [] r.op = "restart" -> [srv EXCEPT !.exiting = @ \/ srv.pending]
                [] OTHER -> srv
    /\ UNCHANGED ui

\* The connection breaks, or the server answers with an error.
Fails(r) ==
    /\ r.answer = None
    /\ net' = (net \ {r}) \cup {[r EXCEPT !.answer = "failed"]}
    /\ UNCHANGED <<ui, srv>>

\* performUpdateWithLogs ends; markRestartPending.  No release is newer than
\* the new process.
UpdateEnds(f) ==
    /\ srv.up /\ f \in srv.updates
    /\ \E ok \in BOOLEAN :
          srv' = [srv EXCEPT !.updates = @ \ {f}, !.pending = @ \/ ok]
    /\ UNCHANGED <<ui, net>>

\* Another tab asks for an update, or for the restart.
UpdateElsewhere ==
    /\ srv.up /\ srv.run = 0 /\ ~srv.pending
    /\ srv' = [srv EXCEPT !.pending = TRUE] /\ UNCHANGED <<ui, net>>

RestartElsewhere ==
    /\ srv.up /\ srv.pending /\ ~srv.exiting
    /\ srv' = [srv EXCEPT !.exiting = TRUE] /\ UNCHANGED <<ui, net>>

Exit ==
    /\ srv.up /\ srv.exiting
    /\ srv' = [srv EXCEPT !.up = FALSE, !.updates = {}] /\ UNCHANGED <<ui, net>>

\* The supervisor starts the program again.
Start ==
    /\ ~srv.up /\ srv.run = 0
    /\ srv' = [run |-> 1, up |-> TRUE, pending |-> FALSE, exiting |-> FALSE,
               updates |-> {}]
    /\ UNCHANGED <<ui, net>>

Acts ==
    \/ RunCheck \/ ToggleChip \/ ToggleAuto
    \/ OpenCard \/ LeaveCard \/ CheckUpdate
    \/ \E v \in Views : StartCountdown(v) \/ Tick(v)
    \/ \E v \in Views, f \in Flows : HandleUpdate(v, f)
    \/ \E f \in Flows : Poll(f) \/ GiveUp(f) \/ UpdateEnds(f)
    \/ \E r \in net :
          \/ MountReturns(r) \/ MountFound(r) \/ CheckReturns(r) \/ CheckFound(r)
          \/ CardReturns(r) \/ UpdateReturns(r) \/ PollReturns(r)
          \/ RestartReturns(r) \/ ProbeReturns(r) \/ Serve(r) \/ Fails(r)
    \/ UpdateElsewhere \/ RestartElsewhere \/ Exit \/ Start

Next == Acts /\ Cardinality(net') <= MaxAsked

Spec == Init /\ [][Next]_vars

-----------------------------------------------------------------------------
\* Two views, their polls and checks and another tab's doings cross: a view
\* offers or counts down the restart only when the update is in place, unless
\* the process was restarted after the tab was loaded.
PendingIsSeen ==
    /\ PendingRestart \/ ui.card.pending \/ ui.chip.timer # None
    /\ srv.run = ui.loaded
    => srv.pending
=============================================================================
