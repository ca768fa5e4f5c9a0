------------------------------ MODULE WebCleanup ------------------------------
(***************************************************************************)
(* The settings of the history clean-up                                    *)
(* (src/web/src/components/settings/history-cleanup-settings.tsx) and the  *)
(* service behind them (internal/dashboard/cleanup_service.go): a form, and *)
(* a run that the page starts, watches by polling and reports once.        *)
(*                                                                         *)
(* The retention settings are one value, an invalid one is Bad.  The       *)
(* figures are the flag isRunning.  A read is answered with what the       *)
(* server held when it was sent, and the answers come in any order.        *)
(***************************************************************************)
EXTENDS Naturals

CONSTANTS
    Settings,       \* valid retention settings
    Bad,            \* settings out of their ranges
    MaxRuns         \* bound on the runs

CleanupAssumption ==
    /\ Bad \notin Settings /\ MaxRuns \in Nat

VARIABLES ui, net, srv

vars == <<ui, net, srv>>

Ops == {"load", "refresh", "save", "preview", "trigger"}
Read == [op : {"load", "refresh", "save"}, dirty : BOOLEAN,
         config : Settings, running : BOOLEAN]
Poll == [phase : {"status", "stats"}, running : BOOLEAN]

\* mine: the run this page has started and not reported yet (triggeredHere).
Page == [busy : SUBSET Ops, config : Settings \cup {Bad},
         form : Settings \cup {Bad}, running : BOOLEAN, awaiting : BOOLEAN,
         mine : 0 .. MaxRuns, modal : BOOLEAN]

TypeOK ==
    /\ ui \in Page
    /\ net \in [reads : SUBSET Read, polls : SUBSET Poll,
                save : Settings \cup {Bad}, run : 0 .. MaxRuns]
    /\ srv \in [config : Settings, runs : 0 .. MaxRuns, running : BOOLEAN]

Snapshot(op, dirty) == [op |-> op, dirty |-> dirty, config |-> srv.config,
                        running |-> srv.running]

\* config and form are Bad until something is loaded.
Init ==
    /\ srv \in [config : Settings, runs : {0}, running : {FALSE}]
    /\ ui = [busy |-> {"load"}, config |-> Bad, form |-> Bad,
             running |-> FALSE, awaiting |-> FALSE, mine |-> 0,
             modal |-> FALSE]
    /\ net = [reads |-> {Snapshot("load", FALSE)}, polls |-> {},
              save |-> Bad, run |-> 0]

-----------------------------------------------------------------------------
(* What the page shows. *)

\* Mutant: the figures alone say whether a run is under way.
BusyByFigures(u) == "trigger" \in u.busy \/ u.running

\* isBusy
IsBusy(u) == "trigger" \in u.busy \/ u.awaiting \/ u.running

IsDirty == ui.config # Bad /\ ui.form # ui.config
Loaded == "load" \notin ui.busy
Plain == Loaded /\ ~ui.modal
Overview == Plain /\ ~IsBusy(ui)

\* Mutant: the effect's polls are not cancelled.
PollsKept(u, polls) == polls

\* The poll's effect is set up anew when isBusy or triggering change; what
\* the polls of the one before bring is not looked at.
Polls(u, polls) ==
    IF IsBusy(u) = IsBusy(ui) /\ ("trigger" \in u.busy) = ("trigger" \in ui.busy)
    THEN polls ELSE {}

Shows(u, n) == ui' = u /\ net' = [n EXCEPT !.polls = Polls(u, @)]
Ends(op) == [ui EXCEPT !.busy = @ \ {op}]

-----------------------------------------------------------------------------
(* Reading. *)

Refresh ==
    /\ Overview /\ "refresh" \notin ui.busy
    /\ ui' = [ui EXCEPT !.busy = @ \cup {"refresh"}]
    /\ net' = [net EXCEPT !.reads = @ \cup {Snapshot("refresh", IsDirty)}]
    /\ UNCHANGED srv

\* A form that was dirty when the button was pressed is kept.  After a save
\* only the figures are read.
ReadReturns(r) ==
    /\ LET both == r.op # "save"
       IN  Shows([Ends(r.op) EXCEPT
                     !.config = IF both THEN r.config ELSE @,
                     !.form = IF both /\ ~r.dirty THEN r.config ELSE @,
                     !.running = r.running],
                 [net EXCEPT !.reads = @ \ {r}])
    /\ UNCHANGED srv

ReadFails(r) ==
    /\ ui' = Ends(r.op) /\ net' = [net EXCEPT !.reads = @ \ {r}]
    /\ UNCHANGED srv

-----------------------------------------------------------------------------
(* The form. *)

SettingsForm == Plain /\ ui.config # Bad

UpdateNumber(s) ==
    /\ SettingsForm /\ ui' = [ui EXCEPT !.form = s] /\ UNCHANGED <<net, srv>>

Save ==
    /\ SettingsForm /\ IsDirty /\ ui.form # Bad
    /\ ~IsBusy(ui) /\ "save" \notin ui.busy
    /\ ui' = [ui EXCEPT !.busy = @ \cup {"save"}]
    /\ net' = [net EXCEPT !.save = ui.form] /\ UNCHANGED srv

\* HandleUpdateConfig answers with what it keeps, and that is what the form
\* gets; then the figures are asked for, and the button waits for them.
SaveReturns ==
    /\ net.save # Bad
    /\ srv' = [srv EXCEPT !.config = net.save]
    /\ ui' = [ui EXCEPT !.config = net.save, !.form = net.save]
    /\ net' = [net EXCEPT !.save = Bad, !.reads = @ \cup {Snapshot("save", FALSE)}]

\* What failed may have been written, its answer lost.
SaveFails ==
    /\ net.save # Bad
    /\ srv' = srv \/ srv' = [srv EXCEPT !.config = net.save]
    /\ ui' = Ends("save") /\ net' = [net EXCEPT !.save = Bad]

-----------------------------------------------------------------------------
(* Preview and run. *)

\* What would be deleted is asked for once nothing is left to save.
Preview ==
    /\ SettingsForm /\ ~IsDirty /\ ~IsBusy(ui) /\ "preview" \notin ui.busy
    /\ ui' = [ui EXCEPT !.busy = @ \cup {"preview"}] /\ UNCHANGED <<net, srv>>

PreviewReturns ==
    /\ "preview" \in ui.busy
    /\ \E opens \in BOOLEAN : ui' = [Ends("preview") EXCEPT !.modal = @ \/ opens]
    /\ UNCHANGED <<net, srv>>

PreviewModal == ui.modal

ClosePreview ==
    /\ PreviewModal
    /\ ui' = [ui EXCEPT !.modal = FALSE] /\ UNCHANGED <<net, srv>>

\* Its button only waits for itself.
Trigger ==
    /\ PreviewModal /\ "trigger" \notin ui.busy
    /\ Shows([ui EXCEPT !.busy = @ \cup {"trigger"}], net) /\ UNCHANGED srv

Begins == srv' = [srv EXCEPT !.runs = @ + 1, !.running = TRUE]

\* StartFullCleanup: beginCleanup, then a goroutine; one run at a time.
TriggerServes ==
    /\ "trigger" \in ui.busy /\ net.run = 0 /\ ~srv.running
    /\ srv.runs < MaxRuns /\ Begins
    /\ net' = [net EXCEPT !.run = srv.runs + 1] /\ UNCHANGED ui

TriggerReturns ==
    /\ "trigger" \in ui.busy /\ net.run # 0
    /\ Shows([Ends("trigger") EXCEPT !.mine = net.run, !.awaiting = TRUE,
                 !.running = TRUE, !.modal = FALSE],
             [net EXCEPT !.run = 0])
    /\ UNCHANGED srv

\* 409, or an answer that is lost.
TriggerFails ==
    /\ "trigger" \in ui.busy
    /\ Shows(Ends("trigger"), [net EXCEPT !.run = 0]) /\ UNCHANGED srv

-----------------------------------------------------------------------------
(* Polling. *)

\* 1.2 s after the effect was set up, and every 3 s.
Polling ==
    /\ IsBusy(ui) /\ "trigger" \notin ui.busy
    /\ net' = [net EXCEPT !.polls = @ \cup {[phase |-> "status",
                                             running |-> srv.running]}]
    /\ UNCHANGED <<ui, srv>>

StatusReturns(p) ==
    /\ p.phase = "status"
    /\ LET asked == IF p.running THEN {}
                    ELSE {[phase |-> "stats", running |-> srv.running]}
       IN  Shows([ui EXCEPT !.running = p.running],
                 [net EXCEPT !.polls = (@ \ {p}) \cup asked])
    /\ UNCHANGED srv

\* The toast is shown for a run of the page's own.
StatsReturn(p) ==
    /\ p.phase = "stats"
    /\ Shows([ui EXCEPT !.running = p.running, !.awaiting = FALSE, !.mine = 0],
             [net EXCEPT !.polls = @ \ {p}])
    /\ UNCHANGED srv

PollFails(p) ==
    /\ net' = [net EXCEPT !.polls = @ \ {p}] /\ UNCHANGED <<ui, srv>>

-----------------------------------------------------------------------------
(* The service. *)

\* The daily run, or another tab's.
RunElsewhere ==
    /\ ~srv.running /\ srv.runs < MaxRuns /\ Begins /\ UNCHANGED <<ui, net>>

FinishCleanup ==
    /\ srv.running /\ srv' = [srv EXCEPT !.running = FALSE]
    /\ UNCHANGED <<ui, net>>

Next ==
    \/ Refresh \/ Save \/ SaveReturns \/ SaveFails \/ Preview
    \/ PreviewReturns \/ ClosePreview \/ Trigger \/ TriggerServes \/ TriggerReturns
    \/ TriggerFails \/ Polling \/ RunElsewhere \/ FinishCleanup
    \/ \E r \in net.reads : ReadReturns(r) \/ ReadFails(r)
    \/ \E s \in Settings \cup {Bad} : UpdateNumber(s)
    \/ \E p \in net.polls : StatusReturns(p) \/ StatsReturn(p) \/ PollFails(p)

Spec == Init /\ [][Next]_vars

-----------------------------------------------------------------------------
\* Figures read before the run was started may arrive after it, and say that
\* nothing is running: while the page has a run of its own under way its
\* buttons stay disabled.
OwnRunKeepsBusy == ui.mine = srv.runs /\ srv.running => IsBusy(ui)

\* Of a step: "completed" is said of a run that has ended, however late the poll that
\* says so was answered and whatever run has begun meanwhile.
CompletedIsOver ==
    ui.mine # 0 /\ ui'.mine = 0 => srv.runs > ui.mine \/ ~srv.running
=============================================================================
