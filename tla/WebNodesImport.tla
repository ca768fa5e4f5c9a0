----------------------------- MODULE WebNodesImport -----------------------------
(***************************************************************************)
(* Importing nodes from a file, in two modals, and exporting them          *)
(* (src/web/src/pages/endpoints/index.tsx; internal/api/data.go).  The     *)
(* server is asked which nodes of the file it would take, the user orders  *)
(* them, and the nodes that may be imported are sent - with the keys,      *)
(* which the answer does not hold, looked up in the file kept meanwhile.   *)
(*                                                                         *)
(* A file is the keys of the nodes in it, by address.  ui is what the page *)
(* holds, net the request under way, srv the keys the server has.          *)
(***************************************************************************)
EXTENDS Naturals, FiniteSets, Sequences, Functions

CONSTANTS Files, Addrs, None

\* Every file has a key of its own for every address in it: the file's name.
ImportAssumption ==
    IsFiniteSet(Addrs) /\ None \notin Files \cup Addrs

VARIABLES ui, net, srv

vars == <<ui, net, srv>>

Keys == [Addrs -> Files \cup {None}]

Results == {s \in UNION {[1 .. n -> Addrs] : n \in 0 .. Cardinality(Addrs)} :
                IsInjective(s)}

\* of: the file whose validation the results are.
Page == [modal : {"none", "import", "results"}, busy : BOOLEAN,
         selected : Files \cup {None}, data : Files \cup {None},
         results : Results, of : Files \cup {None}, reloading : BOOLEAN]

Request == [op : {"validate", "import"}, file : Files, addrs : SUBSET Addrs]

TypeOK ==
    /\ ui \in Page
    /\ net \in SUBSET Request
    /\ srv \in [has : Keys, sent : Keys, seen : Keys]

Nothing == [a \in Addrs |-> None]

Empty == [modal |-> "none", busy |-> FALSE, selected |-> None, data |-> None,
          results |-> << >>, of |-> None, reloading |-> FALSE]

Init ==
    /\ ui = Empty /\ net = {}
    /\ srv = [has |-> Nothing, sent |-> Nothing, seen |-> Nothing]

ImportModal == ui.modal = "import"
ResultsModal == ui.modal = "results"

Open ==
    /\ ui.modal = "none" /\ ui' = [ui EXCEPT !.modal = "import"]
    /\ UNCHANGED <<net, srv>>

\* The cancel buttons wait for the request; the modals' own do not.
Close ==
    /\ ui.modal # "none" /\ ui' = [ui EXCEPT !.modal = "none"]
    /\ UNCHANGED <<net, srv>>

HandleFileSelect(f) ==
    /\ ImportModal /\ ~ui.busy
    /\ ui' = [ui EXCEPT !.selected = f] /\ UNCHANGED <<net, srv>>

\* Mutant: another file may be checked while one is.
MayCheckAny == ui.selected # None

\* The button spins until the answer is there.
MayCheck == ui.selected # None /\ ~ui.busy

\* The file is kept before the server is asked about it.
HandleImportData ==
    /\ ImportModal /\ MayCheck
    /\ ui' = [ui EXCEPT !.busy = TRUE, !.data = ui.selected]
    /\ net' = net \cup {[op |-> "validate", file |-> ui.selected, addrs |-> {}]}
    /\ UNCHANGED srv

\* canImport: the server has no node at the address.  onImportOpenChange
\* closes the first modal, and the second opens.
ValidateReturns(r) ==
    /\ r.op = "validate" /\ net' = net \ {r} /\ UNCHANGED srv
    /\ \/ ui' = [ui EXCEPT !.busy = FALSE]
       \/ \E s \in Results :
             /\ Range(s) = {a \in Addrs : srv.has[a] = None}
             /\ ui' = [ui EXCEPT !.busy = FALSE, !.modal = "results",
                                 !.results = s, !.of = r.file]

\* arrayMove of one row onto another, which the cursor or a key makes.
HandleDragEnd(i, j) ==
    /\ ResultsModal /\ i # j
    /\ LET rest == SubSeq(ui.results, 1, i - 1)
                      \o SubSeq(ui.results, i + 1, Len(ui.results))
       IN  ui' = [ui EXCEPT !.results = SubSeq(rest, 1, j - 1) \o << @[i] >>
                                           \o SubSeq(rest, j, Len(rest))]
    /\ UNCHANGED <<net, srv>>

\* What is sent: the keys of the file that is kept.
HandleConfirmImport ==
    /\ ResultsModal /\ ~ui.busy /\ ui.results # << >>
    /\ ui' = [ui EXCEPT !.busy = TRUE]
    /\ net' = net \cup {[op |-> "import", file |-> ui.data,
                         addrs |-> Range(ui.results)]}
    /\ srv' = [srv EXCEPT
                  !.sent = [a \in Addrs |-> IF a \in Range(ui.results)
                                            THEN ui.data ELSE @[a]],
                  !.seen = [a \in Addrs |-> IF a \in Range(ui.results)
                                            THEN ui.of ELSE @[a]]]

\* BatchImport skips the addresses the server has got meanwhile.  The page
\* is loaded anew a second later.
ImportReturns(r) ==
    /\ r.op = "import" /\ net' = net \ {r}
    /\ \/ ui' = [ui EXCEPT !.busy = FALSE] /\ UNCHANGED srv
       \/ /\ srv' = [srv EXCEPT !.has = [a \in Addrs |->
                        IF a \in r.addrs /\ @[a] = None THEN r.file
                        ELSE @[a]]]
          /\ ui' = [Empty EXCEPT !.modal = IF ui.modal = "results" THEN "none"
                                           ELSE ui.modal,
                                 !.reloading = TRUE]

Reload ==
    /\ ui.reloading /\ ui' = Empty /\ net' = {} /\ UNCHANGED srv

\* HandleExport: what the server has, in a file, whatever the page shows.
ExportData == ui.modal = "none" /\ UNCHANGED vars

Next ==
    \/ Open \/ Close \/ HandleImportData \/ HandleConfirmImport \/ Reload
    \/ ExportData
    \/ \E f \in Files : HandleFileSelect(f)
    \/ \E r \in net : ValidateReturns(r) \/ ImportReturns(r)
    \/ \E i, j \in 1 .. Len(ui.results) : HandleDragEnd(i, j)

Spec == Init /\ [][Next]_vars

-----------------------------------------------------------------------------
\* The file is kept when it is sent and the results when they come back, and
\* either modal may be closed and opened meanwhile: a node is sent with the
\* key of the very file whose results the user confirmed.
SentAsConfirmed == srv.sent = srv.seen
=============================================================================
