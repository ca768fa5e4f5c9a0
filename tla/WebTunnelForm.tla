----------------------------- MODULE WebTunnelForm -----------------------------
(***************************************************************************)
(* The form that creates and edits a tunnel                                *)
(* (src/web/src/components/tunnels/simple-create-tunnel-modal.tsx).  It    *)
(* loads what it edits each time it opens and aborts the load when it      *)
(* closes; its fields depend on each other: the carriers up and down must  *)
(* be among those the next Portal listens on, TLS mux needs one that is    *)
(* not UDP, and a next Portal excludes a SOCKS egress.                     *)
(*                                                                         *)
(* ui is what the form holds, net the loads and the save under way, srv    *)
(* what the server has saved last.  The fields that stand alone are one,   *)
(* "rest".  The modal that opens is another one each time: what it held    *)
(* before does not count.                                                  *)
(***************************************************************************)
EXTENDS Naturals, FiniteSets

CONSTANTS
    Tunnels,        \* tunnels of the list
    New,            \* what is opened to create one
    None

FormAssumption == {New, None} \cap Tunnels = {} /\ New # None

VARIABLES ui, net, srv

vars == <<ui, net, srv>>

Opened == Tunnels \cup {New}
Carriers == {"auto", "tcp", "udp", "mix"}

\* The ports a next Portal is reached at; "none" is no next Portal.
Nexts == {"none", "tcp", "udp", "both"}

\* of: the tunnel the values come from.
PortalForm == [of : Opened \cup {None}, rest : {"empty", "bad", "good"},
               next : Nexts, up : Carriers, down : Carriers, mux : BOOLEAN,
               socks : BOOLEAN]

Page == [opened : Opened \cup {None}, loading : BOOLEAN,
         submitting : BOOLEAN, real : Opened \cup {None}, form : PortalForm]

Save == [to : Opened, of : Opened, shown : Opened, next : Nexts,
         up : Carriers, down : Carriers, mux : BOOLEAN, socks : BOOLEAN]

TypeOK ==
    /\ ui \in Page
    /\ net \in [loads : SUBSET [of : Opened, live : BOOLEAN],
                save : Save \cup {None}]
    /\ srv \in Opened \cup {None}

INITIAL_FORM ==
    [of |-> None, rest |-> "empty", next |-> "none", up |-> "auto",
     down |-> "auto", mux |-> FALSE, socks |-> FALSE]

Closed == [opened |-> None, loading |-> FALSE, submitting |-> FALSE,
           real |-> None, form |-> INITIAL_FORM]

Init ==
    /\ ui = Closed
    /\ net = [loads |-> {}, save |-> None]
    /\ srv = None

-----------------------------------------------------------------------------
(* Loading. *)

\* The nodes, and the tunnel, are asked for one after the other.
Open(t) ==
    /\ ui.opened = None /\ net.save = None
    /\ Cardinality(net.loads) < 2
    /\ ui' = [Closed EXCEPT !.opened = t, !.loading = TRUE]
    /\ net' = [net EXCEPT !.loads = @ \cup {[of |-> t, live |-> TRUE]}]
    /\ UNCHANGED srv

\* Mutant: closing leaves the load alone.
LeaveLoads(loads) == loads

\* controller.abort()
Abort(loads) == {[l EXCEPT !.live = FALSE] : l \in loads}

\* onOpenChange is ignored while the form is being saved.
Close ==
    /\ ui.opened # None /\ ~ui.submitting
    /\ ui' = Closed
    /\ net' = [net EXCEPT !.loads = Abort(@)] /\ UNCHANGED srv

\* A new tunnel gets a port and a key at random.
FormOf(l) == [INITIAL_FORM EXCEPT !.of = l.of,
                 !.rest = IF l.of = New THEN "bad" ELSE "good"]

Loads(l) ==
    /\ net' = [net EXCEPT !.loads = @ \ {l}]
    /\ IF l.live /\ ui.opened # None
       THEN \/ ui' = [ui EXCEPT !.loading = FALSE]
            \/ \E f \in {FormOf(l),
                         [FormOf(l) EXCEPT !.next = "both", !.mux = TRUE]} :
                  ui' = [ui EXCEPT !.loading = FALSE, !.form = f,
                                   !.real = l.of]
       ELSE UNCHANGED ui
    /\ UNCHANGED srv

-----------------------------------------------------------------------------
(* The fields. *)

\* What is typed while the form is being saved does not get into the save,
\* and is left out.
Fields == ui.opened # None /\ ~ui.loading /\ ~ui.submitting

Update(form) ==
    /\ Fields /\ ui' = [ui EXCEPT !.form = form] /\ UNCHANGED <<net, srv>>

\* Name, ports, key, TLS, rates, log level, SNI, pin, and the tags.  Without
\* the nodes, which are loaded first, there is none to choose.
BasicFields ==
    \E r \in {"bad", "good"} :
        /\ r = "good" => ui.form.of # None
        /\ Update([ui.form EXCEPT !.rest = r])

UdpOnly(up, down) == up = "udp" /\ down = "udp"

\* What "auto" stands for.
DefaultCarrier(next) == IF next = "udp" THEN "udp" ELSE "tcp"
Carrier(c, next) == IF c = "auto" THEN DefaultCarrier(next) ELSE c

udpOnlyNext(f) == UdpOnly(Carrier(f.up, f.next), Carrier(f.down, f.next))

Unavailable(next) ==
    CASE next = "tcp" -> {"udp", "mix"}
      [] next = "udp" -> {"tcp", "mix"}
      [] OTHER -> {}

\* The select's own guard; a carrier that was chosen for another next Portal
\* stays.
UpdateCarrier(key, c) ==
    /\ ui.form.next # "none" /\ c \notin Unavailable(ui.form.next)
    /\ LET next == [ui.form EXCEPT ![key] = c]
       IN  Update([next EXCEPT !.mux = @ /\ ~UdpOnly(next.up, next.down)])

MuxField ==
    /\ ui.form.next # "none"
    /\ \E m \in BOOLEAN :
          /\ m => ~udpOnlyNext(ui.form)
          /\ Update([ui.form EXCEPT !.mux = m])

\* Each of the two clears the other.
NextField(n) ==
    Update([ui.form EXCEPT !.next = n, !.socks = @ /\ n = "none"])
SocksField ==
    \E s \in BOOLEAN :
       Update([ui.form EXCEPT !.socks = s,
                              !.next = IF s THEN "none" ELSE @])

-----------------------------------------------------------------------------
(* Saving. *)

Validate(f) ==
    /\ f.rest = "good"
    /\ ~(f.socks /\ f.next # "none")
    /\ f.next # "none" => {f.up, f.down} \cap Unavailable(f.next) = {}

\* Mutant: the switch as the form has it.
MuxAsShown(f) == f.mux

MuxToSend(f) == IF udpOnlyNext(f) THEN FALSE ELSE f.mux

\* An edit is refused until the tunnel is loaded.
Submit ==
    /\ Fields /\ Validate(ui.form)
    /\ ui.opened \in Tunnels => ui.real # None
    /\ ui' = [ui EXCEPT !.submitting = TRUE]
    /\ LET f == ui.form
       IN  net' = [net EXCEPT !.save =
              [to |-> IF ui.opened = New THEN New ELSE ui.real, of |-> f.of,
               shown |-> ui.opened, next |-> f.next, up |-> f.up,
               down |-> f.down, mux |-> MuxToSend(f), socks |-> f.socks]]
    /\ UNCHANGED srv

\* A failure keeps the form open.
SaveReturns ==
    /\ net.save # None /\ net' = [net EXCEPT !.save = None]
    /\ \/ srv' = net.save.to /\ ui' = Closed
       \/ UNCHANGED srv /\ ui' = [ui EXCEPT !.submitting = FALSE]

Next ==
    \/ \E t \in Opened : Open(t)
    \/ Close \/ BasicFields \/ MuxField \/ SocksField
    \/ \E l \in net.loads : Loads(l)
    \/ \E k \in {"up", "down"}, c \in Carriers : UpdateCarrier(k, c)
    \/ \E n \in Nexts : NextField(n)
    \/ Submit \/ SaveReturns

Spec == Init /\ [][Next]_vars

-----------------------------------------------------------------------------
\* A load may outlive the form that asked for it: what is saved is written to
\* the tunnel that was opened, with values that were loaded from it.
SavesWhatItOpened ==
    net.save # None => net.save.to = net.save.shown /\ net.save.of = net.save.to

\* The fields are set in any order, and what one of them excluded may be
\* allowed by the next one: no save asks for mux where every carrier is UDP,
\* or for a carrier the next Portal does not listen on, or for both egresses.
SavesWhatCanRun ==
    net.save # None =>
        LET s == net.save
        IN  /\ s.mux => ~udpOnlyNext(s)
            /\ s.next # "none" => {s.up, s.down} \cap Unavailable(s.next) = {}
            /\ ~(s.socks /\ s.next # "none")
=============================================================================
