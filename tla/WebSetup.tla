------------------------------ MODULE WebSetup ------------------------------
(***************************************************************************)
(* The set-up wizard (src/web/src/pages/setup.tsx) and the server it talks *)
(* to in set-up mode (cmd/server/setup.go).  Five steps: preferences,      *)
(* compliance, driver, connection, administrator; then a countdown, while  *)
(* the server restarts, to the login.                                      *)
(*                                                                         *)
(* ui is what the page holds, net the requests under way, srv the server.  *)
(* A connection is what buildPayload sends of the driver and its fields.   *)
(***************************************************************************)
EXTENDS Naturals, FiniteSets

CONSTANTS
    Conns,          \* connections the user may describe
    Countdown,      \* seconds until the page goes to the login
    MaxVersion,     \* bound on the versions of the compliance document
    NoConn          \* no driver is chosen, nothing is saved

SetupAssumption ==
    /\ NoConn \notin Conns
    /\ Countdown \in Nat \ {0} /\ MaxVersion \in Nat \ {0}

VARIABLES ui, net, srv

vars == <<ui, net, srv>>

Versions == 1 .. MaxVersion
Replies == {"none", "ok", "failed"}
Request == [kind : {"compliance", "test", "initialize"},
            conn : Conns \cup {NoConn}, version : Versions \cup {0},
            reply : Replies]

TypeOK ==
    /\ ui \in [step : 1 .. 5, conn : Conns \cup {NoConn},
               doc : Versions \cup {0},
               accepted : Versions \cup {0},
               testing : BOOLEAN, testOK : BOOLEAN,
               submitting : BOOLEAN, countdown : 0 .. Countdown \cup {Countdown + 1},
               path : {"setup", "login"}]
    /\ net \subseteq Request
    /\ srv \in [mode : {"setup", "down", "ready"}, reach : SUBSET Conns,
                version : Versions, admins : SUBSET Conns,
                env : [conn : Conns \cup {NoConn}, version : Versions \cup {0}]]

Idle == Countdown + 1       \* countdown === null

Init ==
    /\ ui = [step |-> 1, conn |-> NoConn, doc |-> 0,
             accepted |-> 0, testing |-> FALSE, testOK |-> FALSE,
             submitting |-> FALSE, countdown |-> Idle,
             path |-> "setup"]
    /\ net = {}
    /\ srv \in [mode : {"setup"}, reach : SUBSET Conns, version : {1},
                admins : {{}}, env : {[conn |-> NoConn, version |-> 0]}]

-----------------------------------------------------------------------------
(* The page.  The countdown's overlay covers it. *)

Open == ui.path = "setup" /\ ui.countdown = Idle
Mounted(step) == Open /\ ui.step = step
ConnectionForm == Mounted(4)
AdminForm == Mounted(5)
Under(kind) == {c \in net : c.kind = kind}
Ask(kind, conn, version) ==
    net' = net \cup {[kind |-> kind, conn |-> conn, version |-> version,
                      reply |-> "none"]}

\* StepPreferences changes the settings, which is the settings provider's
\* part; entering StepCompliance fetches the document.
PreferencesNext ==
    /\ Mounted(1)
    /\ ui' = [ui EXCEPT !.step = 2, !.doc = 0]
    /\ Ask("compliance", NoConn, srv.version) /\ UNCHANGED srv

\* An answer for a page that has left is not looked at.
ComplianceReturn ==
    /\ \E c \in Under("compliance") :
          /\ net' = net \ {c}
          /\ \/ ui' = [ui EXCEPT !.doc = IF ui.step = 2 THEN c.version ELSE @]
             \/ UNCHANGED ui
    /\ UNCHANGED srv

\* The phrase has been typed as it is shown.
ComplianceNext ==
    /\ Mounted(2) /\ ui.doc # 0
    /\ ui' = [ui EXCEPT !.step = 3, !.accepted = ui.doc]
    /\ UNCHANGED <<net, srv>>

\* setField on the driver or one of its fields forgets the test's outcome.
SetConn ==
    /\ Mounted(3) \/ (ConnectionForm /\ ui.conn # NoConn)
    /\ \E c \in Conns \ {ui.conn} :
          ui' = [ui EXCEPT !.conn = c, !.testOK = FALSE]
    /\ UNCHANGED <<net, srv>>

DriverNext ==
    /\ Mounted(3) /\ ui.conn # NoConn
    /\ ui' = [ui EXCEPT !.step = 4] /\ UNCHANGED <<net, srv>>

\* The payload is what the form held at the click.
Test ==
    /\ ConnectionForm /\ ~ui.testing
    /\ ui' = [ui EXCEPT !.testing = TRUE, !.testOK = FALSE]
    /\ Ask("test", ui.conn, 0) /\ UNCHANGED srv

TestReturn ==
    /\ \E c \in Under("test") :
          /\ c.reply # "none" /\ net' = net \ {c}
          /\ ui' = [ui EXCEPT !.testing = FALSE,
                              !.testOK = @ \/ c.reply = "ok"]
    /\ UNCHANGED srv

\* Neither button waits for a test under way.
ConnectionNext ==
    /\ ConnectionForm /\ ui.testOK
    /\ ui' = [ui EXCEPT !.step = 5] /\ UNCHANGED <<net, srv>>

Back ==
    /\ Open /\ ui.step > 1 /\ (ui.step = 5 => ~ui.submitting)
    /\ ui' = [ui EXCEPT !.step = @ - 1, !.doc = 0]
    /\ IF ui.step = 3 THEN Ask("compliance", NoConn, srv.version)
       ELSE UNCHANGED net
    /\ UNCHANGED srv

\* With a name, passwords and a tick that validateAdminStep lets pass.
Submit ==
    /\ AdminForm /\ ~ui.submitting
    /\ ui' = [ui EXCEPT !.submitting = TRUE]
    /\ Ask("initialize", ui.conn, ui.accepted) /\ UNCHANGED srv

\* Mutant: the countdown does not look at the answer.
SubmitReturnsAnyway ==
    /\ \E c \in Under("initialize") :
          /\ c.reply # "none" /\ net' = net \ {c}
          /\ ui' = [ui EXCEPT !.submitting = FALSE, !.countdown = Countdown]
    /\ UNCHANGED srv

SubmitReturn ==
    /\ \E c \in Under("initialize") :
          /\ c.reply # "none" /\ net' = net \ {c}
          /\ ui' = [ui EXCEPT !.submitting = FALSE,
                       !.countdown = IF c.reply = "ok" THEN Countdown ELSE @]
    /\ UNCHANGED srv

Second ==
    /\ ui.path = "setup" /\ ui.countdown \in 1 .. Countdown
    /\ ui' = [ui EXCEPT !.countdown = @ - 1] /\ UNCHANGED <<net, srv>>

CountdownEnds ==
    /\ ui.path = "setup" /\ ui.countdown = 0
    /\ ui' = [ui EXCEPT !.path = "login"] /\ UNCHANGED <<net, srv>>

-----------------------------------------------------------------------------
(* The server in set-up mode. *)

Reply(c, reply) == net' = (net \ {c}) \cup {[c EXCEPT !.reply = reply]}

TestServe(c) ==
    /\ c.kind = "test" /\ c.reply = "none"
    /\ Reply(c, IF srv.mode = "setup" /\ c.conn \in srv.reach THEN "ok"
                ELSE "failed")
    /\ UNCHANGED <<ui, srv>>

\* runSetupInitialize's checks, in their order: the document is the current
\* one, the database answers, it has no administrator yet.
Opens(c) ==
    /\ c.version = srv.version
    /\ c.conn \in srv.reach
    /\ c.conn \notin srv.admins

\* The administrator stays in the database when the rest fails, and the file
\* is written last.
InitializeServe(c) ==
    /\ c.kind = "initialize" /\ c.reply = "none"
    /\ \/ /\ ~(srv.mode = "setup" /\ Opens(c))
          /\ Reply(c, "failed") /\ UNCHANGED srv
       \/ /\ srv.mode = "setup" /\ Opens(c)
          /\ Reply(c, "failed")
          /\ srv' = [srv EXCEPT !.admins = @ \cup {c.conn}]
       \/ /\ srv.mode = "setup" /\ Opens(c)
          /\ Reply(c, "ok")
          /\ srv' = [srv EXCEPT !.admins = @ \cup {c.conn},
                        !.env = [conn |-> c.conn, version |-> c.version]]
    /\ UNCHANGED ui

\* The process ends once it has something to restart with.
Exit ==
    /\ srv.mode = "setup" /\ srv.env.conn # NoConn
    /\ srv' = [srv EXCEPT !.mode = "down"] /\ UNCHANGED <<ui, net>>

Start ==
    /\ srv.mode = "down"
    /\ srv' = [srv EXCEPT !.mode = "ready"] /\ UNCHANGED <<ui, net>>

\* The administrator of a database or of the binary does something meanwhile.
Meanwhile ==
    /\ srv.mode = "setup"
    /\ \/ \E c \in Conns : srv' = [srv EXCEPT !.reach =
                              IF c \in @ THEN @ \ {c} ELSE @ \cup {c}]
       \/ /\ srv.version < MaxVersion
          /\ srv' = [srv EXCEPT !.version = @ + 1]
    /\ UNCHANGED <<ui, net>>

\* A request is lost, or answered after its server is gone.
Lost(c) ==
    /\ c.kind \in {"test", "initialize"} /\ c.reply # "failed"
    /\ Reply(c, "failed") /\ UNCHANGED <<ui, srv>>

Next ==
    \/ PreferencesNext \/ ComplianceReturn \/ ComplianceNext
    \/ SetConn \/ DriverNext \/ Test \/ TestReturn \/ ConnectionNext \/ Back
    \/ Submit \/ SubmitReturn \/ Second \/ CountdownEnds
    \/ \E c \in net : TestServe(c) \/ InitializeServe(c) \/ Lost(c)
    \/ Exit \/ Start \/ Meanwhile

Spec == Init /\ [][Next]_vars

-----------------------------------------------------------------------------
\* Neither buttons nor edits wait for a test under way, the document and the
\* database change under the wizard, and answers are lost: what the page goes
\* on from to the login is a finished set-up, on a connection the server has
\* tried itself, with an administrator and the document that was accepted.
LeavesInitialized ==
    ui.countdown # Idle => /\ srv.env.conn \in srv.admins
                           /\ srv.env.version = ui.accepted
=============================================================================
