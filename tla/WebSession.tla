----------------------------- MODULE WebSession -----------------------------
(***************************************************************************)
(* One tab's session: React state, timers and requests under way, the      *)
(* localStorage it shares with the browser's other tabs (nowhere.token,    *)
(* nowhere.user), and the one JWT id the server accepts, which it forgets  *)
(* at a restart.  SetupGate, AuthProvider, RouteGuard, the interceptor,    *)
(* the login, OAuth and set-up guide pages of src/web.                     *)
(*                                                                         *)
(* All pages behind the login are one path, "private", and their requests  *)
(* one kind of call.  There is one account.  Timers fire in any order.     *)
(* Other tabs are seen through what they write to localStorage.            *)
(***************************************************************************)
EXTENDS Naturals, FiniteSets

CONSTANTS
    MaxLogins,      \* bound on the tokens the server issues
    MaxOpens        \* bound on what the user does with the address bar

ASSUME SessionAssumption == MaxLogins \in Nat /\ MaxOpens \in Nat

VARIABLES
    setup,          \* the server runs in set-up mode
    jti,            \* the token the server accepts, 0 for none
    issued,         \* the tokens issued so far are 1 .. issued
    expired,        \* tokens past their expiry
    token,          \* nowhere.token, 0 when it is not there
    stored,         \* nowhere.user is there
    opens,          \* navigations by hand so far
    tab             \* what React and the event loop hold

server == <<setup, jti, issued, expired>>
storage == <<token, stored>>
vars == <<server, storage, opens, tab>>

Tokens == 1 .. MaxLogins
Public == {"login", "oauth-error", "oauth-success", "setup-guide", "setup"}
Paths == Public \cup {"private"}
Timers == {"check", "dashboard", "guide", "redirect", "logout"}
Calls == [kind : {"api", "login", "left", "logout", "security"}, token : Tokens \cup {0},
          answer : {"none", "ok", "denied"}, got : Tokens \cup {0}]

\* A page that has just been loaded: SetupGate asks the server first.
Loaded(path, ticket) ==
    [gate |-> "checking", path |-> path, ticket |-> ticket, user |-> FALSE,
     loading |-> TRUE, timers |-> {}, calls |-> {}]

TypeOK ==
    /\ setup \in BOOLEAN /\ jti \in Tokens \cup {0} /\ issued \in 0 .. MaxLogins
    /\ expired \subseteq Tokens
    /\ token \in Tokens \cup {0} /\ stored \in BOOLEAN
    /\ opens \in 0 .. MaxOpens
    /\ tab \in [gate : {"checking", "ok", "needs-setup", "error"},
                path : Paths, ticket : Tokens \cup {0},
                user : BOOLEAN, loading : BOOLEAN,
                timers : SUBSET Timers, calls : SUBSET Calls]
    /\ \A c, d \in tab.calls : c.kind = d.kind => c = d

Init ==
    /\ setup \in BOOLEAN
    /\ jti = 0 /\ issued = 0 /\ expired = {}
    /\ token = 0 /\ stored = FALSE /\ opens = 0
    /\ \E p \in Paths : tab = Loaded(p, 0)

-----------------------------------------------------------------------------
\* What a tab shows and what it has to do.

Accepts(tok) == tok # 0 /\ tok = jti /\ tok \notin expired
Running == tab.gate \in {"ok", "needs-setup"}

\* RouteGuard renders the page and not its spinner.
Shown ==
    /\ Running /\ ~tab.loading
    /\ \/ tab.user = (tab.path \notin Public)
       \/ tab.user /\ tab.path = "setup-guide"

Busy(kind) == \E c \in tab.calls : c.kind = kind
Request(kind) == [kind |-> kind, token |-> token, answer |-> "none", got |-> 0]
Without(r, timer) == [r EXCEPT !.timers = @ \ {timer}]
Answered(r, c) == [r EXCEPT !.calls = @ \ {c}]
ClearTokenOnly == token' = 0 /\ UNCHANGED stored      \* mutant: the user stays
ClearStorage == token' = 0 /\ stored' = FALSE

-----------------------------------------------------------------------------
\* Loading the application.

\* Typing an address, reloading: everything the tab held is gone.
Open(p) ==
    /\ opens < MaxOpens /\ opens' = opens + 1
    /\ tab' = Loaded(p, 0)
    /\ UNCHANGED <<server, storage>>

\* The back button changes the path under a running application.
Back(p) ==
    /\ Running /\ opens < MaxOpens /\ opens' = opens + 1
    /\ tab' = [tab EXCEPT !.path = p]
    /\ UNCHANGED <<server, storage>>

\* The children of SetupGate are mounted; AuthProvider believes nowhere.user
\* at first and looks at the token a moment later.
Mounted(r) == [r EXCEPT !.user = stored, !.loading = TRUE, !.timers = {"check"}]

GateAnswers ==
    /\ tab.gate = "checking"
    /\ tab' = Mounted([tab EXCEPT
                  !.gate = IF setup THEN "needs-setup" ELSE "ok",
                  !.path = CASE setup -> "setup"
                             [] ~setup /\ @ = "setup" -> "login"
                             [] OTHER -> @])
    /\ UNCHANGED <<server, storage, opens>>

GateFails ==
    /\ tab.gate = "checking"
    /\ tab' = [tab EXCEPT !.gate = "error"]
    /\ UNCHANGED <<server, storage, opens>>

GateRetry ==
    /\ tab.gate = "error"
    /\ tab' = [tab EXCEPT !.gate = "checking"]
    /\ UNCHANGED <<server, storage, opens>>

\* checkAuth(true): its closure saw no user, so the stored one is set again.
CheckAuth ==
    /\ "check" \in tab.timers
    /\ LET good == token # 0 /\ token \notin expired
       IN  /\ tab' = [Without(tab, "check") EXCEPT
                         !.loading = FALSE,
                         !.user = good /\ (stored \/ @)]
           /\ IF good THEN UNCHANGED storage ELSE ClearStorage
    /\ UNCHANGED <<server, opens>>

\* The effect is armed anew whenever user, loading or path change, so it acts
\* on what they are.
GuardActs ==
    /\ Running /\ ~tab.loading
    /\ \/ /\ ~tab.user /\ tab.path \notin Public
          /\ tab' = [tab EXCEPT !.path = "login"]
       \/ /\ tab.user /\ tab.path \in Public \ {"setup-guide"}
          /\ tab' = [tab EXCEPT !.path = "private"]
    /\ UNCHANGED <<server, storage, opens>>

-----------------------------------------------------------------------------
\* Logging in.

\* The page behind RouteGuard: a form and a provider's button.
LoginForm == Shown /\ tab.path = "login"

\* Mutant: the button is not disabled while a login is under way.
LoginSubmitAgain ==
    /\ LoginForm
    /\ tab' = [tab EXCEPT !.calls = @ \cup {[Request("login") EXCEPT !.token = 0]}]
    /\ UNCHANGED <<server, storage, opens>>

LoginSubmit ==
    /\ LoginForm /\ ~Busy("login")
    /\ tab' = [tab EXCEPT !.calls = @ \cup {[Request("login") EXCEPT !.token = 0]}]
    /\ UNCHANGED <<server, storage, opens>>

\* The login page is unmounted and its request goes on; the next one to be
\* mounted knows nothing of it.  One at a time is followed.
LoginUnmounted(c) ==
    /\ c.kind = "login" /\ ~LoginForm /\ ~Busy("left")
    /\ tab' = [tab EXCEPT !.calls = (@ \ {c}) \cup {[c EXCEPT !.kind = "left"]}]
    /\ UNCHANGED <<server, storage, opens>>

Issue ==
    /\ issued < MaxLogins
    /\ issued' = issued + 1
    /\ jti' = issued'
    /\ UNCHANGED <<setup, expired>>

Answer(c, answer, tok) ==
    tab' = [tab EXCEPT !.calls = (@ \ {c}) \cup
              {[c EXCEPT !.answer = answer, !.got = tok]}]

\* A good password makes a token, which kicks out the one before it.
LoginServe(c) ==
    /\ c.kind \in {"login", "left"} /\ c.answer = "none"
    /\ \/ ~setup /\ Issue /\ Answer(c, "ok", issued')
       \/ Answer(c, "denied", 0) /\ UNCHANGED server
    /\ UNCHANGED <<storage, opens>>

\* The default credentials lead to the set-up guide, others to the dashboard.
LoginReturn(c) ==
    /\ c.kind \in {"login", "left"} /\ c.answer # "none"
    /\ \/ /\ c.answer = "ok"
          /\ token' = c.got /\ stored' = TRUE
          /\ \E next \in {"dashboard", "guide"} :
                tab' = [Answered(tab, c) EXCEPT
                           !.user = TRUE, !.timers = @ \cup {next}]
       \/ /\ c.answer = "denied"
          /\ tab' = Answered(tab, c)
          /\ UNCHANGED storage
    /\ UNCHANGED <<server, opens>>

\* navigate() after a login, from a timer no unmount clears.
Navigate(timer, path) ==
    /\ timer \in tab.timers
    /\ tab' = [Without(tab, timer) EXCEPT !.path = path]
    /\ UNCHANGED <<server, storage, opens>>

\* To the provider and back, by way of the server's callback.
OAuthLogin ==
    /\ LoginForm /\ opens < MaxOpens
    /\ opens' = opens + 1
    /\ \/ Issue /\ tab' = Loaded("oauth-success", issued')
       \/ UNCHANGED server /\ tab' = Loaded("oauth-error", 0)
    /\ UNCHANGED storage

\* The page's effect takes the token out of the address.
OAuthArrives ==
    /\ Shown /\ tab.path = "oauth-success"
    /\ \/ /\ tab.ticket # 0
          /\ token' = tab.ticket /\ stored' = TRUE
          /\ tab' = [tab EXCEPT !.user = TRUE,
                                !.timers = @ \cup {"dashboard"}]
       \/ /\ tab.ticket = 0
          /\ tab' = [tab EXCEPT !.path = "login"]
          /\ UNCHANGED storage
    /\ UNCHANGED <<server, opens>>

OAuthErrorLeave ==
    /\ Shown /\ tab.path = "oauth-error"
    /\ \E p \in {"login", "private"} : tab' = [tab EXCEPT !.path = p]
    /\ UNCHANGED <<server, storage, opens>>

-----------------------------------------------------------------------------
\* Requests behind the login, and logging out.

ApiSend ==
    /\ Shown /\ tab.path = "private" /\ ~Busy("api")
    /\ tab' = [tab EXCEPT !.calls = @ \cup {Request("api")}]
    /\ UNCHANGED <<server, storage, opens>>

\* AuthMiddleware, in front of every handler behind the login; a logout
\* forgets the accepted token, new credentials make a new one.
Serve(c) ==
    /\ c.kind \notin {"login", "left"} /\ c.answer = "none"
    /\ \/ ~Accepts(c.token) /\ Answer(c, "denied", 0) /\ UNCHANGED server
       \/ /\ Accepts(c.token) /\ c.kind = "api"
          /\ Answer(c, "ok", 0) /\ UNCHANGED server
       \/ /\ Accepts(c.token) /\ c.kind = "logout"
          /\ Answer(c, "ok", 0)
          /\ jti' = 0 /\ UNCHANGED <<setup, issued, expired>>
       \/ /\ Accepts(c.token) /\ c.kind = "security"
          /\ Issue /\ Answer(c, "ok", issued')
    /\ UNCHANGED <<storage, opens>>

\* What the interceptor does with a 401 before the caller sees it.
Intercepted(r, c) == IF c.answer = "denied"
                     THEN [r EXCEPT !.timers = @ \cup {"redirect"}] ELSE r

\* Mutant: a 401 redirects and leaves localStorage alone.
ApiReturnKeeps(c) ==
    /\ c.kind = "api" /\ c.answer # "none"
    /\ tab' = Intercepted(Answered(tab, c), c)
    /\ UNCHANGED <<server, storage, opens>>

ApiReturn(c) ==
    /\ c.kind = "api" /\ c.answer # "none"
    /\ tab' = Intercepted(Answered(tab, c), c)
    /\ IF c.answer = "denied" THEN ClearStorage ELSE UNCHANGED storage
    /\ UNCHANGED <<server, opens>>

\* The set-up guide changes name and password and goes on with the token the
\* answer brings.
GuideSubmit ==
    /\ Shown /\ tab.path = "setup-guide" /\ ~Busy("security")
    /\ tab' = IF token = 0 THEN [tab EXCEPT !.path = "login"]
              ELSE [tab EXCEPT !.calls = @ \cup {Request("security")}]
    /\ UNCHANGED <<server, storage, opens>>

GuideReturn(c) ==
    /\ c.kind = "security" /\ c.answer # "none"
    /\ \/ /\ c.answer = "ok"
          /\ token' = c.got /\ stored' = TRUE
          /\ tab' = [Answered(tab, c) EXCEPT !.user = TRUE,
                                             !.timers = @ \cup {"dashboard"}]
       \/ /\ c.answer = "denied"
          /\ ClearStorage
          /\ tab' = Intercepted(Answered(tab, c), c)
    /\ UNCHANGED <<server, opens>>

\* The network fails: a page shows an error, a login too.
Lost(c) ==
    /\ c.kind # "logout"
    /\ tab' = Answered(tab, c)
    /\ UNCHANGED <<server, storage, opens>>

\* Mutant: navigate() in place of a page load keeps the user in memory.
RedirectInApp ==
    /\ "redirect" \in tab.timers
    /\ tab' = [Without(tab, "redirect") EXCEPT !.path = "login"]
    /\ UNCHANGED <<server, storage, opens>>

\* A page load at /login, unless the tab is there.
Redirect ==
    /\ "redirect" \in tab.timers
    /\ tab' = IF tab.path = "login" THEN Without(tab, "redirect")
              ELSE Loaded("login", 0)
    /\ UNCHANGED <<server, storage, opens>>

Logout ==
    /\ Shown /\ tab.path = "private"
    /\ tab' = [tab EXCEPT !.loading = TRUE,
                          !.calls = @ \cup {Request("logout")}]
    /\ UNCHANGED <<server, storage, opens>>

\* Answered or lost, the tab forgets the session.
LogoutReturn(c) ==
    /\ c.kind = "logout"
    /\ ClearStorage
    /\ tab' = [Intercepted(Answered(tab, c), c) EXCEPT
                  !.user = FALSE, !.timers = @ \cup {"logout"}]
    /\ UNCHANGED <<server, opens>>

LogoutDone ==
    /\ "logout" \in tab.timers
    /\ tab' = [Without(tab, "logout") EXCEPT
                  !.loading = FALSE, !.path = "login"]
    /\ UNCHANGED <<server, storage, opens>>

-----------------------------------------------------------------------------
\* The server on its own.

LoginElsewhere == ~setup /\ Issue /\ UNCHANGED <<storage, opens, tab>>

Expire ==
    /\ \E tok \in 1 .. issued : tok \notin expired /\ expired' = expired \cup {tok}
    /\ UNCHANGED <<setup, jti, issued, storage, opens, tab>>

\* The accepted id is only in memory.  The wizard ends in a restart, too.
Restart ==
    /\ jti # 0 \/ setup
    /\ jti' = 0 /\ setup' = FALSE
    /\ UNCHANGED <<issued, expired, storage, opens, tab>>

\* Another tab logs in, or clears what it finds after a 401 or a logout.
OtherTabLogsIn ==
    /\ ~setup /\ Issue
    /\ token' = issued' /\ stored' = TRUE
    /\ UNCHANGED <<opens, tab>>

OtherTabClears == token # 0 /\ ClearStorage /\ UNCHANGED <<server, opens, tab>>

Next ==
    \/ \E p \in Paths : Open(p)
    \/ \E p \in {"login", "private"} : Back(p)
    \/ GateAnswers \/ GateFails \/ GateRetry
    \/ CheckAuth \/ GuardActs
    \/ LoginSubmit \/ OAuthLogin \/ OAuthArrives \/ OAuthErrorLeave
    \/ Navigate("dashboard", "private") \/ Navigate("guide", "setup-guide")
    \/ ApiSend \/ GuideSubmit \/ Redirect \/ Logout \/ LogoutDone
    \/ \E c \in tab.calls :
          \/ LoginUnmounted(c) \/ LoginServe(c) \/ LoginReturn(c)
          \/ Serve(c) \/ ApiReturn(c) \/ GuideReturn(c) \/ Lost(c) \/ LogoutReturn(c)
    \/ LoginElsewhere \/ Expire \/ Restart
    \/ OtherTabLogsIn \/ OtherTabClears

Spec == Init /\ [][Next]_vars

\* The event loop runs what is due, requests end one way or the other and are
\* not all lost, and a page behind the login asks the server when it is
\* mounted.
Fairness ==
    /\ SF_vars(GateAnswers) /\ WF_vars(GateRetry)
    /\ WF_vars(CheckAuth) /\ WF_vars(GuardActs)
    /\ WF_vars(OAuthArrives) /\ WF_vars(ApiSend)
    /\ WF_vars(Redirect) /\ WF_vars(LogoutDone)
    /\ WF_vars(Navigate("dashboard", "private"))
    /\ WF_vars(Navigate("guide", "setup-guide"))
    /\ SF_vars(\E c \in tab.calls : Serve(c))
    /\ SF_vars(\E c \in tab.calls : ApiReturn(c))
    /\ WF_vars(\E c \in tab.calls : LogoutReturn(c))

FairSpec == Spec /\ Fairness

-----------------------------------------------------------------------------
\* A remembered user without a token is a tab that believes it is logged in
\* and whose first request sends it away again: nowhere.user and
\* nowhere.token come and go together, whichever tab writes them.
UserHasToken == stored => token # 0

\* fetch-interceptor.ts:70: a tab that was told 401 does not stay behind the
\* login, unless a good token has come into the browser in the meantime.  The
\* set-up guide is exempt: it is shown with and without a user.
DeniedLeaves ==
    "redirect" \in tab.timers
        ~> (~tab.user \/ Accepts(token) \/ tab.path = "setup-guide")

\* RouteGuard, the interceptor, the login and the logout all navigate: they
\* come to an end, the tab is not sent back and forth for ever.
NoRedirectLoop == \E p \in Paths : <>[](tab.path = p)
=============================================================================
