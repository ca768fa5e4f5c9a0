------------------------------- MODULE WebProofs -------------------------------
(***************************************************************************)
(* What is proved of the web application, for every value of the constants *)
(* and every order of steps: of its session (WebSession), and of its pages *)
(* (WebApp): that they keep their types, that their forms are honest, that *)
(* what is begun is finished, and that late answers do no harm.            *)
(*                                                                         *)
(* The session keeps its types, at most one request of a kind is under     *)
(* way, and nowhere.user is never there without nowhere.token.  Whoever    *)
(* writes nowhere.user has a token in its hands: LoginReturn and           *)
(* GuideReturn have it from an answer that said "ok", so such an answer    *)
(* carries one (TabOK).  That logout is not sent twice is not guarded by a *)
(* flag of its own: the tab that logs out shows a spinner until it is      *)
(* done, because no check of the session is pending then.                  *)
(*                                                                         *)
(* Each form shows what it holds and sends what can be taken.  A page has  *)
(* an invariant of its own, of what the form, its requests and the server  *)
(* hold: what is shown alone is not preserved by a step, because answers   *)
(* bring back what was sent earlier.  FormsInv says of the page that is    *)
(* shown that its invariant holds; BegunInv and LateInv say so for the     *)
(* other two theorems.  Those relate what the page has under way (flows,   *)
(* timers, polls, sockets) to what the server will answer: no disconnect   *)
(* of a flow is left when it connects again, what is said of the present   *)
(* process is true of it, an answer is no older than what is shown.        *)
(***************************************************************************)
EXTENDS WebSession, WebApp, SequenceTheorems, FiniteSetTheorems, TLAPS

(* WebSession: what a tab and the localStorage hold.                        *)

Tab == [gate : {"checking", "ok", "needs-setup", "error"},
        path : Paths, ticket : Tokens \cup {0},
        user : BOOLEAN, loading : BOOLEAN,
        timers : SUBSET Timers, calls : SUBSET Calls]

\* A logout is under way, or has just been answered.
Leaving(r) == "logout" \in r.timers \/ \E c \in r.calls : c.kind = "logout"

TabOK(r) ==
    /\ r \in Tab
    /\ \A c, d \in r.calls : c.kind = d.kind => c = d
    /\ \A c \in r.calls :
          c.kind \in {"login", "left", "security"} /\ c.answer = "ok" => c.got # 0
    /\ r.gate \in {"checking", "error"} => r.timers = {} /\ r.calls = {}
    /\ "check" \in r.timers => r.loading
    /\ Leaving(r) => r.loading /\ "check" \notin r.timers
    /\ "logout" \in r.timers => \A c \in r.calls : c.kind # "logout"

StoreOK ==
    /\ setup \in BOOLEAN /\ jti \in Tokens \cup {0} /\ issued \in 0 .. MaxLogins
    /\ expired \subseteq Tokens
    /\ token \in Tokens \cup {0} /\ stored \in BOOLEAN
    /\ opens \in 0 .. MaxOpens

SessionInv == StoreOK /\ UserHasToken /\ TabOK(tab)

-----------------------------------------------------------------------------
(* What can be done to a tab. *)

LEMMA LoadedOK ==
    ASSUME NEW p \in Paths, NEW t \in Tokens \cup {0}
    PROVE  TabOK(Loaded(p, t))
BY DEF Loaded, TabOK, Tab, Leaving

LEMMA PathSet ==
    ASSUME NEW r, TabOK(r), NEW p \in Paths
    PROVE  TabOK([r EXCEPT !.path = p])
BY DEF TabOK, Tab, Leaving

LEMMA UserSet ==
    ASSUME NEW r, TabOK(r), NEW b \in BOOLEAN
    PROVE  TabOK([r EXCEPT !.user = b])
BY DEF TabOK, Tab, Leaving

LEMMA TimerGone ==
    ASSUME NEW r, TabOK(r), NEW t
    PROVE  TabOK(Without(r, t))
BY DEF TabOK, Tab, Leaving, Without

LEMMA CallGone ==
    ASSUME NEW r, TabOK(r), NEW c
    PROVE  TabOK(Answered(r, c))
BY DEF TabOK, Tab, Leaving, Answered

LEMMA TimerSet ==
    ASSUME NEW r, TabOK(r), r.gate \notin {"checking", "error"},
           NEW t \in {"dashboard", "guide", "redirect"}
    PROVE  TabOK([r EXCEPT !.timers = @ \cup {t}])
BY DEF TabOK, Tab, Leaving, Timers

LEMMA CallSent ==
    ASSUME NEW r, TabOK(r), r.gate \notin {"checking", "error"},
           NEW c \in Calls, c.kind # "logout", c.answer = "none",
           \A d \in r.calls : d.kind # c.kind
    PROVE  TabOK([r EXCEPT !.calls = @ \cup {c}])
BY DEF TabOK, Tab, Leaving

LEMMA CallAnswered ==
    ASSUME NEW r, TabOK(r), NEW c \in r.calls,
           NEW answer \in {"ok", "denied"}, NEW tok \in Tokens \cup {0},
           c.kind \in {"login", "left", "security"} /\ answer = "ok" => tok # 0
    PROVE  TabOK([r EXCEPT !.calls = (@ \ {c}) \cup
                     {[c EXCEPT !.answer = answer, !.got = tok]}])
<1> DEFINE d == [c EXCEPT !.answer = answer, !.got = tok]
<1>1. c \in Calls
  BY DEF TabOK, Tab
<1>2. d \in Calls /\ d.kind = c.kind /\ d.answer = answer /\ d.got = tok
  BY <1>1 DEF Calls
<1> HIDE DEF d
<1> DEFINE s == [r EXCEPT !.calls = (@ \ {c}) \cup {d}]
<1>3. /\ s \in Tab /\ s.calls = (r.calls \ {c}) \cup {d}
      /\ s.timers = r.timers /\ s.gate = r.gate /\ s.loading = r.loading
  BY <1>2 DEF TabOK, Tab
<1>4. TabOK(r)
  OBVIOUS
<1> HIDE DEF s
<1>5. \A a, b \in s.calls : a.kind = b.kind => a = b
  BY <1>2, <1>3, <1>4 DEF TabOK
<1>6. \A a \in s.calls :
          a.kind \in {"login", "left", "security"} /\ a.answer = "ok" => a.got # 0
  BY <1>2, <1>3, <1>4 DEF TabOK
<1>7. s.gate \notin {"checking", "error"}
  BY <1>3, <1>4 DEF TabOK
<1>8. /\ Leaving(s) => Leaving(r)
      /\ "logout" \in s.timers => \A a \in s.calls : a.kind # "logout"
  BY <1>2, <1>3, <1>4 DEF TabOK, Leaving
<1>9. TabOK(s)
  BY <1>3, <1>4, <1>5, <1>6, <1>7, <1>8 DEF TabOK
<1>10. QED  BY <1>9 DEF s, d

\* Its page is gone; the request is not.
LEMMA CallLeft ==
    ASSUME NEW r, TabOK(r), NEW c \in r.calls, c.kind = "login",
           \A d \in r.calls : d.kind # "left"
    PROVE  TabOK([r EXCEPT !.calls = (@ \ {c}) \cup
                     {[c EXCEPT !.kind = "left"]}])
<1> DEFINE d == [c EXCEPT !.kind = "left"]
<1>1. c \in Calls
  BY DEF TabOK, Tab
<1>2. /\ d \in Calls /\ d.kind = "left"
      /\ d.answer = c.answer /\ d.got = c.got
  BY <1>1 DEF Calls
<1> HIDE DEF d
<1> DEFINE s == [r EXCEPT !.calls = (@ \ {c}) \cup {d}]
<1>3. /\ s \in Tab /\ s.calls = (r.calls \ {c}) \cup {d}
      /\ s.timers = r.timers /\ s.gate = r.gate /\ s.loading = r.loading
  BY <1>2 DEF TabOK, Tab
<1>4. TabOK(r)
  OBVIOUS
<1> HIDE DEF s
<1>5. \A a, b \in s.calls : a.kind = b.kind => a = b
  BY <1>2, <1>3, <1>4 DEF TabOK
<1>6. \A a \in s.calls :
          a.kind \in {"login", "left", "security"} /\ a.answer = "ok"
             => a.got # 0
  BY <1>2, <1>3, <1>4 DEF TabOK
<1>7. s.gate \notin {"checking", "error"}
  BY <1>3, <1>4 DEF TabOK
<1>8. /\ Leaving(s) => Leaving(r)
      /\ "logout" \in s.timers => \A a \in s.calls : a.kind # "logout"
  BY <1>2, <1>3, <1>4 DEF TabOK, Leaving
<1>9. TabOK(s)
  BY <1>3, <1>4, <1>5, <1>6, <1>7, <1>8 DEF TabOK
<1>10. QED  BY <1>9 DEF s, d

\* The interceptor starts a page load; a request came from a running tab.
LEMMA InterceptedOK ==
    ASSUME NEW r, TabOK(r), NEW c \in r.calls
    PROVE  TabOK(Intercepted(Answered(r, c), c))
<1>1. TabOK(Answered(r, c)) /\ Answered(r, c).gate = r.gate
  BY CallGone DEF Answered, TabOK, Tab
<1>2. r.gate \notin {"checking", "error"}
  BY DEF TabOK
<1>3. QED  BY <1>1, <1>2, TimerSet DEF Intercepted

LEMMA LogoutSent ==
    ASSUME NEW r, TabOK(r), r.gate \notin {"checking", "error"},
           ~Leaving(r), "check" \notin r.timers,
           NEW c \in Calls, c.kind = "logout", c.answer = "none"
    PROVE  TabOK([r EXCEPT !.loading = TRUE, !.calls = @ \cup {c}])
BY DEF TabOK, Tab, Leaving

\* A token comes in and a timer will navigate.
LEMMA SignedInOK ==
    ASSUME NEW r, TabOK(r), r.gate \notin {"checking", "error"},
           NEW t \in {"dashboard", "guide"}
    PROVE  TabOK([r EXCEPT !.user = TRUE, !.timers = @ \cup {t}])
BY DEF TabOK, Tab, Leaving, Timers
-----------------------------------------------------------------------------
(* Initially, and in every step *)

LEMMA SessionInit == Init => SessionInv
<1>1. 0 \in 0 .. MaxLogins /\ 0 \in 0 .. MaxOpens
  BY SessionAssumption
<1>2. QED  BY <1>1, LoadedOK DEF Init, SessionInv, StoreOK, UserHasToken

LEMMA IssueOK ==
    ASSUME SessionInv, Issue
    PROVE  /\ issued' \in 0 .. MaxLogins /\ issued' \in Tokens
           /\ jti' \in Tokens \cup {0} /\ UNCHANGED <<setup, expired>>
BY SessionAssumption DEF SessionInv, StoreOK, Issue, Tokens

LEMMA ClearedOK ==
    ASSUME SessionInv, ClearStorage, UNCHANGED <<server, opens>>
    PROVE  StoreOK' /\ UserHasToken'
BY DEF SessionInv, StoreOK, UserHasToken, ClearStorage, server

LEMMA KeptOK ==
    ASSUME SessionInv, UNCHANGED <<server, storage, opens>>
    PROVE  StoreOK' /\ UserHasToken'
BY DEF SessionInv, StoreOK, UserHasToken, server, storage

\* A token that is stored with the user is one the server issued.
LEMMA StoredOK ==
    ASSUME SessionInv, token' \in Tokens \cup {0}, token' # 0, stored' = TRUE,
           UNCHANGED <<server, opens>>
    PROVE  StoreOK' /\ UserHasToken'
BY DEF SessionInv, StoreOK, UserHasToken, server

LEMMA OpensOK ==
    ASSUME SessionInv, opens < MaxOpens, opens' = opens + 1
    PROVE  opens' \in 0 .. MaxOpens
BY SessionAssumption DEF SessionInv, StoreOK

LEMMA AnswerOK ==
    ASSUME TabOK(tab), NEW c \in tab.calls,
           NEW answer \in {"ok", "denied"}, NEW tok \in Tokens \cup {0},
           c.kind \in {"login", "left", "security"} /\ answer = "ok" => tok # 0,
           Answer(c, answer, tok)
    PROVE  TabOK(tab')
<1>1. TabOK([tab EXCEPT !.calls = (@ \ {c}) \cup
                 {[c EXCEPT !.answer = answer, !.got = tok]}])
  BY CallAnswered
<1>2. QED  BY <1>1 DEF Answer

LEMMA SessionNext == SessionInv /\ [Next]_vars => SessionInv'
<1> SUFFICES ASSUME SessionInv, [Next]_vars PROVE SessionInv'
  OBVIOUS
<1>1. StoreOK /\ UserHasToken /\ TabOK(tab)
  BY DEF SessionInv
<1>2. Running => tab.gate \notin {"checking", "error"}
  BY <1>1 DEF Running
<1>3. /\ tab \in Tab /\ tab.path \in Paths /\ tab.ticket \in Tokens \cup {0}
      /\ \A c \in tab.calls : c \in Calls
      /\ \A c \in tab.calls : tab.gate \notin {"checking", "error"}
      /\ \A t \in tab.timers : tab.gate \notin {"checking", "error"}
  BY <1>1 DEF TabOK, Tab
<1> "login" \in Paths /\ "private" \in Paths /\ "setup-guide" \in Paths
  BY DEF Paths, Public
<1>4. ASSUME NEW p \in Paths, Open(p) PROVE SessionInv'
  BY <1>1, <1>4, OpensOK, LoadedOK
     DEF Open, SessionInv, StoreOK, UserHasToken, server, storage
<1>5. ASSUME NEW p \in {"login", "private"}, Back(p) PROVE SessionInv'
  BY <1>1, <1>5, OpensOK, PathSet
     DEF Back, Paths, Public, SessionInv, StoreOK, UserHasToken, server, storage
<1>6. CASE GateAnswers
  <2>1. TabOK(tab')
    BY <1>1, <1>6 DEF GateAnswers, Mounted, TabOK, Tab, Leaving, Timers,
                      Paths, Public, StoreOK
  <2>2. QED  BY <1>6, <2>1, KeptOK DEF GateAnswers, SessionInv
<1>7. CASE GateFails \/ GateRetry
  <2>1. TabOK(tab')
    BY <1>1, <1>7 DEF GateFails, GateRetry, TabOK, Tab, Leaving
  <2>2. QED  BY <1>7, <2>1, KeptOK DEF GateFails, GateRetry, SessionInv
<1>8. CASE CheckAuth
  <2>1. TabOK(tab')
    BY <1>1, <1>8 DEF CheckAuth, Without, TabOK, Tab, Leaving, StoreOK
  <2>2. QED  BY <1>8, <2>1, KeptOK, ClearedOK DEF CheckAuth, SessionInv, storage
<1>9. CASE GuardActs
  <2>1. TabOK(tab')
    BY <1>1, <1>9, PathSet DEF GuardActs
  <2>2. QED  BY <1>9, <2>1, KeptOK DEF GuardActs, SessionInv
<1>10. CASE LoginSubmit
  <2> DEFINE c == [Request("login") EXCEPT !.token = 0]
  <2>1. /\ c \in Calls /\ c.kind = "login" /\ c.answer = "none"
        /\ \A d \in tab.calls : d.kind # c.kind
    BY <1>1, <1>10 DEF LoginSubmit, Busy, Request, Calls, StoreOK
  <2>2. TabOK(tab')
    BY <1>1, <1>2, <1>10, <2>1, CallSent DEF LoginSubmit, LoginForm, Shown
  <2>3. QED  BY <1>10, <2>2, KeptOK DEF LoginSubmit, SessionInv
<1>11. CASE OAuthLogin
  <2>1. opens' \in 0 .. MaxOpens
    BY <1>11, OpensOK DEF OAuthLogin
  <2>2. CASE Issue /\ tab' = Loaded("oauth-success", issued')
    BY <1>1, <1>11, <2>1, <2>2, IssueOK, LoadedOK
       DEF OAuthLogin, Paths, Public, SessionInv, StoreOK, UserHasToken, storage
  <2>3. CASE UNCHANGED server /\ tab' = Loaded("oauth-error", 0)
    BY <1>1, <1>11, <2>1, <2>3, LoadedOK DEF OAuthLogin, Paths, Public, SessionInv,
       StoreOK, UserHasToken, storage, server
  <2>4. QED  BY <1>11, <2>2, <2>3 DEF OAuthLogin
<1>12. CASE OAuthArrives
  <2>1. CASE tab.ticket # 0
    BY <1>1, <1>2, <1>3, <1>12, <2>1, SignedInOK, StoredOK
       DEF OAuthArrives, Shown, SessionInv
  <2>2. CASE tab.ticket = 0
    BY <1>1, <1>12, <2>2, PathSet, KeptOK DEF OAuthArrives, SessionInv
  <2>3. QED  BY <2>1, <2>2
<1>13. CASE OAuthErrorLeave
  <2>1. TabOK(tab')
    BY <1>1, <1>13, PathSet DEF OAuthErrorLeave
  <2>2. QED  BY <1>13, <2>1, KeptOK DEF OAuthErrorLeave, SessionInv
<1>14. ASSUME NEW t \in {"dashboard", "guide"},
              NEW p \in {"private", "setup-guide"}, Navigate(t, p)
       PROVE  SessionInv'
  <2>1. TabOK(Without(tab, t)) /\ p \in Paths
    BY <1>1, TimerGone DEF Paths, Public
  <2>2. TabOK(tab')
    BY <1>14, <2>1, PathSet DEF Navigate
  <2>3. QED  BY <1>14, <2>2, KeptOK DEF Navigate, SessionInv
<1>15. CASE ApiSend
  <2>1. /\ Request("api") \in Calls /\ Request("api").kind = "api"
        /\ Request("api").answer = "none"
        /\ \A d \in tab.calls : d.kind # "api"
    BY <1>1, <1>15 DEF ApiSend, Busy, Request, Calls, StoreOK
  <2>2. TabOK(tab')
    BY <1>1, <1>2, <1>15, <2>1, CallSent DEF ApiSend, Shown
  <2>3. QED  BY <1>15, <2>2, KeptOK DEF ApiSend, SessionInv
<1>16. CASE GuideSubmit
  <2>1. /\ Request("security") \in Calls /\ Request("security").kind = "security"
        /\ Request("security").answer = "none"
        /\ \A d \in tab.calls : d.kind # "security"
    BY <1>1, <1>16 DEF GuideSubmit, Busy, Request, Calls, StoreOK
  <2>2. TabOK(tab')
    BY <1>1, <1>2, <1>16, <2>1, CallSent, PathSet
       DEF GuideSubmit, Shown, Paths, Public
  <2>3. QED  BY <1>16, <2>2, KeptOK DEF GuideSubmit, SessionInv
<1>17. CASE Redirect
  <2>1. TabOK(tab')
    BY <1>1, <1>17, TimerGone, LoadedOK DEF Redirect, Paths, Public
  <2>2. QED  BY <1>17, <2>1, KeptOK DEF Redirect, SessionInv
<1>18. CASE Logout
  <2>1. /\ ~tab.loading /\ Running /\ "check" \notin tab.timers
        /\ ~Leaving(tab)
    BY <1>1, <1>18 DEF Logout, Shown, TabOK
  <2>2. Request("logout") \in Calls /\ Request("logout").kind = "logout"
    BY <1>1 DEF Request, Calls, StoreOK
  <2>3. Request("logout").answer = "none"
    BY DEF Request
  <2>4. TabOK(tab')
    BY <1>1, <1>2, <1>18, <2>1, <2>2, <2>3, LogoutSent DEF Logout
  <2>5. QED  BY <1>18, <2>4, KeptOK DEF Logout, SessionInv
<1>19. CASE LogoutDone
  <2>1. TabOK(tab')
    BY <1>1, <1>19 DEF LogoutDone, Without, TabOK, Tab, Leaving, Paths, Public
  <2>2. QED  BY <1>19, <2>1, KeptOK DEF LogoutDone, SessionInv
<1>20. ASSUME NEW c \in tab.calls, LoginServe(c) PROVE SessionInv'
  <2>1. CASE Issue /\ Answer(c, "ok", issued')
    <3>1. issued' \in Tokens /\ issued' # 0
      BY <2>1, IssueOK, SessionAssumption DEF Tokens
    <3>2. TabOK(tab')
      BY <1>1, <2>1, <3>1, AnswerOK
    <3>3. QED  BY <1>1, <1>20, <2>1, <3>2, IssueOK
               DEF LoginServe, SessionInv, StoreOK, UserHasToken, storage
  <2>2. CASE Answer(c, "denied", 0) /\ UNCHANGED server
    <3>1. TabOK(tab')
      BY <1>1, <2>2, AnswerOK
    <3>2. QED  BY <1>20, <2>2, <3>1, KeptOK DEF LoginServe, SessionInv
  <2>3. QED  BY <1>20, <2>1, <2>2 DEF LoginServe
<1>21. ASSUME NEW c \in tab.calls, LoginReturn(c) PROVE SessionInv'
  <2>1. TabOK(Answered(tab, c)) /\ Answered(tab, c).gate = tab.gate
    BY <1>1, CallGone DEF Answered, TabOK, Tab
  <2>2. CASE c.answer = "ok"
    <3>1. c.got \in Tokens \cup {0} /\ c.got # 0
      BY <1>1, <1>3, <1>21, <2>2 DEF LoginReturn, TabOK, Calls
    <3>2. TabOK(tab')
      <4>1. PICK next \in {"dashboard", "guide"} :
                tab' = [Answered(tab, c) EXCEPT
                           !.user = TRUE, !.timers = @ \cup {next}]
        BY <1>21, <2>2 DEF LoginReturn
      <4>2. QED  BY <1>3, <2>1, <4>1, SignedInOK
    <3>3. QED  BY <1>21, <2>2, <3>1, <3>2, StoredOK DEF LoginReturn, SessionInv
  <2>3. CASE c.answer = "denied"
    BY <1>21, <2>1, <2>3, KeptOK DEF LoginReturn, SessionInv
  <2>4. QED  BY <1>21, <2>2, <2>3 DEF LoginReturn
<1>22. ASSUME NEW c \in tab.calls, Serve(c) PROVE SessionInv'
  <2>1. CASE \/ Answer(c, "denied", 0) /\ UNCHANGED server
             \/ c.kind = "api" /\ Answer(c, "ok", 0) /\ UNCHANGED server
    <3>1. Answer(c, "denied", 0) => TabOK(tab')
      BY <1>1, AnswerOK
    <3>2. c.kind = "api" /\ Answer(c, "ok", 0) => TabOK(tab')
      BY <1>1, AnswerOK
    <3>3. TabOK(tab')
      BY <2>1, <3>1, <3>2
    <3>4. QED  BY <1>22, <2>1, <3>3, KeptOK DEF Serve, SessionInv
  <2>2. CASE /\ c.kind = "logout" /\ Answer(c, "ok", 0)
             /\ jti' = 0 /\ UNCHANGED <<setup, issued, expired>>
    <3>1. TabOK(tab')
      BY <1>1, <2>2, AnswerOK
    <3>2. QED  BY <1>1, <1>22, <2>2, <3>1
               DEF Serve, SessionInv, StoreOK, UserHasToken, storage
  <2>3. CASE Issue /\ Answer(c, "ok", issued')
    <3>1. issued' \in Tokens /\ issued' # 0
      BY <2>3, IssueOK, SessionAssumption DEF Tokens
    <3>2. TabOK(tab')
      BY <1>1, <2>3, <3>1, AnswerOK
    <3>3. QED  BY <1>1, <1>22, <2>3, <3>2, IssueOK
               DEF Serve, SessionInv, StoreOK, UserHasToken, storage
  <2>4. QED  BY <1>22, <2>1, <2>2, <2>3 DEF Serve
<1>23. ASSUME NEW c \in tab.calls, ApiReturn(c) PROVE SessionInv'
  <2>1. TabOK(tab')
    BY <1>1, <1>23, InterceptedOK DEF ApiReturn
  <2>2. QED  BY <1>23, <2>1, KeptOK, ClearedOK DEF ApiReturn, SessionInv, storage
<1>24. ASSUME NEW c \in tab.calls, GuideReturn(c) PROVE SessionInv'
  <2>1. CASE c.answer = "ok"
    <3>1. c.got \in Tokens \cup {0} /\ c.got # 0
      BY <1>1, <1>3, <1>24, <2>1 DEF GuideReturn, TabOK, Calls
    <3>2. TabOK(Answered(tab, c)) /\ Answered(tab, c).gate = tab.gate
      BY <1>1, CallGone DEF Answered, TabOK, Tab
    <3>3. TabOK(tab')
      <4>1. tab' = [Answered(tab, c) EXCEPT
                       !.user = TRUE, !.timers = @ \cup {"dashboard"}]
        BY <1>24, <2>1 DEF GuideReturn
      <4>2. QED  BY <1>3, <3>2, <4>1, SignedInOK
    <3>4. QED  BY <1>24, <2>1, <3>1, <3>3, StoredOK DEF GuideReturn, SessionInv
  <2>2. CASE c.answer = "denied"
    BY <1>1, <1>24, <2>2, InterceptedOK, ClearedOK DEF GuideReturn, SessionInv
  <2>3. QED  BY <1>24, <2>1, <2>2 DEF GuideReturn
<1>25. ASSUME NEW c \in tab.calls, Lost(c) PROVE SessionInv'
  BY <1>1, <1>25, CallGone, KeptOK DEF Lost, SessionInv
<1>26. ASSUME NEW c \in tab.calls, LogoutReturn(c) PROVE SessionInv'
  <2> DEFINE r == Intercepted(Answered(tab, c), c)
  <2>1. TabOK(r)
    BY <1>1, InterceptedOK
  <2>2. /\ r.loading /\ "check" \notin r.timers
        /\ r.gate \notin {"checking", "error"}
        /\ \A d \in r.calls : d.kind # "logout"
    BY <1>1, <1>3, <1>26
       DEF LogoutReturn, Intercepted, Answered, TabOK, Tab, Leaving
  <2> HIDE DEF r
  <2>3. TabOK([r EXCEPT !.user = FALSE, !.timers = @ \cup {"logout"}])
    BY <2>1, <2>2 DEF TabOK, Tab, Leaving, Timers
  <2>4. QED  BY <1>26, <2>3, ClearedOK DEF LogoutReturn, SessionInv, r
<1>27. CASE LoginElsewhere \/ OtherTabLogsIn
  <2>1. Issue
    BY <1>27 DEF LoginElsewhere, OtherTabLogsIn
  <2>2. issued' \in Tokens /\ issued' # 0
    BY <2>1, IssueOK, SessionAssumption DEF Tokens
  <2>3. /\ issued' \in 0 .. MaxLogins /\ jti' \in Tokens \cup {0}
        /\ UNCHANGED <<setup, expired>>
    BY <2>1, IssueOK
  <2>4. CASE LoginElsewhere
    BY <1>1, <2>3, <2>4
       DEF LoginElsewhere, SessionInv, StoreOK, UserHasToken, storage
  <2>5. CASE OtherTabLogsIn
    BY <1>1, <2>2, <2>3, <2>5 DEF OtherTabLogsIn, SessionInv, StoreOK, UserHasToken
  <2>6. QED  BY <1>27, <2>4, <2>5
<1>28. CASE Expire \/ Restart
  <2>1. 1 .. issued \subseteq Tokens
    BY <1>1, SessionAssumption DEF StoreOK, Tokens
  <2>2. /\ setup' \in BOOLEAN /\ jti' \in Tokens \cup {0}
        /\ issued' = issued /\ expired' \subseteq Tokens
    BY <1>1, <1>28, <2>1 DEF Expire, Restart, StoreOK
  <2>3. QED  BY <1>1, <1>28, <2>2
             DEF Expire, Restart, SessionInv, StoreOK, UserHasToken, storage
<1>29. CASE OtherTabClears
  BY <1>1, <1>29, ClearedOK DEF OtherTabClears, SessionInv
<1>30. CASE UNCHANGED vars
  BY <1>1, <1>30, KeptOK DEF vars, SessionInv
<1>31. ASSUME NEW c \in tab.calls, LoginUnmounted(c) PROVE SessionInv'
  <2>1. c.kind = "login" /\ \A d \in tab.calls : d.kind # "left"
    BY <1>31 DEF LoginUnmounted, Busy
  <2>2. TabOK([tab EXCEPT !.calls = (@ \ {c}) \cup
                  {[c EXCEPT !.kind = "left"]}])
    BY <1>1, <2>1, CallLeft
  <2>3. QED  BY <1>31, <2>2, KeptOK DEF LoginUnmounted, SessionInv
<1>32. QED
  BY <1>4, <1>5, <1>6, <1>7, <1>8, <1>9, <1>10, <1>11, <1>12, <1>13, <1>14,
     <1>15, <1>16, <1>17, <1>18, <1>19, <1>20, <1>21, <1>22, <1>23, <1>24,
     <1>25, <1>26, <1>27, <1>28, <1>29, <1>30, <1>31 DEF Next

LEMMA AlwaysSessionInv == Spec => []SessionInv
<1>1. QED  BY SessionInit, SessionNext, PTL DEF Spec

-----------------------------------------------------------------------------
\* For every number of logins and page loads: the tab, its requests and the
\* localStorage stay what they are declared to be, and no request of a kind
\* is sent while another is under way.
THEOREM SessionTypeCorrect == Spec => []TypeOK
<1>1. SessionInv => TypeOK
  BY DEF SessionInv, StoreOK, TabOK, Tab, TypeOK
<1>2. QED  BY <1>1, AlwaysSessionInv, PTL

\* For every order of answers, timers, page loads, other tabs and restarts: a
\* remembered user (nowhere.user) always comes with a token (nowhere.token).
THEOREM UserComesWithToken == Spec => []UserHasToken
<1>1. SessionInv => UserHasToken
  BY DEF SessionInv
<1>2. QED  BY <1>1, AlwaysSessionInv, PTL

-----------------------------------------------------------------------------
(* WebTags: both forms are one. *)

TagsInv == Tags!TypeOK /\ Tags!TabsAgree

\* What the editor holds, and whether its two forms agree.
Editor(u) ==
    u \in Tags!Page
    /\ (u.tab = "template" /\ u.json.is = "tags" => u.json.tags = u.fields)

LEMMA TextOfTags ==
    ASSUME NEW tags \in Tags!Tags
    PROVE  /\ Tags!AsText(tags) \in Tags!Text
           /\ Tags!AsText(tags).tags = tags
BY DEF Tags!Text, Tags!AsText

LEMMA JsonOfFields ==
    ASSUME NEW u \in Tags!Page
    PROVE  /\ Editor(Tags!UpdateJsonFromFields(u))
           /\ Tags!UpdateJsonFromFields(u).tab = u.tab
           /\ \A b \in BOOLEAN, t \in {"json", "template"} :
                 Editor([Tags!UpdateJsonFromFields(u) EXCEPT !.tab = t])
<1>1. Tags!AsText(u.fields) \in Tags!Text
      /\ Tags!AsText(u.fields).tags = u.fields
  BY TextOfTags DEF Tags!Page
<1>2. QED  BY <1>1 DEF Editor, Tags!UpdateJsonFromFields, Tags!Page

LEMMA Parsed ==
    ASSUME NEW old \in Tags!Tags, NEW tags \in Tags!Tags
    PROVE  Tags!Parse(old, tags) \in Tags!Tags
BY DEF Tags!Parse, Tags!Tags

LEMMA FieldsOfTags ==
    ASSUME NEW u \in Tags!Page, NEW tags \in Tags!Tags
    PROVE  Editor(Tags!InitializeFromTags(u, tags))
<1> DEFINE w == [u EXCEPT !.fields =
                    IF tags = Tags!NoTags THEN Tags!NoTags ELSE Tags!Parse(@, tags)]
<1>1. Tags!NoTags \in Tags!Tags
  BY DEF Tags!NoTags, Tags!Tags, Tags!Value
<1>2. Tags!Parse(u.fields, tags) \in Tags!Tags
  BY Parsed DEF Tags!Page
<1>3. w \in Tags!Page
  BY <1>1, <1>2 DEF Tags!Page
<1>4. QED  BY <1>3, JsonOfFields DEF Tags!InitializeFromTags

LEMMA FieldsOfJson ==
    ASSUME NEW u \in Tags!Page
    PROVE  Editor([Tags!UpdateFieldsFromJson(u) EXCEPT !.tab = "template"])
<1>1. u.json \in Tags!Text /\ u.fields \in Tags!Tags
  BY DEF Tags!Page
<1>2. \/ u.json.is = "tags" /\ u.json.tags \in Tags!Tags
      \/ u.json.is \in {Bad, Scalar}
  BY <1>1 DEF Tags!Text, Tags!AsText
<1>3. "tags" \notin {Bad, Scalar} /\ Bad # Scalar
  BY PagesAssumption DEF Tags!TagsAssumption
<1>4. CASE u.json.is \in {Bad, Scalar}
  BY <1>3, <1>4 DEF Editor, Tags!UpdateFieldsFromJson, Tags!Page
<1>5. CASE u.json.is = "tags" /\ u.json.tags \in Tags!Tags
  <2> DEFINE w == [u EXCEPT !.fields = Tags!Parse(@, u.json.tags)]
  <2>1. Tags!Parse(u.fields, u.json.tags) \in Tags!Tags
    BY <1>1, <1>5, Parsed
  <2>2. w \in Tags!Page
    BY <2>1 DEF Tags!Page
  <2>3. Tags!UpdateFieldsFromJson(u) = Tags!UpdateJsonFromFields(w)
    BY <1>3, <1>5 DEF Tags!UpdateFieldsFromJson
  <2>4. QED  BY <2>2, <2>3, JsonOfFields
<1>6. QED  BY <1>2, <1>4, <1>5

LEMMA TagsInit == Tags!Init => TagsInv
<1> SUFFICES ASSUME Tags!Init PROVE TagsInv
  OBVIOUS
<1> DEFINE u == [open |-> FALSE, tab |-> "json", fields |-> Tags!NoTags,
                 json |-> Tags!AsText(Tags!NoTags), isJsonError |-> FALSE,
                 isSaving |-> FALSE]
<1>1. Tags!NoTags \in Tags!Tags
  BY DEF Tags!NoTags, Tags!Tags, Tags!Value
<1>2. u \in Tags!Page
  BY <1>1, TextOfTags DEF Tags!Page
<1>3. Editor(Tags!InitializeFromTags(u, srv)) /\ srv \in Tags!Tags
  BY <1>2, FieldsOfTags DEF Tags!Init
<1>4. QED
  BY <1>3 DEF Tags!Init, TagsInv, Tags!TypeOK, Tags!TabsAgree, Editor

LEMMA TagsNext == TagsInv /\ Tags!Next => TagsInv'
<1> SUFFICES ASSUME TagsInv, Tags!Next PROVE TagsInv'
  OBVIOUS
<1>1. ui \in Tags!Page /\ srv \in Tags!Tags /\ net \subseteq Tags!Tags
      /\ ui.json \in Tags!Text /\ ui.fields \in Tags!Tags /\ Editor(ui)
  BY DEF TagsInv, Tags!TypeOK, Tags!Page, Tags!TabsAgree, Editor
<1>2. ASSUME Editor(ui'), srv' \in Tags!Tags, net' \subseteq Tags!Tags
      PROVE  TagsInv'
  BY <1>2 DEF TagsInv, Tags!TypeOK, Tags!TabsAgree, Editor
<1>3. \A b \in BOOLEAN : [ui EXCEPT !.open = b] \in Tags!Page
  BY <1>1 DEF Tags!Page
<1>4. CASE Tags!Open \/ Tags!Close \/ Tags!Poll
  <2>1. Editor(ui')
    BY <1>1, <1>3, <1>4, FieldsOfTags DEF Tags!Open, Tags!Close, Tags!Poll
  <2>2. QED  BY <1>1, <1>2, <1>4, <2>1 DEF Tags!Open, Tags!Close, Tags!Poll
<1>5. CASE Tags!HandleTabChange
  <2>1. CASE ui.tab = "json"
    BY <1>1, <1>2, <1>5, <2>1, FieldsOfJson DEF Tags!HandleTabChange
  <2>2. CASE ui.tab # "json"
    BY <1>1, <1>2, <1>5, <2>2, JsonOfFields DEF Tags!HandleTabChange
  <2>3. QED  BY <2>1, <2>2
<1>6. CASE Tags!HandleSave
  <2>1. Editor(ui') /\ srv' = srv
    BY <1>1, <1>6 DEF Tags!HandleSave, Editor, Tags!Page
  <2>2. net' \subseteq Tags!Tags
    <3>1. ui.json.is = "tags" => ui.json.tags \in Tags!Tags
      BY <1>1, PagesAssumption
         DEF Tags!Text, Tags!AsText, Tags!TagsAssumption
    <3>2. QED  BY <1>1, <1>6, <3>1 DEF Tags!HandleSave
  <2>3. QED  BY <1>1, <1>2, <2>1, <2>2
<1>7. CASE Tags!SaveFails
  <2>1. Editor(ui') /\ srv' = srv /\ net' = {}
    BY <1>1, <1>7 DEF Tags!SaveFails, Editor, Tags!Page
  <2>2. QED  BY <1>1, <1>2, <2>1
<1>8. ASSUME NEW text \in Tags!Text, Tags!HandleJsonChange(text) PROVE TagsInv'
  <2>1. Editor(ui') /\ srv' = srv /\ net' = net
    BY <1>1, <1>8 DEF Tags!HandleJsonChange, Editor, Tags!Page
  <2>2. QED  BY <1>1, <1>2, <2>1
<1>9. ASSUME NEW f \in Tags!Field, NEW v \in Tags!Value, Tags!ChangeField(f, v)
      PROVE  TagsInv'
  <2>1. [ui EXCEPT !.fields[f] = v] \in Tags!Page
    BY <1>1 DEF Tags!Page, Tags!Tags
  <2>2. Editor(ui') /\ srv' = srv /\ net' = net
    BY <1>9, <2>1, JsonOfFields DEF Tags!ChangeField
  <2>3. QED  BY <1>1, <1>2, <2>2
<1>10. ASSUME NEW tags \in net, Tags!SaveReturns(tags) PROVE TagsInv'
  <2>1. tags \in Tags!Tags /\ srv' = tags /\ net' = {}
    BY <1>1, <1>10 DEF Tags!SaveReturns
  <2>2. /\ [ui EXCEPT !.isSaving = FALSE, !.open = FALSE] \in Tags!Page
        /\ Editor([ui EXCEPT !.isSaving = FALSE])
    BY <1>1 DEF Tags!Page, Editor
  <2>3. Editor(ui')
    BY <1>1, <1>10, <2>2, FieldsOfTags DEF Tags!SaveReturns
  <2>4. QED  BY <1>2, <2>1, <2>3
<1>11. QED
  BY <1>4, <1>5, <1>6, <1>7, <1>8, <1>9, <1>10 DEF Tags!Next

-----------------------------------------------------------------------------
(* WebNodeAdd: every edit of one field sees to the other. *)

AddInv == NodeAdd!TypeOK /\ NodeAdd!IpIsOwnOrTyped /\ NodeAdd!CommandFitsToken

LEMMA AddInit == NodeAdd!Init => AddInv
<1>1. NodeAdd!DefaultForm \in NodeAdd!GuidedInstallForm
  BY PagesAssumption
     DEF NodeAdd!AddAssumption, NodeAdd!DefaultForm, NodeAdd!GuidedInstallForm
<1>2. NodeAdd!NoDraft \in NodeAdd!EndpointDraft
      /\ NodeAdd!NoDraft.ip = NodeAdd!NoDraft.url
  BY DEF NodeAdd!NoDraft, NodeAdd!EndpointDraft, NodeAdd!Maybe
<1>3. QED
  BY <1>1, <1>2 DEF NodeAdd!Init, AddInv, NodeAdd!TypeOK, NodeAdd!Page,
     NodeAdd!IpIsOwnOrTyped, NodeAdd!CommandFitsToken

LEMMA AddNext == AddInv /\ NodeAdd!Next => AddInv'
<1> SUFFICES ASSUME AddInv, NodeAdd!Next PROVE AddInv'
  OBVIOUS
<1>1. NodeAdd!DefaultForm \in NodeAdd!GuidedInstallForm
  BY PagesAssumption
     DEF NodeAdd!AddAssumption, NodeAdd!DefaultForm, NodeAdd!GuidedInstallForm
<1>2. NodeAdd!NoDraft \in NodeAdd!EndpointDraft
      /\ NodeAdd!NoDraft.ip = NodeAdd!NoDraft.url
  BY DEF NodeAdd!NoDraft, NodeAdd!EndpointDraft, NodeAdd!Maybe
<1> USE DEF AddInv, NodeAdd!TypeOK, NodeAdd!Page, NodeAdd!IpIsOwnOrTyped,
            NodeAdd!CommandFitsToken
<1>3. CASE NodeAdd!Open
  <2>1. CASE ui' = [ui EXCEPT !.modal = "form"]
    BY <1>3, <2>1 DEF NodeAdd!Open
  <2>2. CASE ui' = [ui EXCEPT !.modal = "guided",
                       !.guided = NodeAdd!DefaultForm, !.command = None]
    <3> HIDE DEF NodeAdd!DefaultForm
    <3>1. ui' \in NodeAdd!Page
      BY <1>1, <2>2
    <3>2. ui'.draft = ui.draft /\ ui'.command = None
      BY <2>2
    <3>3. UNCHANGED <<net, srv>>
      BY <1>3 DEF NodeAdd!Open
    <3>4. QED  BY <3>1, <3>2, <3>3
  <2>3. QED  BY <1>3, <2>1, <2>2 DEF NodeAdd!Open
<1>4. CASE NodeAdd!HandleModalClose \/ NodeAdd!HandleOpenChange
  <2>1. CASE NodeAdd!HandleModalClose
    <3>1. PICK m \in {"none", "import", "form"} : ui' = [ui EXCEPT !.modal = m]
      BY <2>1 DEF NodeAdd!HandleModalClose
    <3>2. UNCHANGED <<net, srv>>
      BY <2>1 DEF NodeAdd!HandleModalClose
    <3>3. QED  BY <3>1, <3>2
  <2>2. CASE NodeAdd!HandleOpenChange
    BY <2>2 DEF NodeAdd!HandleOpenChange
  <2>3. QED  BY <1>4, <2>1, <2>2
<1>5. CASE NodeAdd!TestCompatibility \/ NodeAdd!TestReturns
           \/ NodeAdd!CloseTestResult
  <2>1. CASE NodeAdd!TestCompatibility
    BY <2>1 DEF NodeAdd!TestCompatibility
  <2>2. CASE NodeAdd!TestReturns
    <3>1. net' = [net EXCEPT !.test = FALSE] /\ UNCHANGED srv
      BY <2>2 DEF NodeAdd!TestReturns
    <3>2. \/ ui' = [ui EXCEPT !.testing = FALSE]
          \/ \E ok \in BOOLEAN :
                ui' = [ui EXCEPT !.testing = FALSE, !.canAdd = ok,
                                 !.modal = "result"]
      BY <2>2 DEF NodeAdd!TestReturns
    <3>3. PICK ok \in BOOLEAN, m \in {ui.modal, "result"} :
             ui' = [ui EXCEPT !.testing = FALSE, !.canAdd = ok, !.modal = m]
      BY <3>2
    <3>4. /\ ui' \in NodeAdd!Page
          /\ ui'.draft = ui.draft /\ ui'.command = ui.command
      BY <3>3
    <3>5. QED  BY <3>1, <3>4
  <2>3. CASE NodeAdd!CloseTestResult
    BY <2>3 DEF NodeAdd!CloseTestResult
  <2>4. QED  BY <1>5, <2>1, <2>2, <2>3
<1>6. CASE NodeAdd!AddFromTestResult
  BY <1>2, <1>6 DEF NodeAdd!AddFromTestResult
<1>7. ASSUME NEW u \in NodeAdd!Maybe(Hosts), NodeAdd!InputUrl(u) PROVE AddInv'
  BY <1>7 DEF NodeAdd!InputUrl, NodeAdd!Follows, NodeAdd!EndpointDraft
<1>8. ASSUME NEW i \in NodeAdd!Maybe(Hosts), NodeAdd!InputIp(i) PROVE AddInv'
  BY <1>8 DEF NodeAdd!InputIp, NodeAdd!EndpointDraft
<1>9. ASSUME NEW u \in Hosts, NodeAdd!ParseImportConfig(u) PROVE AddInv'
  BY <1>9 DEF NodeAdd!ParseImportConfig, NodeAdd!EndpointDraft, NodeAdd!Maybe
<1>10. ASSUME NEW n \in Names, NEW ok \in BOOLEAN, NodeAdd!UpdateField(n, ok)
       PROVE  AddInv'
  BY <1>10 DEF NodeAdd!UpdateField, NodeAdd!GuidedInstallForm
<1>11. CASE NodeAdd!Generate
  BY <1>11 DEF NodeAdd!Generate
<1>12. CASE NodeAdd!GenerateReturns
  <2>1. net.token \in NodeAdd!GuidedInstallForm
    BY <1>12 DEF NodeAdd!GenerateReturns
  <2>2. /\ NodeAdd!BuildCommand(net.token) \in NodeAdd!Command
        /\ NodeAdd!BuildCommand(net.token).name
              = NodeAdd!BuildCommand(net.token).token
    BY <2>1 DEF NodeAdd!BuildCommand, NodeAdd!Command,
                NodeAdd!GuidedInstallForm
  <2>3. QED  BY <1>12, <2>2 DEF NodeAdd!GenerateReturns
<1>13. QED
  BY <1>3, <1>4, <1>5, <1>6, <1>7, <1>8, <1>9, <1>10, <1>11, <1>12
     DEF NodeAdd!Next

-----------------------------------------------------------------------------
(* WebEndpointData: what is picked is picked in the list that is shown.     *)

DataInv ==
    /\ ui \in [loading : SUBSET {"stats", "instances"}, modal : Data!Modals,
               envelope : Data!Lists, picked : SUBSET Nat,
               spinning : BOOLEAN,
               restore : {"pick", "file", "importing", "result"}]
    /\ net \subseteq Data!Lists /\ srv \in SUBSET Insts
    /\ Data!PicksAreShown

LEMMA ListsAreSequences ==
    /\ << >> \in Data!Lists
    /\ Data!Lists \subseteq Seq(Insts)
    /\ \A l \in Data!Lists : 1 .. Len(l) \subseteq 1 .. Data!Cardinality(Insts)
<1>1. Data!Cardinality(Insts) \in Nat
  <2>1. Data!Cardinality(Insts) = Cardinality(Insts)
    BY Zenon DEF Data!Cardinality, Cardinality
  <2>2. QED
    BY <2>1, PagesAssumption, FS_CardinalityType
       DEF Data!InstsAssumption, Data!IsFiniteSet, IsFiniteSet
<1>2. << >> \in [1 .. 0 -> Insts] /\ Data!IsInjective(<< >>)
  BY DEF Data!IsInjective
<1>3. << >> \in Data!Lists
  BY <1>1, <1>2 DEF Data!Lists
<1>4. ASSUME NEW l \in Data!Lists
      PROVE  l \in Seq(Insts) /\ 1 .. Len(l) \subseteq 1 .. Data!Cardinality(Insts)
  <2>1. PICK n \in 0 .. Data!Cardinality(Insts) : l \in [1 .. n -> Insts]
    BY <1>4 DEF Data!Lists
  <2>2. n \in Nat /\ n <= Data!Cardinality(Insts)
    BY <1>1, <2>1
  <2>3. l \in Seq(Insts) /\ Len(l) = n
    BY <2>1, <2>2
  <2>4. QED  BY <1>1, <2>2, <2>3
<1>5. QED  BY <1>3, <1>4

LEMMA DataInit == Data!Init => DataInv
BY ListsAreSequences DEF Data!Init, DataInv, Data!PicksAreShown, Data!Modals

LEMMA DataNext == DataInv /\ Data!Next => DataInv'
<1> SUFFICES ASSUME DataInv, Data!Next PROVE DataInv'
  OBVIOUS
<1> USE DEF DataInv, Data!PicksAreShown, Data!Modals
<1>1. CASE Data!RefreshAll \/ Data!RefreshTunnels \/ Data!InstancesReturn
           \/ Data!StatsReturn \/ Data!ClearLogs
  <2>1. UNCHANGED <<net, srv>>
    BY <1>1 DEF Data!RefreshAll, Data!RefreshTunnels, Data!InstancesReturn,
                Data!StatsReturn, Data!ClearLogs
  <2>2. CASE Data!RefreshAll \/ Data!RefreshTunnels
    BY <2>1, <2>2 DEF Data!RefreshAll, Data!RefreshTunnels, Data!Awaiting
  <2>3. CASE Data!InstancesReturn \/ Data!StatsReturn
    BY <2>1, <2>3 DEF Data!InstancesReturn, Data!StatsReturn
  <2>4. CASE Data!ClearLogs
    BY <2>1, <2>4 DEF Data!ClearLogs, Data!Awaiting
  <2>5. QED  BY <1>1, <2>2, <2>3, <2>4
<1>2. CASE Data!OpenModal \/ Data!CloseModal \/ Data!ConfirmBackup
           \/ Data!PickFile \/ Data!SubmitRestore
  <2>1. CASE Data!OpenModal
    BY <2>1 DEF Data!OpenModal
  <2>2. CASE Data!CloseModal \/ Data!ConfirmBackup
    BY <2>2 DEF Data!CloseModal, Data!ConfirmBackup
  <2>3. CASE Data!PickFile \/ Data!SubmitRestore
    BY <2>3 DEF Data!PickFile, Data!SubmitRestore
  <2>4. QED  BY <1>2, <2>1, <2>2, <2>3
<1>3. CASE Data!OpenBackup
  <2>1. net' \subseteq Data!Lists /\ UNCHANGED srv
    BY <1>3 DEF Data!OpenBackup
  <2>2. ui' = [ui EXCEPT !.modal = "backup", !.envelope = << >>,
                         !.picked = {}, !.spinning = TRUE]
    BY <1>3 DEF Data!OpenBackup
  <2>3. << >> \in Data!Lists
    BY ListsAreSequences
  <2>4. QED  BY <2>1, <2>2, <2>3
<1>4. CASE Data!BackupReturn
  <2>1. PICK l \in net :
          /\ net' = net \ {l}
          /\ \/ ui' = Data!BackupShown(l)
             \/ ui' = [ui EXCEPT !.spinning = FALSE,
                         !.modal = IF @ = "none" THEN "backup" ELSE @]
    BY <1>4 DEF Data!BackupReturn
  <2>2. l \in Data!Lists /\ Len(l) \in Nat /\ srv' = srv
    BY <1>4, ListsAreSequences, LenProperties DEF Data!BackupReturn
  <2>3. CASE ui' = Data!BackupShown(l)
    <3>1. /\ ui'.envelope = l /\ ui'.picked = 1 .. Len(l) /\ ~ui'.spinning
          /\ ui' = [ui EXCEPT !.spinning = FALSE, !.envelope = l,
                              !.picked = 1 .. Len(l)]
      BY <2>3 DEF Data!BackupShown
    <3>2. 1 .. Len(l) \in SUBSET Nat
      BY <2>2
    <3> HIDE DEF Data!PicksAreShown
    <3>3. Data!PicksAreShown'
      BY <3>1 DEF Data!PicksAreShown
    <3>4. QED  BY <2>1, <2>2, <3>1, <3>2, <3>3
  <2>4. CASE ui' = [ui EXCEPT !.spinning = FALSE,
                       !.modal = IF @ = "none" THEN "backup" ELSE @]
    BY <2>1, <2>2, <2>4
  <2>5. QED  BY <2>1, <2>3, <2>4
<1>5. CASE Data!ToggleBackup \/ Data!ToggleBackupAll
  <2>1. Len(ui.envelope) \in Nat
    BY ListsAreSequences, LenProperties
  <2>2. ~ui.spinning /\ UNCHANGED <<net, srv>>
    BY <1>5 DEF Data!ToggleBackup, Data!ToggleBackupAll, Data!MayPick
  <2>3. PICK p : p \in SUBSET (1 .. Len(ui.envelope))
                 /\ ui' = [ui EXCEPT !.picked = p]
    <3>1. CASE Data!ToggleBackup
      <4>1. PICK i \in 1 .. Len(ui.envelope) :
               ui' = [ui EXCEPT !.picked = IF i \in @ THEN @ \ {i}
                                           ELSE @ \cup {i}]
        BY <3>1 DEF Data!ToggleBackup
      <4>2. ui.picked \ {i} \subseteq 1 .. Len(ui.envelope)
            /\ ui.picked \cup {i} \subseteq 1 .. Len(ui.envelope)
        OBVIOUS
      <4>3. QED  BY <4>1, <4>2
    <3>2. CASE Data!ToggleBackupAll
      BY <3>2 DEF Data!ToggleBackupAll
    <3>3. QED  BY <1>5, <3>1, <3>2
  <2>4. p \in SUBSET Nat
    BY <2>1, <2>3
  <2>5. QED  BY <2>2, <2>3, <2>4
<1>6. CASE Data!RestoreReturn \/ Data!Meanwhile
  <2>1. CASE Data!RestoreReturn
    <3>1. net' = net /\ srv' \in SUBSET Insts
      BY <2>1 DEF Data!RestoreReturn
    <3>2. CASE ui' = [Data!Awaiting("instances") EXCEPT !.restore = "result"]
      <4>1. ui' = [ui EXCEPT !.loading = ui.loading \cup {"instances"},
                             !.restore = "result"]
        BY <3>2 DEF Data!Awaiting
      <4>2. QED  BY <3>1, <4>1
    <3>3. CASE \E p \in {"pick", "file"} : ui' = [ui EXCEPT !.restore = p]
      BY <3>1, <3>3
    <3>4. QED  BY <2>1, <3>2, <3>3 DEF Data!RestoreReturn
  <2>2. CASE Data!Meanwhile
    BY <2>2 DEF Data!Meanwhile
  <2>3. QED  BY <1>6, <2>1, <2>2
<1>7. QED
  BY <1>1, <1>2, <1>3, <1>4, <1>5, <1>6 DEF Data!Next

LEMMA DataTyped == DataInv => Data!TypeOK
<1> SUFFICES ASSUME DataInv PROVE Data!TypeOK
  OBVIOUS
<1>1. ui.picked \in SUBSET (1 .. Data!Cardinality(Insts))
  BY ListsAreSequences DEF DataInv, Data!PicksAreShown
<1>2. QED  BY <1>1 DEF DataInv, Data!TypeOK, Data!Page

-----------------------------------------------------------------------------
(* WebSubscriptions: what an answer to this modal's request says is what    *)
(* the server has, until another request is sent, unless one that has       *)
(* failed may still be written.                                             *)

PlanSaves == [PlanList!Slots -> PlanList!Request]
PlanNet == [lists : SUBSET PlanList!List, saves : PlanSaves]

PlanHolds(v, k, stages) == v[k].stage \in stages
PlanUnderWay(v, k) == PlanHolds(v, k, {"sent", "written", "left"})
PlanForm(v, k) == PlanHolds(v, k, {"sent", "written"}) /\ v[k].form

\* Of what the page holds (u), the requests to save (v) and the server (s).
PlanShown(u, v, s) ==
    /\ u.form => u.target = None
    /\ u.savedHere => u.target # None
    /\ u.savedHere /\ (\A k \in PlanList!Slots : ~PlanUnderWay(v, k))
       /\ s[u.target] # PlanList!NoRow
          => s[u.target].prefs = u.saved

PlanAlone(v) ==
    \A j, k \in PlanList!Slots :
       PlanUnderWay(v, k) /\ v[k].alone /\ PlanUnderWay(v, j) => j = k

PlanWritten(v, s) ==
    \A k \in PlanList!Slots :
       PlanHolds(v, k, {"written"}) /\ v[k].alone /\ v[k].sub # None
       /\ s[v[k].sub] # PlanList!NoRow
          => s[v[k].sub].prefs = v[k].row.prefs

PlanLeft(u, v) ==
    \A k \in PlanList!Slots : PlanHolds(v, k, {"left"}) => ~u.savedHere

\* A form that has been sent stays open until it is answered.
PlanForms(u, v) ==
    \A j, k \in PlanList!Slots :
       PlanForm(v, k) => /\ u.form /\ u.editing = v[k].sub
                         /\ PlanForm(v, j) => j = k

PlanSound(u, v, s) ==
    /\ PlanShown(u, v, s) /\ PlanAlone(v) /\ PlanWritten(v, s)
    /\ PlanLeft(u, v) /\ PlanForms(u, v)

PlansInv ==
    /\ ui \in PlanList!Page /\ net \in PlanNet /\ srv \in PlanList!List
    /\ ui.target # None => ui.row \in PlanList!Row /\ ui.prefs \in Prefs
    /\ ui.editing # None => ui.edited \in PlanList!Row
    /\ PlanSound(ui, net.saves, srv)

LEMMA PlansTyped == PlansInv => PlanList!TypeOK
BY DEF PlansInv, PlanNet, PlanSaves, PlanList!TypeOK

LEMMA PlansSaved == PlansInv => PlanList!NothingToSaveIsSaved
BY DEF PlansInv, PlanSound, PlanShown, PlanUnderWay, PlanHolds,
       PlanList!NothingToSaveIsSaved, PlanList!PreferencesDirty,
       PlanList!UnderWay, PlanList!Holds

\* Nothing but a subscription that is gone.
LEMMA PlanSame ==
    ASSUME NEW u, NEW v \in PlanSaves, NEW s, PlanSound(u, v, s), NEW w, NEW t,
           w.form = u.form, w.editing = u.editing, w.target = u.target,
           w.saved = u.saved, w.savedHere = u.savedHere,
           u.target \in Subs \cup {None},
           \A x \in Subs : t[x] \in {s[x], PlanList!NoRow}
    PROVE  PlanSound(w, v, t)
<1>1. \A k \in PlanList!Slots :
          v[k].sub \in Subs \cup {None}
  BY DEF PlanSaves, PlanList!Request
<1>2. PlanShown(w, v, t)
  BY DEF PlanSound, PlanShown
<1>3. PlanWritten(v, t)
  BY <1>1 DEF PlanSound, PlanWritten, PlanHolds
<1>4. PlanLeft(w, v) /\ PlanForms(w, v)
  BY DEF PlanSound, PlanLeft, PlanForms
<1>5. QED  BY <1>2, <1>3, <1>4 DEF PlanSound

\* Another page, on which nothing is known to be saved.
LEMMA PlanOther ==
    ASSUME NEW u, NEW v \in PlanSaves, NEW s, PlanSound(u, v, s), NEW w,
           ~w.savedHere, w.form => w.target = None,
           \/ w.form = u.form /\ w.editing = u.editing
           \/ \A k \in PlanList!Slots : ~PlanForm(v, k)
    PROVE  PlanSound(w, v, s)
BY DEF PlanSound, PlanShown, PlanLeft, PlanForms

\* A slot that is under way no more, and the page that goes with it.
LEMMA PlanEnded ==
    ASSUME NEW u, NEW v \in PlanSaves, NEW s, PlanSound(u, v, s),
           NEW k \in PlanList!Slots, NEW q, NEW w, NEW t,
           q.stage \in {"free", "listing"},
           \A x \in PlanList!Slots :
              PlanHolds(v, x, {"written"}) /\ x # k /\ v[x].alone => t = s,
           PlanShown(w, [v EXCEPT ![k] = q], t),
           PlanLeft(w, [v EXCEPT ![k] = q]),
           \/ w.form = u.form /\ w.editing = u.editing
           \/ PlanForm(v, k)
    PROVE  PlanSound(w, [v EXCEPT ![k] = q], t)
<1> DEFINE z == [v EXCEPT ![k] = q]
<1>1. /\ z[k] = q /\ \A x \in PlanList!Slots : x # k => z[x] = v[x]
  BY DEF PlanSaves
<1> HIDE DEF z
<1>2. /\ ~PlanUnderWay(z, k) /\ ~PlanForm(z, k) /\ ~PlanHolds(z, k, {"written"})
      /\ \A x \in PlanList!Slots : x # k =>
            /\ PlanUnderWay(z, x) = PlanUnderWay(v, x)
            /\ PlanForm(z, x) = PlanForm(v, x)
            /\ PlanHolds(z, x, {"written"}) = PlanHolds(v, x, {"written"})
  BY <1>1 DEF PlanUnderWay, PlanForm, PlanHolds
<1>3. PlanAlone(z)
  BY <1>1, <1>2 DEF PlanSound, PlanAlone
<1>4. PlanWritten(z, t)
  BY <1>1, <1>2 DEF PlanSound, PlanWritten
<1>5. PlanForms(w, z)
  BY <1>1, <1>2 DEF PlanSound, PlanForms
<1>6. QED  BY <1>3, <1>4, <1>5 DEF PlanSound, z

LEMMA PlansInit == PlanList!Init => PlansInv
<1> SUFFICES ASSUME PlanList!Init PROVE PlansInv
  OBVIOUS
<1>1. /\ ui \in PlanList!Page /\ ui.target = None /\ ~ui.savedHere
      /\ ui.editing = None
  BY DEF PlanList!Init, PlanList!Page, PlanList!EmptyList, PlanList!List,
         PlanList!NoPending
<1>2. srv \in PlanList!List
  BY DEF PlanList!Init, PlanList!List
<1>3. /\ net \in PlanNet
      /\ \A k \in PlanList!Slots : /\ net.saves[k].stage = "free"
                                   /\ ~net.saves[k].form
  <2>1. /\ PlanList!Free \in PlanList!Request
        /\ PlanList!Free.stage = "free" /\ ~PlanList!Free.form
    BY DEF PlanList!Free, PlanList!Request, PlanList!EmptyList, PlanList!List
  <2>2. QED  BY <1>2, <2>1 DEF PlanList!Init, PlanNet, PlanSaves
<1>4. PlanSound(ui, net.saves, srv)
  BY <1>1, <1>3 DEF PlanSound, PlanShown, PlanAlone, PlanWritten, PlanLeft,
                    PlanForms, PlanForm, PlanUnderWay, PlanHolds
<1>5. QED  BY <1>1, <1>2, <1>3, <1>4 DEF PlansInv

\* A request is sent: it is alone if no other is under way.
LEMMA PlanSent ==
    ASSUME PlansInv, NEW k \in PlanList!Slots, NEW sub \in Subs \cup {None},
           NEW row \in PlanList!Row \cup {PlanList!NoRow}, NEW form \in BOOLEAN,
           PlanList!Send(k, sub, row, form),
           ui'.form = ui.form, ui'.editing = ui.editing,
           ui'.target = ui.target, ui'.savedHere = ui.savedHere, srv' = srv,
           form => /\ ui.form /\ ui.editing = sub
                   /\ \A j \in PlanList!Slots : ~PlanForm(net.saves, j)
    PROVE  net' \in PlanNet /\ PlanSound(ui', net'.saves, srv')
<1> DEFINE v == net.saves
           alone == \A i \in PlanList!Slots : ~PlanList!UnderWay(i)
           q == [sub |-> sub, row |-> row, form |-> form, alone |-> alone,
                 stage |-> "sent", list |-> PlanList!EmptyList]
           z == [j \in PlanList!Slots |->
                    IF j = k THEN q ELSE [v[j] EXCEPT !.alone = FALSE]]
<1>1. /\ v \in PlanSaves /\ v[k].stage = "free" /\ net \in PlanNet
      /\ PlanSound(ui, v, srv)
  BY DEF PlansInv, PlanNet, PlanList!Send, PlanList!Holds
<1>2. net' = [net EXCEPT !.saves = z]
  BY Zenon DEF PlanList!Send
<1>3. alone \in BOOLEAN /\ (alone => \A i \in PlanList!Slots : ~PlanUnderWay(v, i))
  BY DEF PlanUnderWay, PlanHolds, PlanList!UnderWay, PlanList!Holds
<1> HIDE DEF alone
<1>4. /\ q \in PlanList!Request /\ q.stage = "sent" /\ q.form = form
      /\ q.sub = sub /\ q.alone = alone
  BY <1>3 DEF PlanList!Request, PlanList!EmptyList, PlanList!List
<1> HIDE DEF q, v
<1>5. ASSUME NEW j \in PlanList!Slots, j # k
      PROVE  /\ z[j] \in PlanList!Request /\ z[j].stage = v[j].stage
             /\ z[j].form = v[j].form /\ z[j].sub = v[j].sub /\ ~z[j].alone
  <2>1. v[j] \in PlanList!Request
    BY <1>1 DEF PlanSaves
  <2>2. z[j] = [v[j] EXCEPT !.alone = FALSE]
    BY <1>5
  <2> HIDE DEF z
  <2>3. QED  BY <2>1, <2>2 DEF PlanList!Request
<1>6. z[k] = q /\ z \in PlanSaves
  <2>1. z[k] = q
    OBVIOUS
  <2>2. \A j \in PlanList!Slots : z[j] \in PlanList!Request
    BY <1>4, <1>5, <2>1
  <2>3. QED  BY <2>1, <2>2 DEF PlanSaves
<1> HIDE DEF z
<1>7. net' \in PlanNet /\ net'.saves = z
  BY <1>1, <1>2, <1>6 DEF PlanNet
<1>8. /\ PlanUnderWay(z, k) /\ ~PlanHolds(z, k, {"written"})
      /\ ~PlanHolds(z, k, {"left"}) /\ (PlanForm(z, k) => form)
  BY <1>4, <1>6 DEF PlanUnderWay, PlanHolds, PlanForm
<1>9. ASSUME NEW j \in PlanList!Slots, j # k
      PROVE  /\ PlanUnderWay(z, j) = PlanUnderWay(v, j)
             /\ PlanForm(z, j) = PlanForm(v, j)
             /\ PlanHolds(z, j, {"left"}) = PlanHolds(v, j, {"left"})
  BY <1>5, <1>9 DEF PlanUnderWay, PlanHolds, PlanForm
<1>10. PlanAlone(z)
  BY <1>3, <1>4, <1>5, <1>6, <1>9 DEF PlanAlone
<1>11. PlanWritten(z, srv)
  BY <1>5, <1>8 DEF PlanWritten
<1>12. PlanShown(ui', z, srv)
  BY <1>1, <1>8 DEF PlanSound, PlanShown
<1>13. PlanLeft(ui', z)
  BY <1>1, <1>8, <1>9 DEF PlanSound, PlanLeft
<1>14. PlanForms(ui', z)
  <2>1. CASE form
    BY <1>4, <1>6, <1>9, <2>1 DEF PlanForms, v
  <2>2. CASE ~form
    BY <1>1, <1>5, <1>8, <1>9, <2>2 DEF PlanSound, PlanForms
  <2>3. QED  BY <2>1, <2>2
<1>15. QED
  BY <1>7, <1>10, <1>11, <1>12, <1>13, <1>14 DEF PlanSound

LEMMA PlansNext == PlansInv /\ PlanList!Next => PlansInv'
<1> SUFFICES ASSUME PlansInv, PlanList!Next PROVE PlansInv'
  OBVIOUS
<1> DEFINE v == net.saves
<1>1. /\ ui \in PlanList!Page /\ net \in PlanNet /\ srv \in PlanList!List
      /\ v \in PlanSaves /\ net.lists \subseteq PlanList!List
      /\ PlanSound(ui, v, srv)
  BY DEF PlansInv, PlanNet
<1>2. /\ ui.target # None => ui.row \in PlanList!Row /\ ui.prefs \in Prefs
      /\ ui.target \in Subs \cup {None} /\ ui.editing \in Subs \cup {None}
      /\ ui.editing # None => ui.edited \in PlanList!Row
      /\ ui.rows \in PlanList!List
      /\ ui.form \in BOOLEAN /\ ui.savedHere \in BOOLEAN
      /\ ui.saving \in BOOLEAN
  BY <1>1 DEF PlansInv, PlanList!Page
<1> HIDE DEF v
<1>3. PlanList!NoRow \notin PlanList!Row
  BY PagesAssumption
     DEF PlanList!SubscriptionsAssumption, PlanList!NoRow, PlanList!Row
\* What is imported stays, or nothing is.
<1> DEFINE Stays ==
      /\ ui' \in PlanList!Page /\ ui'.row = ui.row /\ ui'.prefs = ui.prefs
      /\ ui'.target = ui.target
      /\ \/ ui'.editing = ui.editing /\ ui'.edited = ui.edited
         \/ ui'.editing = None
           Kept ==
      /\ Stays /\ ui'.form = ui.form /\ ui'.editing = ui.editing
      /\ ui'.saved = ui.saved /\ ui'.savedHere = ui.savedHere
<1>4. ASSUME Stays, net' \in PlanNet, srv' \in PlanList!List,
             PlanSound(ui', net'.saves, srv')
      PROVE  PlansInv'
  BY <1>2, <1>4 DEF PlansInv
<1>5. ASSUME Kept, net' \in PlanNet, net'.saves = v, srv' \in PlanList!List,
             \A x \in Subs : srv'[x] \in {srv[x], PlanList!NoRow}
      PROVE  PlansInv'
  <2>1. PlanSound(ui', v, srv')
    BY <1>1, <1>2, <1>5, PlanSame
  <2>2. QED  BY <1>4, <1>5, <2>1
<1>6. CASE PlanList!LoadData
  <2>1. ui' = [ui EXCEPT !.loading = TRUE] /\ srv' = srv
        /\ net' = [net EXCEPT !.lists = @ \cup {srv}]
    BY <1>6 DEF PlanList!LoadData, PlanList!Loading, PlanList!Fetching
  <2>2. Kept
    BY <1>1, <2>1 DEF PlanList!Page
  <2>3. net' \in PlanNet /\ net'.saves = v
    BY <1>1, <2>1 DEF PlanNet, v
  <2>4. QED  BY <1>1, <1>5, <2>1, <2>2, <2>3
<1>7. ASSUME NEW l \in net.lists, PlanList!ListReturns(l) \/ PlanList!ListFails(l)
      PROVE  PlansInv'
  <2>1. l \in PlanList!List
    BY <1>1
  <2>2. srv' = srv /\ net' \in PlanNet /\ net'.saves = v
    BY <1>1, <1>7 DEF PlanList!ListReturns, PlanList!ListFails,
                      PlanList!Fetched, PlanNet, v
  <2>3. \E rows \in PlanList!List :
            ui' = [ui EXCEPT !.rows = rows, !.loading = FALSE]
    <3>1. ui = [ui EXCEPT !.rows = ui.rows]
      BY <1>1 DEF PlanList!Page
    <3>2. CASE PlanList!ListReturns(l)
      BY <2>1, <3>2 DEF PlanList!ListReturns
    <3>3. CASE PlanList!ListFails(l)
      <4>1. ui' = [ui EXCEPT !.rows = ui.rows, !.loading = FALSE]
        BY <1>1, <3>3 DEF PlanList!ListFails, PlanList!Page
      <4>2. QED  BY <1>2, <4>1
    <3>4. QED  BY <1>7, <3>2, <3>3
  <2>4. Kept
    <3>1. PICK rows \in PlanList!List :
              ui' = [ui EXCEPT !.rows = rows, !.loading = FALSE]
      BY <2>3
    <3>2. QED  BY <1>1, <3>1 DEF PlanList!Page
  <2>5. QED  BY <1>1, <1>5, <2>2, <2>4
<1>8. CASE \/ PlanList!CancelAction \/ PlanList!RunConfirmedAction
           \/ \E s \in Subs, a \in PlanList!Actions : PlanList!AskAction(s, a)
  <2>1. Kept
    <3>1. CASE PlanList!CancelAction
      BY <1>1, <3>1 DEF PlanList!CancelAction, PlanList!NoPending, PlanList!Page
    <3>2. CASE PlanList!RunConfirmedAction
      BY <1>1, <3>2 DEF PlanList!RunConfirmedAction, PlanList!Page
    <3>3. ASSUME NEW s \in Subs, NEW a \in PlanList!Actions,
                 PlanList!AskAction(s, a)
          PROVE  Kept
      BY <1>1, <3>3 DEF PlanList!AskAction, PlanList!Page
    <3>4. QED  BY <1>8, <3>1, <3>2, <3>3
  <2>2. net' = net /\ srv' = srv
    BY <1>8 DEF PlanList!CancelAction, PlanList!RunConfirmedAction,
                PlanList!AskAction
  <2>3. QED  BY <1>1, <1>5, <2>1, <2>2 DEF v
<1>9. PlanList!Carried \in PlanList!List
      /\ \A x \in Subs : PlanList!Carried[x] \in {srv[x], PlanList!NoRow}
  BY <1>1 DEF PlanList!Carried, PlanList!List
<1>10. CASE PlanList!ActionReturns
  <2>1. ui' = [ui EXCEPT !.pending = PlanList!NoPending,
                         !.actionLoading = FALSE, !.loading = TRUE]
        /\ net' = [net EXCEPT !.lists = @ \cup {srv'}]
        /\ srv' = PlanList!Carried
    BY <1>1, <1>10 DEF PlanList!ActionReturns, PlanList!Loading,
                       PlanList!Fetching, PlanList!Page
  <2>2. Kept
    BY <1>1, <2>1 DEF PlanList!Page, PlanList!NoPending
  <2>3. net' \in PlanNet /\ net'.saves = v
    BY <1>1, <1>9, <2>1 DEF PlanNet, v
  <2>4. QED  BY <1>5, <1>9, <2>1, <2>2, <2>3
<1>11. CASE PlanList!ActionFails
  <2>1. ui' = [ui EXCEPT !.actionLoading = FALSE] /\ net' = net
        /\ srv' \in {srv, PlanList!Carried}
    BY <1>11 DEF PlanList!ActionFails
  <2>2. Kept
    BY <1>1, <2>1 DEF PlanList!Page
  <2>3. QED  BY <1>1, <1>5, <1>9, <2>1, <2>2 DEF v
<1>12. ASSUME NEW p \in Prefs, PlanList!OutputPreferences(p) PROVE PlansInv'
  <2>1. ui' = [ui EXCEPT !.prefs = p] /\ net' = net /\ srv' = srv
    BY <1>12 DEF PlanList!OutputPreferences
  <2>2. /\ ui' \in PlanList!Page /\ ui'.row = ui.row /\ ui'.prefs = p
        /\ ui'.target = ui.target /\ ui'.form = ui.form
        /\ ui'.editing = ui.editing /\ ui'.edited = ui.edited
        /\ ui'.saved = ui.saved /\ ui'.savedHere = ui.savedHere
    BY <1>1, <2>1 DEF PlanList!Page
  <2>3. PlanSound(ui', v, srv')
    BY <1>1, <1>2, <2>1, <2>2, PlanSame
  <2>4. QED  BY <1>1, <1>2, <2>1, <2>2, <2>3 DEF PlansInv, v
\* The form and the modal open and close.
<1>13. ASSUME NEW s \in Subs \cup {None}, PlanList!OpenForm(s) PROVE PlansInv'
  <2> DEFINE e == IF s = None THEN PlanList!NoRow ELSE ui.rows[s]
  <2>1. /\ ui' = [ui EXCEPT !.form = TRUE, !.editing = s, !.edited = e]
        /\ net' = net /\ srv' = srv /\ ~ui.form /\ ui.target = None
    BY <1>13 DEF PlanList!OpenForm, PlanList!Plain
  <2>2. /\ e \in PlanList!Row \cup {PlanList!NoRow}
        /\ s # None => e \in PlanList!Row
    BY <1>2, <1>13 DEF PlanList!OpenForm, PlanList!List
  <2> HIDE DEF e
  <2>3. ui' \in PlanList!Page
    <3> DEFINE u == [ui EXCEPT !.form = TRUE, !.editing = s]
    <3>1. u \in PlanList!Page
      BY <1>1 DEF PlanList!Page
    <3>2. ui' = [u EXCEPT !.edited = e]
      BY <1>1, <2>1 DEF PlanList!Page
    <3> HIDE DEF u
    <3>3. QED  BY <2>2, <3>1, <3>2 DEF PlanList!Page
  <2>4. /\ ui'.target = ui.target /\ ui'.editing = s /\ ui'.edited = e
        /\ ui'.savedHere = ui.savedHere
    BY <1>1, <2>1 DEF PlanList!Page
  <2>5. ~ui.savedHere /\ \A k \in PlanList!Slots : ~PlanForm(v, k)
    BY <1>1, <2>1 DEF PlanSound, PlanShown, PlanForms
  <2>6. PlanSound(ui', v, srv)
    BY <1>1, <2>1, <2>4, <2>5, PlanOther
  <2>7. QED  BY <1>1, <2>1, <2>2, <2>3, <2>4, <2>6 DEF PlansInv, v
<1>14. CASE PlanList!CloseForm
  <2>1. /\ ui' = [ui EXCEPT !.form = FALSE, !.editing = None,
                            !.edited = PlanList!NoRow]
        /\ net' = net /\ srv' = srv /\ ui.form
    BY <1>14 DEF PlanList!CloseForm
  <2>2. Stays /\ ui'.savedHere = ui.savedHere /\ ~ui'.form
    BY <1>1, <2>1 DEF PlanList!Page
  <2>3. ~ui.savedHere
    BY <1>1, <2>1 DEF PlanSound, PlanShown
  <2>4. \A k \in PlanList!Slots : ~PlanForm(v, k)
    BY <1>1, <1>14 DEF PlanList!CloseForm, PlanList!Submitting, PlanList!Holds,
                       PlanSound, PlanForms, PlanForm, PlanHolds, v
  <2>5. PlanSound(ui', v, srv)
    BY <1>1, <2>2, <2>3, <2>4, PlanOther
  <2>6. QED  BY <1>1, <1>4, <2>1, <2>2, <2>5 DEF v
<1>15. ASSUME NEW s \in Subs, PlanList!OpenImport(s) PROVE PlansInv'
  <2> DEFINE r == ui.rows[s]
  <2>1. /\ ui' = [ui EXCEPT !.target = s, !.row = r,
                    !.prefs = r.prefs, !.saved = r.prefs,
                    !.saving = FALSE, !.savedHere = FALSE]
        /\ net' = net /\ srv' = srv /\ ~ui.form
    BY <1>15 DEF PlanList!OpenImport, PlanList!RowActions, PlanList!Plain
  <2>2. r \in PlanList!Row /\ r.prefs \in Prefs
    BY <1>2, <1>15 DEF PlanList!OpenImport, PlanList!RowActions,
                       PlanList!List, PlanList!Row
  <2> HIDE DEF r
  <2>3. /\ ui' \in PlanList!Page /\ ui'.row = r /\ ui'.prefs = r.prefs
        /\ ~ui'.savedHere /\ ui'.form = ui.form /\ ui'.editing = ui.editing
        /\ ui'.edited = ui.edited
    BY <1>1, <2>1, <2>2 DEF PlanList!Page
  <2>4. PlanSound(ui', v, srv)
    BY <1>1, <2>1, <2>3, PlanOther
  <2>5. QED  BY <1>1, <1>2, <2>1, <2>2, <2>3, <2>4 DEF PlansInv, v
<1>16. CASE PlanList!CloseImport
  <2>1. /\ ui' = [ui EXCEPT !.target = None, !.row = PlanList!NoRow,
                    !.prefs = None, !.saved = None,
                    !.saving = FALSE, !.savedHere = FALSE]
        /\ net' = net /\ srv' = srv
    BY <1>16 DEF PlanList!CloseImport
  <2>2. /\ ui' \in PlanList!Page /\ ui'.target = None
        /\ ~ui'.savedHere /\ ui'.form = ui.form /\ ui'.editing = ui.editing
        /\ ui'.edited = ui.edited
    BY <1>1, <2>1 DEF PlanList!Page
  <2>3. PlanSound(ui', v, srv)
    BY <1>1, <2>2, PlanOther
  <2>4. QED  BY <1>1, <1>2, <2>1, <2>2, <2>3 DEF PlansInv, v
\* Requests are sent.
<1>17. ASSUME NEW k \in PlanList!Slots, NEW rest \in Rests,
              PlanList!FormSaves(k, rest)
       PROVE  PlansInv'
  <2> DEFINE r == IF ui.editing = None THEN PlanList!NoRow
                  ELSE [ui.edited EXCEPT !.rest = rest]
  <2>1. /\ PlanList!Send(k, ui.editing, r, TRUE) /\ ui' = ui /\ srv' = srv
        /\ ui.form /\ ~PlanList!Submitting
    BY <1>17 DEF PlanList!FormSaves
  <2>2. r \in PlanList!Row \cup {PlanList!NoRow}
    <3>1. CASE ui.editing = None
      BY <3>1
    <3>2. CASE ui.editing # None
      BY <1>2, <3>2 DEF PlanList!Row
    <3>3. QED  BY <3>1, <3>2
  <2> HIDE DEF r
  <2>3. \A j \in PlanList!Slots : ~PlanForm(net.saves, j)
    BY <1>1, <2>1 DEF PlanList!Submitting, PlanList!Holds,
                      PlanSound, PlanForms, PlanForm, PlanHolds, v
  <2>4. net' \in PlanNet /\ PlanSound(ui', net'.saves, srv')
    BY <1>2, <2>1, <2>2, <2>3, PlanSent
  <2>5. QED  BY <1>1, <1>4, <2>1, <2>4
<1>18. ASSUME NEW k \in PlanList!Slots, PlanList!SavePreferences(k)
       PROVE  PlansInv'
  <2> DEFINE r == [ui.row EXCEPT !.prefs = ui.prefs]
  <2>1. /\ PlanList!Send(k, ui.target, r, FALSE) /\ srv' = srv
        /\ ui' = [ui EXCEPT !.saving = TRUE] /\ ui.target # None
    BY <1>18 DEF PlanList!SavePreferences
  <2>2. r \in PlanList!Row
    BY <1>2, <2>1 DEF PlanList!Row
  <2> HIDE DEF r
  <2>3. Kept
    BY <1>1, <2>1 DEF PlanList!Page
  <2>4. net' \in PlanNet /\ PlanSound(ui', net'.saves, srv')
    BY <1>2, <2>1, <2>2, <2>3, PlanSent
  <2>5. QED  BY <1>1, <1>4, <2>1, <2>3, <2>4
\* Requests are written, answered or given up.
<1>19. /\ PlanList!Free \in PlanList!Request /\ PlanList!Free.stage = "free"
       /\ \A k \in PlanList!Slots : v[k] \in PlanList!Request
       /\ \A k \in PlanList!Slots, q \in PlanList!Request :
             net' = PlanList!Put(k, q) =>
                /\ net' \in PlanNet /\ net'.saves = [v EXCEPT ![k] = q]
                /\ net'.saves[k] = q
                /\ \A j \in PlanList!Slots : j # k => net'.saves[j] = v[j]
  <2>1. PlanList!Free \in PlanList!Request /\ PlanList!Free.stage = "free"
    BY DEF PlanList!Free, PlanList!Request, PlanList!EmptyList, PlanList!List
  <2>2. ASSUME NEW k \in PlanList!Slots, NEW q \in PlanList!Request,
               net' = PlanList!Put(k, q)
        PROVE  /\ net' \in PlanNet /\ net'.saves = [v EXCEPT ![k] = q]
               /\ net'.saves[k] = q
               /\ \A j \in PlanList!Slots : j # k => net'.saves[j] = v[j]
    <3>1. [v EXCEPT ![k] = q] \in PlanSaves
      BY <1>1 DEF PlanSaves
    <3>2. net' = [net EXCEPT !.saves = [v EXCEPT ![k] = q]]
      BY <1>1, <2>2 DEF PlanList!Put, PlanNet, v
    <3>3. net' \in PlanNet /\ net'.saves = [v EXCEPT ![k] = q]
      BY <1>1, <3>1, <3>2 DEF PlanNet
    <3>4. QED  BY <1>1, <3>3 DEF PlanSaves
  <2>3. QED  BY <1>1, <2>1, <2>2 DEF PlanSaves
<1>20. ASSUME NEW k \in PlanList!Slots, PlanList!SaveWrites(k) PROVE PlansInv'
  <2> DEFINE q == v[k]
  <2>1. /\ ui' = ui /\ srv' = PlanList!Written(q)
        /\ q \in PlanList!Request /\ q.sub \in Subs \cup {None}
        /\ q.row \in PlanList!Row \cup {PlanList!NoRow}
    BY <1>19, <1>20 DEF PlanList!SaveWrites, PlanList!Request, v
  <2>2. Stays
    BY <1>1, <2>1
  <2>3. /\ srv' \in PlanList!List
        /\ q.sub = None => srv' = srv
        /\ q.sub # None /\ srv[q.sub] # PlanList!NoRow => srv'[q.sub] = q.row
    BY <1>1, <2>1 DEF PlanList!Written, PlanList!List
  <2>4. CASE /\ q.stage = "sent"
             /\ q.sub # None => srv[q.sub] # PlanList!NoRow
             /\ net' = PlanList!Put(k, [q EXCEPT !.stage = "written"])
    <3> DEFINE z == net'.saves
               p == [q EXCEPT !.stage = "written"]
    <3>1. /\ p \in PlanList!Request /\ p.stage = "written" /\ p.sub = q.sub
          /\ p.row = q.row /\ p.form = q.form /\ p.alone = q.alone
      BY <2>1 DEF PlanList!Request
    <3> HIDE DEF p
    <3>2. /\ net' \in PlanNet /\ z[k] = p
          /\ \A j \in PlanList!Slots : j # k => z[j] = v[j]
      BY <1>19, <2>4, <3>1 DEF p
    <3> HIDE DEF z
    <3>3. \A j \in PlanList!Slots :
             /\ PlanUnderWay(z, j) = PlanUnderWay(v, j)
             /\ PlanForm(z, j) = PlanForm(v, j)
             /\ PlanHolds(z, j, {"left"}) = PlanHolds(v, j, {"left"})
             /\ z[j].alone = v[j].alone /\ z[j].sub = v[j].sub
             /\ z[j].row = v[j].row
      BY <2>4, <3>1, <3>2 DEF PlanUnderWay, PlanForm, PlanHolds
    <3>4. PlanUnderWay(v, k)
      BY <2>4 DEF PlanUnderWay, PlanHolds
    <3>5. PlanAlone(z) /\ PlanAlone(v)
      BY <1>1, <3>3 DEF PlanSound, PlanAlone
    <3>6. PlanShown(ui, z, srv')
      BY <1>1, <3>3, <3>4 DEF PlanSound, PlanShown
    <3>7. PlanLeft(ui, z) /\ PlanForms(ui, z)
      BY <1>1, <3>3 DEF PlanSound, PlanLeft, PlanForms
    <3>8. ASSUME NEW j \in PlanList!Slots, PlanHolds(z, j, {"written"}),
                 z[j].alone, z[j].sub # None, srv'[z[j].sub] # PlanList!NoRow
          PROVE  srv'[z[j].sub].prefs = z[j].row.prefs
      <4>1. PlanUnderWay(z, j)
        BY <3>8 DEF PlanUnderWay, PlanHolds
      <4>2. j = k
        BY <3>3, <3>4, <3>5, <3>8, <4>1 DEF PlanAlone
      <4>3. QED  BY <2>3, <2>4, <3>1, <3>2, <3>8, <4>2
    <3>9. PlanSound(ui, z, srv')
      BY <3>5, <3>6, <3>7, <3>8 DEF PlanSound, PlanWritten
    <3>10. QED  BY <1>4, <2>1, <2>2, <2>3, <3>2, <3>9 DEF z
  <2>5. CASE q.stage = "left" /\ net' = PlanList!Put(k, PlanList!Free)
    <3> DEFINE z == [v EXCEPT ![k] = PlanList!Free]
    <3>1. net' \in PlanNet /\ net'.saves = z
          /\ \A j \in PlanList!Slots : j # k => z[j] = v[j]
      BY <1>19, <2>5
    <3>2. PlanUnderWay(v, k) /\ ~ui.savedHere
      BY <1>1, <2>5 DEF PlanSound, PlanLeft, PlanUnderWay, PlanHolds
    <3> HIDE DEF z
    <3>3. PlanShown(ui, z, srv') /\ PlanLeft(ui, z)
      BY <1>1, <3>2 DEF PlanSound, PlanShown, PlanLeft
    <3>4. ASSUME NEW x \in PlanList!Slots, PlanHolds(v, x, {"written"}),
                 x # k, v[x].alone
          PROVE  srv' = srv
      <4>1. PlanUnderWay(v, x)
        BY <3>4 DEF PlanUnderWay, PlanHolds
      <4>2. QED  BY <1>1, <3>2, <3>4, <4>1 DEF PlanSound, PlanAlone
    <3>5. PlanSound(ui, z, srv')
      BY <1>1, <1>19, <3>3, <3>4, PlanEnded DEF z
    <3>6. QED  BY <1>4, <2>1, <2>2, <2>3, <3>1, <3>5
  <2>6. QED  BY <1>20, <2>4, <2>5
             DEF PlanList!SaveWrites, PlanList!Holds, v
\* An answer, and a request that is given up.
<1>21. ASSUME NEW k \in PlanList!Slots, PlanList!Answered(k)
       PROVE  \E q \in PlanList!Request :
                 /\ q.stage = "listing" /\ v[k].stage = "written"
                 /\ net' \in PlanNet /\ net'.saves = [v EXCEPT ![k] = q]
                 /\ \A j \in PlanList!Slots : j # k => net'.saves[j] = v[j]
                 /\ net'.saves[k] = q /\ srv' = srv
  <2> DEFINE q == [v[k] EXCEPT !.stage = "listing", !.list = srv,
                               !.row = PlanList!NoRow, !.alone = FALSE]
  <2>1. q \in PlanList!Request /\ q.stage = "listing"
    BY <1>1, <1>19 DEF PlanList!Request
  <2>2. net' = PlanList!Put(k, q) /\ srv' = srv /\ v[k].stage = "written"
    BY <1>21 DEF PlanList!Answered, PlanList!Holds, v
  <2> HIDE DEF q
  <2>3. QED  BY <1>19, <2>1, <2>2
<1>22. ASSUME NEW k \in PlanList!Slots, PlanList!SaveReturns(k) PROVE PlansInv'
  <2>1. PICK q \in PlanList!Request :
           /\ q.stage = "listing" /\ v[k].stage = "written"
           /\ net' \in PlanNet /\ net'.saves = [v EXCEPT ![k] = q]
           /\ \A j \in PlanList!Slots : j # k => net'.saves[j] = v[j]
           /\ net'.saves[k] = q /\ srv' = srv
    BY <1>21, <1>22 DEF PlanList!SaveReturns
  <2> DEFINE p == v[k].row.prefs
             h == ui.target = v[k].sub /\ v[k].alone
             z == [v EXCEPT ![k] = q]
  <2>2. /\ p \in Prefs \cup {None} /\ h \in BOOLEAN
        /\ v[k].sub \in Subs \cup {None} /\ v[k].alone \in BOOLEAN
    <3>1. v[k] \in PlanList!Request
      BY <1>19
    <3>2. v[k].row \in PlanList!Row \cup {PlanList!NoRow}
      BY <3>1 DEF PlanList!Request
    <3>3. QED  BY <3>1, <3>2 DEF PlanList!Request, PlanList!Row, PlanList!NoRow
  <2>3. ui' = IF ui.target = None THEN [ui EXCEPT !.loading = TRUE]
              ELSE [ui EXCEPT !.saved = p, !.savedHere = h, !.loading = TRUE]
    <3>1. ui' = PlanList!Loading(PlanList!ShowSaved(v[k]))
      BY <1>22 DEF PlanList!SaveReturns, v
    <3>2. CASE ui.target = None
      BY <3>1, <3>2 DEF PlanList!Loading, PlanList!ShowSaved
    <3>3. CASE ui.target # None
      <4>1. PlanList!ShowSaved(v[k]) = [ui EXCEPT !.saved = p, !.savedHere = h]
        BY <3>3, Zenon DEF PlanList!ShowSaved
      <4> HIDE DEF p, h
      <4>2. QED  BY <1>1, <3>1, <3>3, <4>1
                 DEF PlanList!Loading, PlanList!Page
    <3>4. QED  BY <3>2, <3>3
  <2>4. h => /\ ui.target = v[k].sub
             /\ \A j \in PlanList!Slots : j # k => ~PlanUnderWay(v, j)
    <3>1. PlanUnderWay(v, k)
      BY <2>1 DEF PlanUnderWay, PlanHolds
    <3>2. QED  BY <1>1, <2>2, <3>1 DEF PlanSound, PlanAlone
  <2>5. /\ h /\ ui.target # None /\ srv[ui.target] # PlanList!NoRow
           => srv[ui.target].prefs = p
    <3>1. PlanHolds(v, k, {"written"})
      BY <2>1 DEF PlanHolds
    <3>2. QED  BY <1>1, <2>2, <3>1 DEF PlanSound, PlanWritten
  <2> HIDE DEF p, h
  <2>6. /\ Stays /\ ui'.form = ui.form /\ ui'.editing = ui.editing
        /\ ui.target = None => ui'.savedHere = ui.savedHere
        /\ ui.target # None => ui'.saved = p /\ ui'.savedHere = h
    <3>1. CASE ui.target = None
      <4>1. ui' = [ui EXCEPT !.loading = TRUE]
        BY <2>3, <3>1
      <4>2. QED  BY <1>1, <3>1, <4>1 DEF PlanList!Page
    <3>2. CASE ui.target # None
      <4>1. ui' = [ui EXCEPT !.saved = p, !.savedHere = h, !.loading = TRUE]
        BY <2>3, <3>2
      <4>2. QED  BY <1>1, <2>2, <3>2, <4>1 DEF PlanList!Page
    <3>3. QED  BY <3>1, <3>2
  <2>7. /\ z[k] = q /\ \A j \in PlanList!Slots : j # k => z[j] = v[j]
        /\ net'.saves = z
    BY <2>1
  <2> HIDE DEF z
  <2>8. ~ui.savedHere \/ ui.target # None
    BY <1>1 DEF PlanSound, PlanShown
  <2>9. PlanShown(ui', z, srv)
    BY <1>1, <2>5, <2>6, <2>8 DEF PlanSound, PlanShown
  <2>10. PlanLeft(ui', z)
    <3>1. ASSUME NEW j \in PlanList!Slots, PlanHolds(z, j, {"left"})
          PROVE  j # k /\ PlanUnderWay(v, j)
      BY <2>1, <2>7, <3>1 DEF PlanHolds, PlanUnderWay
    <3>2. QED  BY <2>4, <2>6, <2>8, <3>1 DEF PlanLeft
  <2>11. PlanSound(ui', z, srv)
    BY <1>1, <2>1, <2>6, <2>9, <2>10, PlanEnded DEF z
  <2>12. QED  BY <1>1, <1>4, <2>1, <2>6, <2>7, <2>11
<1>23. ASSUME NEW k \in PlanList!Slots, PlanList!FormReturns(k) PROVE PlansInv'
  <2>1. PICK q \in PlanList!Request :
           /\ q.stage = "listing" /\ v[k].stage = "written"
           /\ net' \in PlanNet /\ net'.saves = [v EXCEPT ![k] = q]
           /\ \A j \in PlanList!Slots : j # k => net'.saves[j] = v[j]
           /\ net'.saves[k] = q /\ srv' = srv
    BY <1>21, <1>23 DEF PlanList!FormReturns
  <2>2. ui' = [ui EXCEPT !.form = FALSE, !.editing = None,
                         !.edited = PlanList!NoRow, !.loading = TRUE]
    BY <1>1, <1>23 DEF PlanList!FormReturns, PlanList!Loading, PlanList!Page
  <2>3. Stays /\ ~ui'.form /\ ui'.savedHere = ui.savedHere
    BY <1>1, <2>2 DEF PlanList!Page
  <2>4. PlanForm(v, k)
    BY <1>23, <2>1 DEF PlanList!FormReturns, PlanForm, PlanHolds, v
  <2>5. ~ui.savedHere
    BY <1>1, <2>4 DEF PlanSound, PlanForms, PlanShown
  <2>6. PlanShown(ui', [v EXCEPT ![k] = q], srv)
        /\ PlanLeft(ui', [v EXCEPT ![k] = q])
    BY <2>3, <2>5 DEF PlanShown, PlanLeft
  <2>7. PlanSound(ui', [v EXCEPT ![k] = q], srv)
    BY <1>1, <2>1, <2>4, <2>6, PlanEnded
  <2>8. QED  BY <1>1, <1>4, <2>1, <2>3, <2>7
<1>24. ASSUME NEW k \in PlanList!Slots, PlanList!SavedListEnds(k)
       PROVE  PlansInv'
  <2>1. /\ net' = PlanList!Put(k, PlanList!Free) /\ srv' = srv
        /\ v[k].stage = "listing"
    BY <1>24 DEF PlanList!SavedListEnds, PlanList!Holds, v
  <2>2. PICK rows \in {v[k].list, ui.rows} :
           ui' = [ui EXCEPT !.rows = rows, !.loading = FALSE,
                            !.saving = @ /\ v[k].form]
    BY <1>24 DEF PlanList!SavedListEnds, v
  <2>3. Kept
    <3> DEFINE b == ui.saving /\ v[k].form
    <3>1. rows \in PlanList!List /\ b \in BOOLEAN
      BY <1>2, <1>19 DEF PlanList!Request
    <3>2. ui' = [ui EXCEPT !.rows = rows, !.loading = FALSE, !.saving = b]
      BY <2>2
    <3> HIDE DEF b
    <3>3. QED  BY <1>1, <3>1, <3>2 DEF PlanList!Page
  <2> DEFINE z == [v EXCEPT ![k] = PlanList!Free]
  <2>4. /\ net' \in PlanNet /\ net'.saves = z /\ z[k] = PlanList!Free
        /\ \A j \in PlanList!Slots : j # k => z[j] = v[j]
    BY <1>19, <2>1
  <2> HIDE DEF z
  <2>5. \A j \in PlanList!Slots :
           /\ PlanUnderWay(z, j) = PlanUnderWay(v, j)
           /\ PlanHolds(z, j, {"left"}) = PlanHolds(v, j, {"left"})
    BY <1>19, <2>1, <2>4 DEF PlanUnderWay, PlanHolds
  <2>6. PlanShown(ui', z, srv) /\ PlanLeft(ui', z)
    BY <1>1, <2>3, <2>5 DEF PlanSound, PlanShown, PlanLeft
  <2>7. PlanSound(ui', z, srv)
    BY <1>1, <1>19, <2>3, <2>6, PlanEnded DEF z
  <2>8. QED  BY <1>1, <1>4, <2>1, <2>3, <2>4, <2>7
<1>25. ASSUME NEW k \in PlanList!Slots, PlanList!SaveFails(k) PROVE PlansInv'
  <2>1. PlanHolds(v, k, {"sent", "written"}) /\ srv' = srv
    BY <1>25 DEF PlanList!SaveFails, PlanList!Holds, PlanHolds, v
  <2>2. ui' = IF v[k].form THEN ui
              ELSE [ui EXCEPT !.saving = FALSE, !.savedHere = FALSE]
    BY <1>25 DEF PlanList!SaveFails, v
  <2>3. /\ Stays /\ ui'.form = ui.form /\ ui'.editing = ui.editing
        /\ ~ui'.savedHere
    <3>1. CASE v[k].form
      <4>1. PlanForm(v, k)
        BY <2>1, <3>1 DEF PlanForm
      <4>2. ~ui.savedHere
        BY <1>1, <4>1 DEF PlanSound, PlanForms, PlanShown
      <4>3. QED  BY <1>1, <2>2, <3>1, <4>2
    <3>2. CASE ~v[k].form
      <4>1. ui' = [ui EXCEPT !.saving = FALSE, !.savedHere = FALSE]
        BY <2>2, <3>2
      <4>2. QED  BY <1>1, <4>1 DEF PlanList!Page
    <3>3. QED  BY <3>1, <3>2
  <2>4. CASE net' = PlanList!Put(k, PlanList!Free)
    <3> DEFINE z == [v EXCEPT ![k] = PlanList!Free]
    <3>1. net' \in PlanNet /\ net'.saves = z
      BY <1>19, <2>4
    <3>2. PlanShown(ui', z, srv) /\ PlanLeft(ui', z)
      BY <1>1, <2>3 DEF PlanSound, PlanShown, PlanLeft
    <3>3. PlanSound(ui', z, srv)
      BY <1>1, <1>19, <2>3, <3>2, PlanEnded
    <3>4. QED  BY <1>1, <1>4, <2>1, <2>3, <3>1, <3>3
  <2>5. CASE net' = PlanList!Put(k, [v[k] EXCEPT !.stage = "left"])
    <3> DEFINE q == [v[k] EXCEPT !.stage = "left"]
               z == net'.saves
    <3>1. /\ q \in PlanList!Request /\ q.stage = "left" /\ q.sub = v[k].sub
          /\ q.form = v[k].form /\ q.alone = v[k].alone
      BY <1>19 DEF PlanList!Request
    <3> HIDE DEF q
    <3>2. /\ net' \in PlanNet /\ z[k] = q
          /\ \A j \in PlanList!Slots : j # k => z[j] = v[j]
      BY <1>19, <2>5, <3>1 DEF q
    <3> HIDE DEF z
    <3>3. \A j \in PlanList!Slots :
             /\ PlanUnderWay(z, j) = PlanUnderWay(v, j)
             /\ PlanForm(z, j) => PlanForm(v, j)
             /\ PlanHolds(z, j, {"written"}) => PlanHolds(v, j, {"written"})
             /\ z[j].alone = v[j].alone /\ z[j].sub = v[j].sub
      BY <2>1, <3>1, <3>2 DEF PlanUnderWay, PlanForm, PlanHolds
    <3>4. \A j \in PlanList!Slots :
             PlanHolds(z, j, {"written"}) => z[j] = v[j]
      BY <3>1, <3>2 DEF PlanHolds
    <3>5. PlanAlone(z) /\ PlanForms(ui', z)
      BY <1>1, <2>3, <3>3 DEF PlanSound, PlanAlone, PlanForms
    <3>6. PlanWritten(z, srv)
      BY <1>1, <3>3, <3>4 DEF PlanSound, PlanWritten
    <3>7. PlanShown(ui', z, srv) /\ PlanLeft(ui', z)
      BY <1>1, <2>3 DEF PlanSound, PlanShown, PlanLeft
    <3>8. PlanSound(ui', z, srv)
      BY <3>5, <3>6, <3>7 DEF PlanSound
    <3>9. QED  BY <1>1, <1>4, <2>1, <2>3, <3>2, <3>8 DEF z
  <2>6. QED  BY <1>25, <2>4, <2>5 DEF PlanList!SaveFails, v
<1>26. QED
  BY <1>6, <1>7, <1>8, <1>10, <1>11, <1>12, <1>13, <1>14, <1>15, <1>16,
     <1>17, <1>18, <1>20, <1>22, <1>23, <1>24, <1>25 DEF PlanList!Next

-----------------------------------------------------------------------------
(* WebNodesImport: only one request is under way, and while a file is being *)
(* checked it stays the one that is kept.                                   *)

\* The lists are of no interest here.
ImportPage ==
    [modal : {"none", "import", "results"}, busy : BOOLEAN,
     selected : Files \cup {None}, data : Files \cup {None},
     results : {ui.results}, of : Files \cup {None}, reloading : BOOLEAN]

KeyStore == [has : {srv.has}, sent : {srv.sent}, seen : {srv.sent}]

ImportInv ==
    /\ ui \in ImportPage
    /\ srv \in KeyStore
    /\ \A r, s \in net : r = s
    /\ \A r \in net : ui.busy /\ (r.op = "validate" => r.file = ui.data)
    /\ ui.modal = "results" =>
          ui.of = ui.data /\ \A r \in net : r.op # "validate"

LEMMA ImportInit == Import!Init => ImportInv
BY DEF Import!Init, Import!Empty, ImportInv, ImportPage, KeyStore,
       Import!Nothing

LEMMA ImportNext == ImportInv /\ Import!Next => ImportInv'
<1> SUFFICES ASSUME ImportInv, Import!Next PROVE ImportInv'
  OBVIOUS
<1> USE DEF ImportInv
<1>1. CASE Import!Open \/ Import!Close
  BY <1>1 DEF Import!Open, Import!Close, ImportPage, KeyStore
<1>2. CASE Import!HandleImportData
  <2>1. net = {} /\ ui.modal = "import"
    BY <1>2 DEF Import!HandleImportData, Import!MayCheck, Import!ImportModal
  <2>2. /\ ui' = [ui EXCEPT !.busy = TRUE, !.data = ui.selected]
        /\ net' = {[op |-> "validate", file |-> ui.selected, addrs |-> {}]}
        /\ UNCHANGED srv
    BY <1>2, <2>1 DEF Import!HandleImportData
  <2>3. ui' \in ImportPage' /\ srv' \in KeyStore'
        /\ ui'.busy /\ ui'.modal = "import" /\ ui'.data = ui.selected
    BY <2>1, <2>2 DEF ImportPage, KeyStore
  <2>4. /\ \A r \in net' : r.file = ui'.data
        /\ \A r, s \in net' : r = s
    BY <2>2, <2>3
  <2>5. QED  BY <2>3, <2>4
<1>3. CASE Import!HandleConfirmImport
  <2>1. net = {} /\ ui.modal = "results" /\ ui.of = ui.data
    BY <1>3 DEF Import!HandleConfirmImport, Import!ResultsModal
  <2>2. /\ ui' = [ui EXCEPT !.busy = TRUE]
        /\ \E addrs : net' = {[op |-> "import", file |-> ui.data,
                               addrs |-> addrs]}
    BY <1>3, <2>1 DEF Import!HandleConfirmImport
  <2>3. srv.sent = srv.seen
    BY DEF KeyStore
  <2>4. \E f : srv' = [srv EXCEPT !.sent = f, !.seen = f]
    BY <1>3, <2>1, <2>3 DEF Import!HandleConfirmImport
  <2>5. /\ ui' \in ImportPage'
        /\ ui'.busy /\ ui'.of = ui'.data
    BY <2>1, <2>2 DEF ImportPage
  <2>6. srv' \in KeyStore'
    BY <2>4 DEF KeyStore
  <2>7. /\ \A r \in net' : r.op # "validate"
        /\ \A r, s \in net' : r = s
    BY <2>2
  <2>8. QED  BY <2>5, <2>6, <2>7
<1>4. CASE Import!Reload
  BY <1>4 DEF Import!Reload, Import!Empty, ImportPage, KeyStore
<1>5. CASE Import!ExportData
  BY <1>5 DEF Import!ExportData, Import!vars, ImportPage, KeyStore
<1>6. ASSUME NEW f \in Files, Import!HandleFileSelect(f) PROVE ImportInv'
  BY <1>6 DEF Import!HandleFileSelect, ImportPage, KeyStore
<1>7. ASSUME NEW r \in net, Import!ValidateReturns(r) PROVE ImportInv'
  <2>1. net \ {r} = {}
    OBVIOUS
  <2>2. net' = {} /\ r.file = ui.data /\ UNCHANGED srv
    BY <1>7, <2>1 DEF Import!ValidateReturns
  <2>3. srv' \in KeyStore'
    BY <2>2 DEF KeyStore
  <2>4. CASE ui' = [ui EXCEPT !.busy = FALSE]
    BY <2>2, <2>3, <2>4 DEF ImportPage
  <2>5. CASE \E s : ui' = [ui EXCEPT !.busy = FALSE, !.modal = "results",
                                     !.results = s, !.of = r.file]
    BY <2>2, <2>3, <2>5 DEF ImportPage
  <2>6. QED  BY <1>7, <2>4, <2>5 DEF Import!ValidateReturns
<1>8. ASSUME NEW r \in net, Import!ImportReturns(r) PROVE ImportInv'
  <2>1. net \ {r} = {}
    OBVIOUS
  <2>2. net' = {}
    BY <1>8, <2>1 DEF Import!ImportReturns
  <2>3. CASE ui' = [ui EXCEPT !.busy = FALSE] /\ UNCHANGED srv
    BY <2>2, <2>3 DEF ImportPage, KeyStore
  <2>4. CASE \E f : srv' = [srv EXCEPT !.has = f]
                 /\ \E m \in {"none", "import"} :
                       ui' = [Import!Empty EXCEPT !.modal = m, !.reloading = TRUE]
    BY <2>2, <2>4 DEF Import!Empty, ImportPage, KeyStore
  <2>5. CASE ui' = [Import!Empty EXCEPT
                       !.modal = IF ui.modal = "results" THEN "none"
                                 ELSE ui.modal,
                       !.reloading = TRUE]
             /\ \E f : srv' = [srv EXCEPT !.has = f]
    <3>1. (IF ui.modal = "results" THEN "none" ELSE ui.modal) \in {"none", "import"}
      BY DEF ImportPage
    <3>2. QED  BY <2>4, <2>5, <3>1
  <2>6. QED  BY <1>8, <2>3, <2>5 DEF Import!ImportReturns
<1>9. ASSUME NEW i \in 1 .. Len(ui.results), NEW j \in 1 .. Len(ui.results),
             Import!HandleDragEnd(i, j)
      PROVE  ImportInv'
  BY <1>9 DEF Import!HandleDragEnd, ImportPage, KeyStore
<1>10. QED
  BY <1>1, <1>2, <1>3, <1>4, <1>5, <1>6, <1>7, <1>8, <1>9 DEF Import!Next

-----------------------------------------------------------------------------
(* WebTunnelForm: a load that is not aborted is the one of the form that is *)
(* open, and only a form that has been loaded can be complete.              *)

LoadsFit(loads) ==
    \A l \in loads : l.live => ui.loading /\ ui.opened = l.of

OwnForm(form) ==
    /\ form \in Form!PortalForm
    /\ form.of # None => form.of = ui.opened
    /\ form.rest = "good" => form.of # None

FormInv ==
    /\ Form!TypeOK
    /\ LoadsFit(net.loads)
    /\ OwnForm(ui.form)
    /\ ui.real # None => ui.real = ui.opened
    /\ net.save # None => ~ui.loading
    /\ Form!SavesWhatItOpened /\ Form!SavesWhatCanRun

LEMMA EmptyForm ==
    /\ Form!INITIAL_FORM \in Form!PortalForm
    /\ Form!INITIAL_FORM.of = None /\ Form!INITIAL_FORM.rest = "empty"
BY DEF Form!INITIAL_FORM, Form!PortalForm, Form!Nexts, Form!Carriers

\* The page of a form that is closed, and of one that has just been opened.
LEMMA ClosedForm ==
    ASSUME ui' = Form!Closed
    PROVE  /\ ui' \in Form!Page /\ OwnForm(ui.form)' /\ ui'.real = None
           /\ ~ui'.loading
BY EmptyForm DEF Form!Closed, Form!Page, OwnForm

LEMMA NewForm ==
    ASSUME NEW t \in Form!Opened,
           ui' = [Form!Closed EXCEPT !.opened = t, !.loading = TRUE]
    PROVE  /\ ui' \in Form!Page /\ OwnForm(ui.form)' /\ ui'.real = None
           /\ ui'.opened = t /\ ui'.loading
<1>1. Form!Closed \in Form!Page
  BY EmptyForm DEF Form!Closed, Form!Page
<1>2. /\ ui' \in Form!Page /\ ui'.form = Form!INITIAL_FORM /\ ui'.real = None
      /\ ui'.opened = t /\ ui'.loading
  BY <1>1 DEF Form!Page, Form!Closed
<1>3. QED  BY <1>2, EmptyForm DEF OwnForm

LEMMA FormInit == Form!Init => FormInv
BY EmptyForm DEF Form!Init, Form!Closed, FormInv, Form!TypeOK, Form!Page,
   LoadsFit, OwnForm, Form!SavesWhatItOpened, Form!SavesWhatCanRun

\* A field is set.
LEMMA FieldSet ==
    ASSUME FormInv, NEW form, OwnForm(form), Form!Update(form)
    PROVE  FormInv'
BY DEF FormInv, Form!Update, Form!TypeOK, Form!Page, LoadsFit, OwnForm,
       Form!SavesWhatItOpened, Form!SavesWhatCanRun

\* The saves that leave are those of a form that is complete.
LEMMA FormSubmit == FormInv /\ Form!Submit => FormInv'
<1> SUFFICES ASSUME FormInv, Form!Submit PROVE FormInv'
  OBVIOUS
<1> DEFINE f == ui.form
           to == IF ui.opened = New THEN New ELSE ui.real
           s == [to |-> to, of |-> f.of, shown |-> ui.opened, next |-> f.next,
                 up |-> f.up, down |-> f.down, mux |-> Form!MuxToSend(f),
                 socks |-> f.socks]
<1>1. /\ None # New /\ None \notin Tunnels /\ New \notin Tunnels
  BY PagesAssumption DEF Form!FormAssumption
<1>2. /\ net' = [net EXCEPT !.save = s] /\ UNCHANGED srv
      /\ ui' = [ui EXCEPT !.submitting = TRUE]
  BY DEF Form!Submit
<1>3. /\ f.rest = "good" /\ ~(f.socks /\ f.next # "none")
      /\ f.next # "none" => {f.up, f.down} \cap Form!Unavailable(f.next) = {}
      /\ ui.opened \in Form!Opened /\ ~ui.loading
      /\ ui.opened \in Tunnels => ui.real # None
  BY DEF Form!Submit, Form!Validate, Form!Fields, FormInv, Form!TypeOK,
         Form!Page
<1>4. f.of = ui.opened /\ to = ui.opened /\ f \in Form!PortalForm
  BY <1>3 DEF FormInv, OwnForm, Form!Opened
<1>5. Form!MuxToSend(f) \in BOOLEAN
  BY <1>4 DEF Form!MuxToSend, Form!PortalForm
<1>6. s \in Form!Save
  BY <1>3, <1>4, <1>5 DEF Form!Save, Form!PortalForm
<1>7. /\ s.to = s.shown /\ s.of = s.to
      /\ s.next # "none" => {s.up, s.down} \cap Form!Unavailable(s.next) = {}
      /\ ~(s.socks /\ s.next # "none")
  BY <1>3, <1>4
<1>8. Form!udpOnlyNext(s) = Form!udpOnlyNext(f)
  BY DEF Form!udpOnlyNext
<1>9. s.mux => ~Form!udpOnlyNext(s)
  BY <1>8 DEF Form!MuxToSend
<1> HIDE DEF s
<1>10. net'.save = s /\ net'.loads = net.loads
       /\ net' \in [loads : SUBSET [of : Form!Opened, live : BOOLEAN],
                    save : Form!Save \cup {None}]
  BY <1>2, <1>6 DEF FormInv, Form!TypeOK
<1>11. Form!SavesWhatItOpened' /\ Form!SavesWhatCanRun'
  BY <1>7, <1>9, <1>10 DEF Form!SavesWhatItOpened, Form!SavesWhatCanRun
<1>12. QED
  BY <1>2, <1>3, <1>10, <1>11
     DEF FormInv, Form!TypeOK, Form!Page, LoadsFit, OwnForm

LEMMA FormNext == FormInv /\ Form!Next => FormInv'
<1> SUFFICES ASSUME FormInv, Form!Next PROVE FormInv'
  OBVIOUS
<1>1. ui \in Form!Page /\ ui.form \in Form!PortalForm /\ OwnForm(ui.form)
  BY DEF FormInv, OwnForm, Form!TypeOK
<1>2. ASSUME NEW t \in Form!Opened, Form!Open(t) PROVE FormInv'
  <2>1. \A l \in net.loads : ~l.live
    BY <1>2, PagesAssumption
       DEF Form!Open, FormInv, Form!TypeOK, LoadsFit, Form!Opened,
           Form!FormAssumption
  <2>2. /\ ui' \in Form!Page /\ OwnForm(ui.form)' /\ ui'.real = None
        /\ ui'.opened = t /\ ui'.loading
    BY <1>2, NewForm DEF Form!Open
  <2>3. /\ net' = [net EXCEPT !.loads = @ \cup {[of |-> t, live |-> TRUE]}]
        /\ net.save = None /\ UNCHANGED srv
    BY <1>2 DEF Form!Open
  <2>4. LoadsFit(net.loads)'
    BY <2>1, <2>2, <2>3 DEF FormInv, Form!TypeOK, LoadsFit
  <2>5. net' \in [loads : SUBSET [of : Form!Opened, live : BOOLEAN],
                  save : Form!Save \cup {None}]
        /\ net'.save = None
    <3> DEFINE Load == [of : Form!Opened, live : BOOLEAN]
    <3>1. net.loads \subseteq Load /\ [of |-> t, live |-> TRUE] \in Load
      BY DEF FormInv, Form!TypeOK
    <3>2. net \in [loads : SUBSET [of : Form!Opened, live : BOOLEAN],
                   save : Form!Save \cup {None}]
      BY DEF FormInv, Form!TypeOK
    <3>3. QED  BY <2>3, <3>1, <3>2
  <2>6. QED
    BY <2>2, <2>3, <2>4, <2>5
       DEF FormInv, Form!TypeOK, Form!SavesWhatItOpened, Form!SavesWhatCanRun
<1>3. CASE Form!Close
  <2>1. ui' = Form!Closed
    BY <1>3 DEF Form!Close
  <2>2. /\ ui' \in Form!Page /\ OwnForm(ui.form)' /\ ui'.real = None
        /\ ~ui'.loading
    BY <2>1, ClosedForm
  <2>3. /\ Form!Abort(net.loads) \subseteq [of : Form!Opened, live : BOOLEAN]
        /\ \A l \in Form!Abort(net.loads) : ~l.live
    BY DEF Form!Abort, FormInv, Form!TypeOK
  <2>4. net' = [net EXCEPT !.loads = Form!Abort(@)] /\ UNCHANGED srv
    BY <1>3 DEF Form!Close
  <2>5. QED
    BY <2>2, <2>3, <2>4
       DEF FormInv, Form!TypeOK, LoadsFit, Form!SavesWhatItOpened,
           Form!SavesWhatCanRun
<1>4. CASE Form!BasicFields
  <2>1. PICK r \in {"bad", "good"} :
            /\ r = "good" => ui.form.of # None
            /\ Form!Update([ui.form EXCEPT !.rest = r])
    BY <1>4 DEF Form!BasicFields
  <2>2. OwnForm([ui.form EXCEPT !.rest = r])
    BY <1>1, <2>1 DEF OwnForm, Form!PortalForm
  <2>3. QED  BY <2>1, <2>2, FieldSet
<1>5. CASE Form!MuxField
  <2>1. PICK m \in BOOLEAN : Form!Update([ui.form EXCEPT !.mux = m])
    BY <1>5 DEF Form!MuxField
  <2>2. OwnForm([ui.form EXCEPT !.mux = m])
    BY <1>1 DEF OwnForm, Form!PortalForm
  <2>3. QED  BY <2>1, <2>2, FieldSet
<1>6. CASE Form!SocksField
  <2>1. PICK s \in BOOLEAN :
            Form!Update([ui.form EXCEPT !.socks = s,
                                        !.next = IF s THEN "none" ELSE @])
    BY <1>6 DEF Form!SocksField
  <2>2. OwnForm([ui.form EXCEPT !.socks = s,
                                !.next = IF s THEN "none" ELSE @])
    BY <1>1 DEF OwnForm, Form!PortalForm, Form!Nexts
  <2>3. QED  BY <2>1, <2>2, FieldSet
<1>7. ASSUME NEW l \in net.loads, Form!Loads(l) PROVE FormInv'
  <2>1. l \in [of : Form!Opened, live : BOOLEAN]
    BY DEF FormInv, Form!TypeOK
  <2>2. \A f \in {Form!FormOf(l),
                  [Form!FormOf(l) EXCEPT !.next = "both", !.mux = TRUE]} :
            f \in Form!PortalForm /\ f.of = l.of
    BY <2>1 DEF Form!FormOf, Form!INITIAL_FORM, Form!PortalForm, Form!Nexts,
                Form!Carriers
  <2>3. net' = [net EXCEPT !.loads = @ \ {l}] /\ UNCHANGED srv
    BY <1>7 DEF Form!Loads
  <2>4. CASE l.live
    <3>1. l.of = ui.opened /\ l.of # None
      BY <2>1, <2>4, PagesAssumption
         DEF FormInv, LoadsFit, Form!Opened, Form!FormAssumption
    <3>2. \A k \in net'.loads : ~k.live
      BY <2>1, <2>3, <2>4, <3>1 DEF FormInv, LoadsFit, Form!TypeOK
    <3>3. \/ ui' = [ui EXCEPT !.loading = FALSE]
          \/ \E f : /\ f \in Form!PortalForm /\ f.of = l.of
                    /\ ui' = [ui EXCEPT !.loading = FALSE, !.form = f,
                                        !.real = l.of]
      BY <1>7, <2>2, <2>4, <3>1 DEF Form!Loads
    <3>4. QED
      BY <1>1, <2>1, <2>3, <3>1, <3>2, <3>3
         DEF FormInv, Form!TypeOK, Form!Page, LoadsFit, OwnForm,
             Form!SavesWhatItOpened, Form!SavesWhatCanRun
  <2>5. CASE ~l.live
    BY <1>7, <2>3, <2>5
       DEF Form!Loads, FormInv, Form!TypeOK, LoadsFit, OwnForm,
           Form!SavesWhatItOpened, Form!SavesWhatCanRun
  <2>6. QED  BY <2>4, <2>5
<1>8. ASSUME NEW k \in {"up", "down"}, NEW c \in Form!Carriers,
             Form!UpdateCarrier(k, c)
      PROVE  FormInv'
  <2> DEFINE f == [ui.form EXCEPT ![k] = c]
             m == f.mux /\ ~Form!UdpOnly(f.up, f.down)
  <2>1. OwnForm([f EXCEPT !.mux = m])
    <3>1. CASE k = "up"
      BY <1>1, <3>1 DEF OwnForm, Form!PortalForm
    <3>2. CASE k = "down"
      BY <1>1, <3>2 DEF OwnForm, Form!PortalForm
    <3>3. QED  BY <3>1, <3>2
  <2>2. Form!Update([f EXCEPT !.mux = m])
    BY <1>8 DEF Form!UpdateCarrier
  <2>3. QED  BY <2>1, <2>2, FieldSet
<1>9. ASSUME NEW n \in Form!Nexts, Form!NextField(n) PROVE FormInv'
  <2>1. OwnForm([ui.form EXCEPT !.next = n, !.socks = @ /\ n = "none"])
    BY <1>1 DEF OwnForm, Form!PortalForm
  <2>2. QED  BY <1>9, <2>1, FieldSet DEF Form!NextField
<1>10. CASE Form!SaveReturns
  <2>1. CASE UNCHANGED srv /\ ui' = [ui EXCEPT !.submitting = FALSE]
    BY <1>1, <1>10, <2>1
       DEF Form!SaveReturns, FormInv, Form!TypeOK, Form!Page, LoadsFit,
           OwnForm, Form!SavesWhatItOpened, Form!SavesWhatCanRun
  <2>2. CASE srv' = net.save.to /\ ui' = Form!Closed
    <3>2. /\ ui' \in Form!Page /\ OwnForm(ui.form)' /\ ui'.real = None
      BY <2>2, ClosedForm
    <3>3. /\ net.save \in Form!Save /\ \A l \in net.loads : ~l.live
          /\ net' = [net EXCEPT !.save = None]
      BY <1>10 DEF Form!SaveReturns, FormInv, Form!TypeOK, LoadsFit
    <3>4. QED
      BY <2>2, <3>2, <3>3
         DEF FormInv, Form!TypeOK, LoadsFit, Form!Save,
             Form!SavesWhatItOpened, Form!SavesWhatCanRun
  <2>3. QED  BY <1>10, <2>1, <2>2 DEF Form!SaveReturns
<1>11. QED
  BY <1>2, <1>3, <1>4, <1>5, <1>6, <1>7, <1>8, <1>9, <1>10, FormSubmit
     DEF Form!Next

-----------------------------------------------------------------------------
(* WebIconPicker: the square is never moved off the image, because the      *)
(* shorter side fills it at every zoom.                                     *)

Within(s, zoom, offset) ==
    /\ -Icon!MaxX(s, zoom) <= offset.x /\ offset.x <= Icon!MaxX(s, zoom)
    /\ -Icon!MaxY(s, zoom) <= offset.y /\ offset.y <= Icon!MaxY(s, zoom)

IconInv ==
    /\ ui \in Icon!Page
    /\ net \subseteq Images
    /\ ui.source # None => Within(ui.source, ui.zoom, ui.offset)
    /\ ui.crop # None =>
          Within(ui.crop.source, ui.crop.zoom, ui.crop.offset)
    /\ srv # None => srv \in Icon!Crop /\ Within(srv.source, srv.zoom, srv.offset)

LEMMA IconConstants ==
    /\ PreviewSize \in Nat \ {0} /\ Icon!Zooms \subseteq Nat \ {0}
    /\ 1 \in Icon!Zooms /\ Steps \subseteq Int /\ None \notin Images
    /\ \A s \in Images : s[1] \in Nat \ {0} /\ s[2] \in Nat \ {0}
BY PagesAssumption DEF Icon!IconAssumption, Icon!Zooms

LEMMA QuotientBound ==
    ASSUME NEW m \in Nat \ {0}, NEW p \in Nat, NEW k \in Nat, m * p <= k
    PROVE  k \div m \in Nat /\ p <= k \div m
OBVIOUS

LEMMA ProductBound ==
    ASSUME NEW m \in Nat \ {0}, NEW n \in Nat \ {0}, m <= n,
           NEW p \in Nat \ {0}, NEW z \in Nat \ {0}
    PROVE  n * p * z \in Nat /\ m * p <= n * p * z
<1>1. m * p \in Nat /\ n * p \in Nat /\ m * p <= n * p
  OBVIOUS
<1>2. \A k \in Nat : k * z \in Nat /\ k <= k * z
  OBVIOUS
<1>3. QED  BY <1>1, <1>2

\* The image covers the square.
LEMMA ImageCovers ==
    ASSUME NEW s \in Images, NEW z \in Icon!Zooms
    PROVE  /\ Icon!DisplayWidth(s, z) \in Nat /\ Icon!DisplayHeight(s, z) \in Nat
           /\ PreviewSize <= Icon!DisplayWidth(s, z)
           /\ PreviewSize <= Icon!DisplayHeight(s, z)
<1>1. /\ s[1] \in Nat \ {0} /\ s[2] \in Nat \ {0} /\ z \in Nat \ {0}
      /\ PreviewSize \in Nat \ {0}
  BY IconConstants
<1>2. /\ Icon!Shorter(s) \in Nat \ {0}
      /\ Icon!Shorter(s) <= s[1] /\ Icon!Shorter(s) <= s[2]
  BY <1>1 DEF Icon!Shorter
<1>3. /\ s[1] * PreviewSize * z \in Nat
      /\ Icon!Shorter(s) * PreviewSize <= s[1] * PreviewSize * z
  BY <1>1, <1>2, ProductBound
<1>4. /\ s[2] * PreviewSize * z \in Nat
      /\ Icon!Shorter(s) * PreviewSize <= s[2] * PreviewSize * z
  BY <1>1, <1>2, ProductBound
<1>5. QED
  BY <1>1, <1>2, <1>3, <1>4, QuotientBound
     DEF Icon!DisplayWidth, Icon!DisplayHeight

LEMMA MarginFacts ==
    ASSUME NEW s \in Images, NEW z \in Icon!Zooms
    PROVE  Icon!MaxX(s, z) \in Nat /\ Icon!MaxY(s, z) \in Nat
BY ImageCovers, IconConstants DEF Icon!MaxX, Icon!MaxY

LEMMA WithinIsInside ==
    ASSUME NEW c \in Icon!Crop, Within(c.source, c.zoom, c.offset)
    PROVE  /\ c.offset.x + PreviewSize \div 2 <=
                Icon!DisplayWidth(c.source, c.zoom) \div 2
           /\ c.offset.y + PreviewSize \div 2 <=
                Icon!DisplayHeight(c.source, c.zoom) \div 2
           /\ PreviewSize \div 2 - c.offset.x <=
                Icon!DisplayWidth(c.source, c.zoom) \div 2
           /\ PreviewSize \div 2 - c.offset.y <=
                Icon!DisplayHeight(c.source, c.zoom) \div 2
<1>1. /\ Icon!DisplayWidth(c.source, c.zoom) \in Nat
      /\ Icon!DisplayHeight(c.source, c.zoom) \in Nat
      /\ PreviewSize \in Nat /\ c.offset.x \in Int /\ c.offset.y \in Int
  BY ImageCovers, IconConstants DEF Icon!Crop, Icon!Point
<1>2. QED  BY <1>1 DEF Within, Icon!MaxX, Icon!MaxY

\* The effect leaves an image that is within its margins.
LEMMA ClampedWithin ==
    ASSUME NEW u \in Icon!Page, u.source # None
    PROVE  /\ Icon!Clamped(u) \in Icon!Page
           /\ Icon!Clamped(u).source = u.source
           /\ Icon!Clamped(u).zoom = u.zoom
           /\ Icon!Clamped(u).crop = u.crop
           /\ Within(u.source, u.zoom, Icon!Clamped(u).offset)
<1>1. /\ Icon!MaxX(u.source, u.zoom) \in Nat /\ Icon!MaxY(u.source, u.zoom) \in Nat
      /\ u.offset.x \in Int /\ u.offset.y \in Int
  BY MarginFacts DEF Icon!Page, Icon!Point
<1>2. \A v \in Int, n \in Nat :
          /\ Icon!Clamp(v, -n, n) \in Int
          /\ -n <= Icon!Clamp(v, -n, n) /\ Icon!Clamp(v, -n, n) <= n
  BY DEF Icon!Clamp
<1> DEFINE x == Icon!Clamp(u.offset.x, -Icon!MaxX(u.source, u.zoom),
                           Icon!MaxX(u.source, u.zoom))
           y == Icon!Clamp(u.offset.y, -Icon!MaxY(u.source, u.zoom),
                           Icon!MaxY(u.source, u.zoom))
<1>3. /\ x \in Int /\ y \in Int
      /\ Within(u.source, u.zoom, [x |-> x, y |-> y])
  BY <1>1, <1>2 DEF Within
<1>4. Icon!Clamped(u) = [u EXCEPT !.offset = [x |-> x, y |-> y]]
  BY DEF Icon!Clamped
<1> HIDE DEF x, y
<1>5. QED  BY <1>3, <1>4 DEF Icon!Page, Icon!Point

LEMMA IconInit == Icon!Init => IconInv
BY IconConstants
   DEF Icon!Init, Icon!Origin, IconInv, Icon!Page, Icon!Point

LEMMA IconNext == IconInv /\ Icon!Next => IconInv'
<1> SUFFICES ASSUME IconInv, Icon!Next PROVE IconInv'
  OBVIOUS
<1> USE DEF IconInv
<1>1. /\ 1 \in Icon!Zooms /\ Steps \subseteq Int /\ None \notin Images
      /\ Icon!Origin \in [x : Int, y : Int]
  BY IconConstants DEF Icon!Origin
<1>2. ASSUME NEW u \in Icon!Page, u.source # None, ui' = Icon!Clamped(u),
             u.crop = ui.crop, net' \subseteq Images, UNCHANGED srv
      PROVE  IconInv'
  BY <1>2, ClampedWithin
<1>3. CASE Icon!StartMoving \/ Icon!StopMoving \/ Icon!CropFails
  <2>1. /\ ui' \in Icon!Page /\ ui'.source = ui.source
        /\ ui'.zoom = ui.zoom /\ ui'.offset = ui.offset
        /\ ui'.crop \in {ui.crop, None}
    BY <1>3
       DEF Icon!StartMoving, Icon!StopMoving, Icon!CropFails, Icon!Page
  <2>2. UNCHANGED <<net, srv>>
    BY <1>3 DEF Icon!StartMoving, Icon!StopMoving, Icon!CropFails
  <2>3. QED  BY <2>1, <2>2
<1>4. CASE Icon!CloseCropper
  <2>1. /\ ui' \in Icon!Page /\ ui'.source = None /\ ui'.crop = ui.crop
    BY <1>1, <1>4 DEF Icon!CloseCropper, Icon!Page, Icon!Point
  <2>2. QED  BY <1>4, <2>1 DEF Icon!CloseCropper
<1>5. CASE Icon!ApplyCrop
  <2> DEFINE c == [source |-> ui.source, zoom |-> ui.zoom,
                   offset |-> ui.offset]
  <2>1. ui' = [ui EXCEPT !.crop = c] /\ UNCHANGED <<net, srv>>
    BY <1>5 DEF Icon!ApplyCrop
  <2>2. /\ c \in Icon!Crop /\ c.source = ui.source /\ c.zoom = ui.zoom
        /\ c.offset = ui.offset /\ ui.source # None
    BY <1>5 DEF Icon!ApplyCrop, Icon!CropModal, Icon!Page, Icon!Crop
  <2> HIDE DEF c
  <2>3. /\ ui' \in Icon!Page /\ ui'.source = ui.source
        /\ ui'.zoom = ui.zoom /\ ui'.offset = ui.offset /\ ui'.crop = c
    BY <2>1, <2>2 DEF Icon!Page
  <2>4. QED  BY <2>1, <2>2, <2>3
<1>6. CASE Icon!CropReturns
  <2>1. ui.crop \in Icon!Crop /\ srv' = ui.crop /\ net' = net
        /\ ui.crop # None
    BY <1>6 DEF Icon!CropReturns, Icon!Processing, Icon!Page
  <2>2. ui' \in Icon!Page /\ ui'.source = None /\ ui'.crop = None
    BY <1>1, <1>6 DEF Icon!CropReturns, Icon!Page, Icon!Point
  <2>3. QED  BY <2>1, <2>2
<1>7. CASE Icon!ResetIcon
  BY <1>7 DEF Icon!ResetIcon
<1>8. ASSUME NEW s \in Images, Icon!ChooseFile(s) PROVE IconInv'
  BY <1>8 DEF Icon!ChooseFile
<1>9. ASSUME NEW s \in net, Icon!LoadFails(s) \/ Icon!LoadReturns(s)
      PROVE  IconInv'
  <2>1. CASE Icon!LoadFails(s)
    BY <2>1 DEF Icon!LoadFails
  <2>2. CASE Icon!LoadReturns(s)
    <3> DEFINE u == [ui EXCEPT !.source = s, !.zoom = 1,
                               !.offset = Icon!Origin]
    <3>1. u \in Icon!Page /\ u.source # None /\ u.crop = ui.crop
      BY <1>1 DEF Icon!Page, Icon!Point
    <3>2. ui' = Icon!Clamped(u) /\ net' \subseteq Images /\ UNCHANGED srv
      BY <2>2 DEF Icon!LoadReturns
    <3>3. QED  BY <1>2, <3>1, <3>2
  <2>3. QED  BY <1>9, <2>1, <2>2
<1>10. ASSUME NEW dx \in Steps, NEW dy \in Steps, Icon!MoveImage(dx, dy)
      PROVE  IconInv'
  <2> DEFINE u == [ui EXCEPT !.offset = [x |-> @.x + dx, y |-> @.y + dy]]
  <2>1. ui.offset.x + dx \in Int /\ ui.offset.y + dy \in Int
    BY <1>1 DEF Icon!Page, Icon!Point
  <2>2. u \in Icon!Page /\ u.source # None /\ u.crop = ui.crop
    BY <1>10, <2>1 DEF Icon!MoveImage, Icon!Page, Icon!Point
  <2>3. ui' = Icon!Clamped(u) /\ UNCHANGED <<net, srv>>
    BY <1>10 DEF Icon!MoveImage
  <2>4. QED  BY <1>2, <2>2, <2>3
<1>11. ASSUME NEW z \in Icon!Zooms, Icon!SetZoom(z) PROVE IconInv'
  <2> DEFINE u == [ui EXCEPT !.zoom = z]
  <2>1. u \in Icon!Page /\ u.source # None /\ u.crop = ui.crop
    BY <1>11 DEF Icon!SetZoom, Icon!Page, Icon!Point
  <2>2. ui' = Icon!Clamped(u) /\ UNCHANGED <<net, srv>>
    BY <1>11 DEF Icon!SetZoom
  <2>3. QED  BY <1>2, <2>1, <2>2
<1>12. QED
  BY <1>3, <1>4, <1>5, <1>6, <1>7, <1>8, <1>9, <1>10, <1>11 DEF Icon!Next

-----------------------------------------------------------------------------
(* WebSubscriptionForm: lists without repetition, and what is done to them. *)

List(s, S) == s \in Seq(S) /\ Plan!IsInjective(s)

LEMMA ListFacts ==
    ASSUME NEW S, NEW s, List(s, S)
    PROVE  /\ s \in Seq(S) /\ Len(s) \in Nat /\ DOMAIN s = 1 .. Len(s)
           /\ \A i \in 1 .. Len(s) : s[i] \in S
           /\ \A i, j \in 1 .. Len(s) : s[i] = s[j] => i = j
           /\ Plan!Range(s) = {s[i] : i \in 1 .. Len(s)}
           /\ Plan!Range(s) \subseteq S
<1>1. Len(s) \in Nat /\ DOMAIN s = 1 .. Len(s)
  BY LenProperties DEF List
<1>2. \A i \in 1 .. Len(s) : s[i] \in S
  BY ElementOfSeq DEF List
<1>3. QED  BY <1>1, <1>2 DEF List, Plan!IsInjective, Plan!Range

\* What makes a list, said of its places.
LEMMA ListOf ==
    ASSUME NEW S, NEW s \in Seq(S),
           \A i, j \in 1 .. Len(s) : s[i] = s[j] => i = j
    PROVE  List(s, S) /\ Plan!Range(s) = {s[i] : i \in 1 .. Len(s)}
BY LenProperties DEF List, Plan!IsInjective, Plan!Range

LEMMA ListEmpty ==
    ASSUME NEW S
    PROVE  List(<< >>, S) /\ Plan!Range(<< >>) = {}
<1> DEFINE s == << >>
<1>1. s \in Seq(S) /\ Len(s) = 0 /\ 1 .. 0 = {}
  BY EmptySeq
<1> HIDE DEF s
<1>2. List(s, S) /\ Plan!Range(s) = {s[i] : i \in 1 .. Len(s)}
  BY <1>1, ListOf
<1>3. List(s, S) /\ Plan!Range(s) = {}
  BY <1>1, <1>2
<1>4. QED  BY <1>3 DEF s

LEMMA ListSingle ==
    ASSUME NEW S, NEW e \in S
    PROVE  List(<<e>>, S) /\ Plan!Range(<<e>>) = {e}
<1> DEFINE s == <<e>>
<1>1. s \in Seq(S) /\ Len(s) = 1 /\ s[1] = e
  OBVIOUS
<1> HIDE DEF s
<1>2. \A i, j \in 1 .. Len(s) : i = 1 /\ j = 1
  BY <1>1
<1>3. List(s, S) /\ Plan!Range(s) = {s[i] : i \in 1 .. Len(s)}
  BY <1>1, <1>2, ListOf
<1>4. List(s, S) /\ Plan!Range(s) = {e}
  BY <1>1, <1>2, <1>3
<1>5. QED  BY <1>4 DEF s

\* Two lists of S, and no element is in both.
Apart(s, t, S) ==
    List(s, S) /\ List(t, S) /\ Plan!Range(s) \cap Plan!Range(t) = {}

LEMMA ListAppended ==
    ASSUME NEW S, NEW s, NEW t, Apart(s, t, S)
    PROVE  /\ List(s \o t, S)
           /\ Plan!Range(s \o t) = Plan!Range(s) \cup Plan!Range(t)
<1> DEFINE m == Len(s)
           n == Len(t)
           r == s \o t
<1>0. List(s, S) /\ List(t, S)
  BY DEF Apart
<1>1. s \in Seq(S) /\ t \in Seq(S) /\ m \in Nat /\ n \in Nat
  BY <1>0, ListFacts
<1>2. /\ r \in Seq(S) /\ Len(r) = m + n
      /\ \A i \in 1 .. m + n : r[i] = IF i <= m THEN s[i] ELSE t[i - m]
  BY <1>1, ConcatProperties
<1>3. /\ Plan!Range(s) = {s[i] : i \in 1 .. m}
      /\ Plan!Range(t) = {t[i] : i \in 1 .. n}
      /\ \A i, j \in 1 .. m : s[i] = s[j] => i = j
      /\ \A i, j \in 1 .. n : t[i] = t[j] => i = j
  BY <1>0, ListFacts
<1> HIDE DEF m, n, r
<1>4. \A i \in 1 .. m + n : i > m => i - m \in 1 .. n
  BY <1>1
<1>5. \A i \in 1 .. m, j \in 1 .. n : s[i] # t[j]
  BY <1>3 DEF Apart
<1>6. ASSUME NEW i \in 1 .. m + n, NEW j \in 1 .. m + n, r[i] = r[j]
      PROVE  i = j
  <2>1. CASE i <= m /\ j <= m
    BY <1>1, <1>2, <1>3, <1>6, <2>1
  <2>2. CASE i > m /\ j > m
    <3>1. t[i - m] = t[j - m] /\ i - m \in 1 .. n /\ j - m \in 1 .. n
      BY <1>1, <1>2, <1>4, <1>6, <2>2
    <3>2. QED  BY <1>1, <1>3, <3>1
  <2>3. CASE i <= m /\ j > m
    <3>1. /\ i \in 1 .. m /\ j - m \in 1 .. n
          /\ r[i] = s[i] /\ r[j] = t[j - m]
      BY <1>1, <1>2, <1>4, <2>3
    <3>2. QED  BY <1>5, <1>6, <3>1
  <2>4. CASE i > m /\ j <= m
    <3>1. /\ j \in 1 .. m /\ i - m \in 1 .. n
          /\ r[j] = s[j] /\ r[i] = t[i - m]
      BY <1>1, <1>2, <1>4, <2>4
    <3>2. QED  BY <1>5, <1>6, <3>1
  <2>5. QED  BY <1>1, <2>1, <2>2, <2>3, <2>4
<1>7. List(r, S) /\ Plan!Range(r) = {r[i] : i \in 1 .. m + n}
  BY <1>2, <1>6, ListOf
<1>8. \A i \in 1 .. m : i \in 1 .. m + n /\ r[i] = s[i]
  BY <1>1, <1>2
<1>9. \A j \in 1 .. n : m + j \in 1 .. m + n /\ r[m + j] = t[j]
  BY <1>1, <1>2
<1>10. {r[i] : i \in 1 .. m + n} = {s[i] : i \in 1 .. m} \cup {t[i] : i \in 1 .. n}
  <2>1. \A i \in 1 .. m + n : r[i] \in {s[k] : k \in 1 .. m} \cup {t[k] : k \in 1 .. n}
    <3> TAKE i \in 1 .. m + n
    <3>1. CASE i <= m
      <4>1. i \in 1 .. m /\ r[i] = s[i]
        BY <1>1, <1>2, <3>1
      <4>2. QED  BY <4>1
    <3>2. CASE i > m
      <4>1. i - m \in 1 .. n /\ r[i] = t[i - m]
        BY <1>1, <1>2, <1>4, <3>2
      <4>2. QED  BY <4>1
    <3>3. QED  BY <1>1, <3>1, <3>2
  <2>2. QED  BY <2>1, <1>8, <1>9
<1>11. QED  BY <1>3, <1>7, <1>10 DEF r

\* The list without the one at a place.
LEMMA ListRemovedAt ==
    ASSUME NEW S, NEW s, List(s, S), NEW k \in 1 .. Len(s)
    PROVE  /\ List(Plan!RemoveAt(s, k), S)
           /\ Len(Plan!RemoveAt(s, k)) = Len(s) - 1
           /\ Plan!Range(Plan!RemoveAt(s, k)) = Plan!Range(s) \ {s[k]}
<1> DEFINE n == Len(s)
           a == SubSeq(s, 1, k - 1)
           b == SubSeq(s, k + 1, n)
           r == a \o b
<1>1. /\ n \in Nat /\ k \in Nat /\ 1 <= k /\ k <= n
      /\ \A i \in 1 .. n : s[i] \in S
      /\ \A i, j \in 1 .. n : s[i] = s[j] => i = j
      /\ Plan!Range(s) = {s[i] : i \in 1 .. n}
  BY ListFacts
<1> HIDE DEF n
<1>2. /\ a \in Seq(S) /\ Len(a) = k - 1
      /\ \A i \in 1 .. k - 1 : a[i] = s[i]
  <2>1. /\ 1 \in Int /\ k - 1 \in Int /\ \A i \in 1 .. k - 1 : s[i] \in S
    BY <1>1
  <2>2. /\ a \in Seq(S) /\ Len(a) = (IF 1 <= k - 1 THEN k - 1 - 1 + 1 ELSE 0)
        /\ \A i \in 1 .. k - 1 - 1 + 1 : a[i] = s[1 + i - 1]
    BY <2>1, SubSeqProperties
  <2> HIDE DEF a
  <2>3. QED  BY <1>1, <2>2
<1>3. /\ b \in Seq(S) /\ Len(b) = n - k
      /\ \A i \in 1 .. n - k : b[i] = s[k + i]
  <2>1. /\ k + 1 \in Int /\ n \in Int /\ \A i \in k + 1 .. n : s[i] \in S
    BY <1>1
  <2>2. /\ b \in Seq(S) /\ Len(b) = (IF k + 1 <= n THEN n - (k + 1) + 1 ELSE 0)
        /\ \A i \in 1 .. n - (k + 1) + 1 : b[i] = s[k + 1 + i - 1]
    BY <2>1, SubSeqProperties
  <2> HIDE DEF b
  <2>3. QED  BY <1>1, <2>2
<1>4. /\ r \in Seq(S) /\ Len(r) = n - 1
      /\ \A i \in 1 .. n - 1 : r[i] = IF i < k THEN s[i] ELSE s[i + 1]
  <2>1. /\ r \in Seq(S) /\ Len(r) = Len(a) + Len(b)
        /\ \A i \in 1 .. Len(a) + Len(b) :
              r[i] = IF i <= Len(a) THEN a[i] ELSE b[i - Len(a)]
    BY <1>2, <1>3, ConcatProperties
  <2> HIDE DEF a, b, r
  <2>2. ASSUME NEW i \in 1 .. n - 1
        PROVE  r[i] = IF i < k THEN s[i] ELSE s[i + 1]
    <3>1. CASE i < k
      BY <1>1, <1>2, <1>3, <2>1, <3>1
    <3>2. CASE i >= k
      <4>1. i - (k - 1) \in 1 .. n - k /\ k + (i - (k - 1)) = i + 1
        BY <1>1, <3>2
      <4>2. r[i] = b[i - (k - 1)]
        BY <1>1, <1>2, <1>3, <2>1, <3>2
      <4>3. b[i - (k - 1)] = s[k + (i - (k - 1))]
        BY <1>3, <4>1
      <4>4. QED  BY <1>1, <3>2, <4>1, <4>2, <4>3
    <3>3. QED  BY <1>1, <3>1, <3>2
  <2>3. QED  BY <1>1, <1>2, <1>3, <2>1, <2>2
<1> HIDE DEF a, b, r
<1>5. ASSUME NEW i \in 1 .. n - 1, NEW j \in 1 .. n - 1, r[i] = r[j]
      PROVE  i = j
  BY <1>1, <1>4, <1>5
<1>6. List(r, S) /\ Plan!Range(r) = {r[i] : i \in 1 .. n - 1}
  <2>1. \A i, j \in 1 .. Len(r) : r[i] = r[j] => i = j
    BY <1>4, <1>5
  <2>2. List(r, S) /\ Plan!Range(r) = {r[i] : i \in 1 .. Len(r)}
    BY <1>4, <2>1, ListOf
  <2>3. QED  BY <1>4, <2>2
<1>7. \A i \in 1 .. n - 1 : r[i] \in {s[j] : j \in 1 .. n} \ {s[k]}
  <2>1. ASSUME NEW i \in 1 .. n - 1
        PROVE  \E j \in 1 .. n : j # k /\ r[i] = s[j]
    <3>1. CASE i < k
      BY <1>1, <1>4, <3>1
    <3>2. CASE i >= k
      <4>1. i + 1 \in 1 .. n /\ i + 1 # k /\ r[i] = s[i + 1]
        BY <1>1, <1>4, <3>2
      <4>2. QED  BY <4>1
    <3>3. QED  BY <1>1, <3>1, <3>2
  <2>2. QED  BY <1>1, <2>1
<1>8. ASSUME NEW j \in 1 .. n, j # k
      PROVE  \E i \in 1 .. n - 1 : r[i] = s[j]
  <2>1. CASE j < k
    BY <1>1, <1>4, <2>1
  <2>2. CASE j > k
    <3>1. j - 1 \in 1 .. n - 1 /\ r[j - 1] = s[j]
      BY <1>1, <1>4, <2>2
    <3>2. QED  BY <3>1
  <2>3. QED  BY <1>1, <1>8, <2>1, <2>2
<1>9. {r[i] : i \in 1 .. n - 1} = {s[j] : j \in 1 .. n} \ {s[k]}
  BY <1>7, <1>8
<1>10. Plan!RemoveAt(s, k) = r
  BY DEF Plan!RemoveAt, a, b, r, n
<1>11. QED  BY <1>1, <1>4, <1>6, <1>9, <1>10 DEF n

\* The list with one more at a place.
LEMMA ListInsertedAt ==
    ASSUME NEW S, NEW s, List(s, S), NEW k \in 1 .. Len(s) + 1,
           NEW e \in S \ Plan!Range(s)
    PROVE  /\ List(Plan!InsertAt(s, k, e), S)
           /\ Plan!Range(Plan!InsertAt(s, k, e)) = Plan!Range(s) \cup {e}
<1> DEFINE n == Len(s)
           a == SubSeq(s, 1, k - 1)
           b == SubSeq(s, k, n)
           c == a \o <<e>>
           r == c \o b
<1>1. /\ n \in Nat /\ k \in Nat /\ 1 <= k /\ k <= n + 1
      /\ \A i \in 1 .. n : s[i] \in S
      /\ \A i, j \in 1 .. n : s[i] = s[j] => i = j
      /\ Plan!Range(s) = {s[i] : i \in 1 .. n}
  BY ListFacts
<1> HIDE DEF n
<1>2. /\ a \in Seq(S) /\ Len(a) = k - 1
      /\ \A i \in 1 .. k - 1 : a[i] = s[i]
  <2>1. /\ 1 \in Int /\ k - 1 \in Int /\ \A i \in 1 .. k - 1 : s[i] \in S
    BY <1>1
  <2>2. /\ a \in Seq(S) /\ Len(a) = (IF 1 <= k - 1 THEN k - 1 - 1 + 1 ELSE 0)
        /\ \A i \in 1 .. k - 1 - 1 + 1 : a[i] = s[1 + i - 1]
    BY <2>1, SubSeqProperties
  <2> HIDE DEF a
  <2>3. QED  BY <1>1, <2>2
<1>3. /\ b \in Seq(S) /\ Len(b) = n - k + 1
      /\ \A i \in 1 .. n - k + 1 : b[i] = s[k + i - 1]
  <2>1. /\ k \in Int /\ n \in Int /\ \A i \in k .. n : s[i] \in S
    BY <1>1
  <2>2. /\ b \in Seq(S) /\ Len(b) = (IF k <= n THEN n - k + 1 ELSE 0)
        /\ \A i \in 1 .. n - k + 1 : b[i] = s[k + i - 1]
    BY <2>1, SubSeqProperties
  <2> HIDE DEF b
  <2>3. QED  BY <1>1, <2>2
<1>4. List(a, S) /\ Plan!Range(a) = {s[i] : i \in 1 .. k - 1}
  <2>1. \A i, j \in 1 .. Len(a) : a[i] = a[j] => i = j
    BY <1>1, <1>2
  <2>2. List(a, S) /\ Plan!Range(a) = {a[i] : i \in 1 .. Len(a)}
    BY <1>2, <2>1, ListOf
  <2> HIDE DEF a
  <2>3. QED  BY <1>2, <2>2
<1>5. List(b, S) /\ Plan!Range(b) = {s[i] : i \in k .. n}
  <2>1. \A i, j \in 1 .. Len(b) : b[i] = b[j] => i = j
    <3> SUFFICES ASSUME NEW i \in 1 .. n - k + 1, NEW j \in 1 .. n - k + 1,
                        b[i] = b[j]
                 PROVE  i = j
      BY <1>3
    <3>1. s[k + i - 1] = s[k + j - 1]
      BY <1>3
    <3>2. k + i - 1 \in 1 .. n /\ k + j - 1 \in 1 .. n
      BY <1>1
    <3>3. k + i - 1 = k + j - 1
      BY <1>1, <3>1, <3>2
    <3>4. QED  BY <1>1, <3>3
  <2>2. List(b, S) /\ Plan!Range(b) = {b[i] : i \in 1 .. n - k + 1}
    BY <1>3, <2>1, ListOf
  <2>3. {b[i] : i \in 1 .. n - k + 1} = {s[i] : i \in k .. n}
    <3>1. \A i \in 1 .. n - k + 1 : b[i] \in {s[j] : j \in k .. n}
      <4> TAKE i \in 1 .. n - k + 1
      <4>1. k + i - 1 \in k .. n /\ b[i] = s[k + i - 1]
        BY <1>1, <1>3
      <4>2. QED  BY <4>1
    <3>2. \A j \in k .. n : s[j] \in {b[i] : i \in 1 .. n - k + 1}
      <4> TAKE j \in k .. n
      <4>1. j - k + 1 \in 1 .. n - k + 1 /\ k + (j - k + 1) - 1 = j
        BY <1>1
      <4>2. b[j - k + 1] = s[j]
        BY <1>3, <4>1
      <4>3. QED  BY <4>1, <4>2
    <3>3. QED  BY <3>1, <3>2
  <2>4. QED  BY <2>2, <2>3
<1>6. List(<<e>>, S) /\ Plan!Range(<<e>>) = {e}
  BY ListSingle
<1> HIDE DEF a, b, c, r
<1>7. List(c, S) /\ Plan!Range(c) = {s[i] : i \in 1 .. k - 1} \cup {e}
  <2>1. Apart(a, <<e>>, S)
    BY <1>1, <1>4, <1>6 DEF Apart
  <2>2. List(c, S) /\ Plan!Range(c) = Plan!Range(a) \cup Plan!Range(<<e>>)
    BY <2>1, ListAppended DEF c
  <2>3. QED  BY <1>4, <1>6, <2>2
<1>8. List(r, S) /\ Plan!Range(r) = Plan!Range(c) \cup Plan!Range(b)
  <2>1. \A i \in 1 .. k - 1, j \in k .. n : s[i] # s[j]
    BY <1>1
  <2>2. Apart(c, b, S)
    <3> DEFINE x == {s[i] : i \in 1 .. k - 1}
               y == {s[j] : j \in k .. n}
    <3>1. \A j \in k .. n : s[j] # e
      BY <1>1
    <3>2. x \cap y = {} /\ e \notin y
      BY <2>1, <3>1
    <3>3. Plan!Range(c) = x \cup {e} /\ Plan!Range(b) = y
      BY <1>5, <1>7
    <3> HIDE DEF x, y
    <3>4. List(c, S) /\ List(b, S)
      BY <1>5, <1>7
    <3>5. QED  BY <3>2, <3>3, <3>4 DEF Apart
  <2>3. QED  BY <2>2, ListAppended DEF r
<1>9. {s[i] : i \in 1 .. k - 1} \cup {s[i] : i \in k .. n} = Plan!Range(s)
  <2>1. 1 .. n = (1 .. k - 1) \cup (k .. n)
    BY <1>1
  <2>2. Plan!Range(s) = {s[i] : i \in 1 .. n}
    BY <1>1
  <2>3. QED  BY <2>1, <2>2
<1>10. Plan!InsertAt(s, k, e) = r
  BY DEF Plan!InsertAt, a, b, c, r, n
<1>11. Plan!Range(r) = Plan!Range(s) \cup {e}
  BY <1>5, <1>7, <1>8, <1>9
<1>12. QED  BY <1>8, <1>10, <1>11

\* arrayMove.
LEMMA ListMoved ==
    ASSUME NEW S, NEW s, List(s, S), NEW i \in 1 .. Len(s),
           NEW j \in 1 .. Len(s)
    PROVE  LET t == Plan!InsertAt(Plan!RemoveAt(s, i), j, s[i])
           IN  List(t, S) /\ Plan!Range(t) = Plan!Range(s)
<1> DEFINE r == Plan!RemoveAt(s, i)
           t == Plan!InsertAt(r, j, s[i])
<1>1. /\ List(r, S) /\ Len(r) = Len(s) - 1
      /\ Plan!Range(r) = Plan!Range(s) \ {s[i]}
  BY ListRemovedAt
<1>2. s[i] \in S /\ s[i] \in Plan!Range(s) /\ Len(s) \in Nat
  BY ListFacts
<1> HIDE DEF r
<1>3. j \in 1 .. Len(r) + 1 /\ s[i] \in S \ Plan!Range(r)
  BY <1>1, <1>2
<1>4. List(t, S) /\ Plan!Range(t) = Plan!Range(r) \cup {s[i]}
  BY <1>1, <1>3, ListInsertedAt
<1>5. Plan!Range(t) = Plan!Range(s)
  BY <1>1, <1>2, <1>4
<1>6. QED  BY <1>4, <1>5 DEF r

\* filter(): what it is not to keep is there once at most.
LEMMA ListWithout ==
    ASSUME NEW S, NEW s, List(s, S), NEW x
    PROVE  /\ List(Plan!Without(s, x), S)
           /\ Plan!Range(Plan!Without(s, x)) = Plan!Range(s) \ {x}
<1>1. /\ \A i, j \in 1 .. Len(s) : s[i] = s[j] => i = j
      /\ Plan!Range(s) = {s[i] : i \in 1 .. Len(s)}
      /\ 1 .. Len(s) \subseteq Int
  BY ListFacts
<1>2. CASE \E k \in 1 .. Len(s) : s[k] = x
  <2>1. PICK k \in 1 .. Len(s) : s[k] = x
    BY <1>2
  <2>2. {i \in 1 .. Len(s) : s[i] = x} = {k}
    BY <1>1, <2>1
  <2>3. Plan!Min({k}) = k
    BY <1>1, <2>1 DEF Plan!Min
  <2>4. Plan!SelectInSeq(s, LAMBDA v : v = x) = k
    BY <2>2, <2>3 DEF Plan!SelectInSeq
  <2>5. Plan!Without(s, x) = Plan!RemoveAt(s, k)
    BY <1>2, <2>4 DEF Plan!Without, Plan!RemoveFirst
  <2>6. QED  BY <2>1, <2>5, ListRemovedAt
<1>3. CASE ~ \E k \in 1 .. Len(s) : s[k] = x
  <2>1. Plan!Without(s, x) = s
    BY <1>3 DEF Plan!Without, Plan!RemoveFirst
  <2>2. x \notin Plan!Range(s)
    BY <1>1, <1>3
  <2>3. QED  BY <2>1, <2>2
<1>4. QED  BY <1>2, <1>3

\* One of the list is replaced by what is not another of it.
LEMMA ListRenamed ==
    ASSUME NEW S, NEW s, List(s, S), NEW x \in Plan!Range(s), NEW y \in S,
           y \notin Plan!Range(s) \ {x}
    PROVE  /\ List(Plan!Renamed(s, x, y), S)
           /\ Plan!Range(Plan!Renamed(s, x, y)) =
                (Plan!Range(s) \ {x}) \cup {y}
<1> DEFINE n == Len(s)
           r == Plan!Renamed(s, x, y)
<1>1. /\ n \in Nat /\ \A i \in 1 .. n : s[i] \in S
      /\ \A i, j \in 1 .. n : s[i] = s[j] => i = j
      /\ Plan!Range(s) = {s[i] : i \in 1 .. n}
  BY ListFacts
<1>2. r = [i \in 1 .. n |-> IF s[i] = x THEN y ELSE s[i]]
  BY DEF Plan!Renamed
<1> HIDE DEF n, r
<1>3. r \in Seq(S) /\ Len(r) = n
  BY <1>1, <1>2
<1>4. \A i \in 1 .. n : r[i] = IF s[i] = x THEN y ELSE s[i]
  BY <1>2
<1>5. ASSUME NEW i \in 1 .. n, NEW j \in 1 .. n, r[i] = r[j] PROVE i = j
  <2>1. \A k \in 1 .. n : s[k] # x => s[k] # y
    BY <1>1
  <2>2. QED  BY <1>1, <1>4, <1>5, <2>1
<1>6. List(r, S) /\ Plan!Range(r) = {r[i] : i \in 1 .. n}
  <2>1. \A i, j \in 1 .. Len(r) : r[i] = r[j] => i = j
    BY <1>3, <1>5
  <2>2. List(r, S) /\ Plan!Range(r) = {r[i] : i \in 1 .. Len(r)}
    BY <1>3, <2>1, ListOf
  <2>3. QED  BY <1>3, <2>2
<1>7. PICK k \in 1 .. n : s[k] = x
  BY <1>1
<1>8. \A i \in 1 .. n : r[i] \in ({s[j] : j \in 1 .. n} \ {x}) \cup {y}
  BY <1>4
<1>9. \A i \in 1 .. n : s[i] # x => r[i] = s[i]
  BY <1>4
<1>10. r[k] = y
  BY <1>4, <1>7
<1>11. {r[i] : i \in 1 .. n} = ({s[j] : j \in 1 .. n} \ {x}) \cup {y}
  BY <1>7, <1>8, <1>9, <1>10
<1>12. Plan!Range(r) = (Plan!Range(s) \ {x}) \cup {y}
  BY <1>1, <1>6, <1>11
<1>13. QED  BY <1>6, <1>12 DEF r

\* A set of tunnels, listed.
LEMMA ListOfSet ==
    ASSUME NEW T \in SUBSET Portals
    PROVE  /\ List(Plan!SetToSeq(T), Portals)
           /\ Plan!Range(Plan!SetToSeq(T)) = T
<1> DEFINE n == Cardinality(T)
           f == Plan!SetToSeq(T)
<1>1. IsFiniteSet(Portals)
  BY PagesAssumption DEF Plan!FormAssumption, Plan!IsFiniteSet, IsFiniteSet
<1>2. IsFiniteSet(T)
  BY <1>1, FS_Subset
<1>3. n \in Nat /\ ExistsBijection(1 .. n, T)
  BY <1>2, FS_CardinalityType
<1>4. Plan!Cardinality(T) = n
  BY DEF Plan!Cardinality, Cardinality, Plan!IsFiniteSet, IsFiniteSet
<1> HIDE DEF n
<1>5. \E g \in [1 .. n -> T] : Plan!IsInjective(g)
  BY <1>3 DEF ExistsBijection, Bijection, Injection, IsInjective,
              Plan!IsInjective
<1>6. f \in [1 .. n -> T] /\ Plan!IsInjective(f)
  BY <1>4, <1>5 DEF Plan!SetToSeq
<1>7. f \in Injection(1 .. n, T)
  BY <1>6 DEF Injection, IsInjective, Plan!IsInjective
<1>8. f \in Surjection(1 .. n, T)
  <2>1. IsFiniteSet(1 .. n) /\ Cardinality(1 .. n) = n
    BY <1>3, FS_Interval
  <2>2. QED  BY <1>2, <1>7, <2>1, FS_Injection DEF n
<1> HIDE DEF f
<1>9. f \in Seq(Portals) /\ Len(f) = n
  BY <1>3, <1>6
<1>10. \A i, j \in 1 .. n : f[i] = f[j] => i = j
  BY <1>6 DEF Plan!IsInjective
<1>11. List(f, Portals) /\ Plan!Range(f) = {f[i] : i \in 1 .. n}
  <2>1. \A i, j \in 1 .. Len(f) : f[i] = f[j] => i = j
    BY <1>9, <1>10
  <2>2. List(f, Portals) /\ Plan!Range(f) = {f[i] : i \in 1 .. Len(f)}
    BY <1>9, <2>1, ListOf
  <2>3. QED  BY <1>9, <2>2
<1>12. {f[i] : i \in 1 .. n} = T
  BY <1>6, <1>8 DEF Surjection
<1>13. QED  BY <1>11, <1>12 DEF f
-----------------------------------------------------------------------------
(* WebSubscriptionForm: an order lists what the form has, once.             *)

Portal(p) == Plan!PortalItem(p)
Url(u) == Plan!UrlItem(u)
OfPortals(P) == {Portal(p) : p \in P}
OfUrls(U) == {Url(u) : u \in U}

LEMMA ItemFacts ==
    /\ \A p, q : Portal(p) = Portal(q) => p = q
    /\ \A u, v : Url(u) = Url(v) => u = v
    /\ \A p, u : Portal(p) # Url(u)
    /\ \A p \in Portals : Portal(p) \in Plan!Items
    /\ \A u \in Plan!Uris : Url(u) \in Plan!Items
    /\ \A x \in Plan!Items :
          /\ x.source = "portal" => x.of[1] \in Portals /\ x = Portal(x.of[1])
          /\ x.source = "url" => x.of \in Plan!Uris /\ x = Url(x.of)
<1>1. /\ \A p : Portal(p).source = "portal" /\ Portal(p).of[1] = p
      /\ \A u : Url(u).source = "url" /\ Url(u).of = u
  BY DEF Portal, Url, Plan!PortalItem, Plan!UrlItem
<1>2. /\ \A p \in Portals : Portal(p) \in Plan!Items
      /\ \A u \in Plan!Uris : Url(u) \in Plan!Items
      /\ \A x \in Plan!Items : \/ \E p \in Portals : x = Portal(p)
                               \/ \E u \in Plan!Uris : x = Url(u)
  BY DEF Portal, Url, Plan!Items
<1>3. ASSUME NEW x \in Plan!Items
      PROVE  /\ x.source = "portal" =>
                  x.of[1] \in Portals /\ x = Portal(x.of[1])
             /\ x.source = "url" => x.of \in Plan!Uris /\ x = Url(x.of)
  <2>1. CASE \E p \in Portals : x = Portal(p)
    BY <1>1, <2>1
  <2>2. CASE \E u \in Plan!Uris : x = Url(u)
    BY <1>1, <2>2
  <2>3. QED  BY <1>2, <2>1, <2>2
<1>4. /\ \A p, q : Portal(p) = Portal(q) => p = q
      /\ \A u, v : Url(u) = Url(v) => u = v
      /\ \A p, u : Portal(p) # Url(u)
  BY <1>1
<1>5. QED  BY <1>2, <1>3, <1>4

LEMMA ImageFacts ==
    /\ \A P, Q : OfPortals(P \cup Q) = OfPortals(P) \cup OfPortals(Q)
    /\ \A U, V : OfUrls(U \cup V) = OfUrls(U) \cup OfUrls(V)
    /\ \A P, U : OfPortals(P) \cap OfUrls(U) = {}
    /\ \A P, p : OfPortals(P \ {p}) = OfPortals(P) \ {Portal(p)}
    /\ \A U, u : OfUrls(U \ {u}) = OfUrls(U) \ {Url(u)}
    /\ \A U, p : OfUrls(U) \ {Portal(p)} = OfUrls(U)
    /\ \A P, u : OfPortals(P) \ {Url(u)} = OfPortals(P)
    /\ \A P, Q : P \cap Q = {} => OfPortals(P) \cap OfPortals(Q) = {}
    /\ \A U, V : U \cap V = {} => OfUrls(U) \cap OfUrls(V) = {}
    /\ \A u : OfUrls({u}) = {Url(u)}
<1>1. /\ \A P, Q : OfPortals(P \cup Q) = OfPortals(P) \cup OfPortals(Q)
      /\ \A U, V : OfUrls(U \cup V) = OfUrls(U) \cup OfUrls(V)
      /\ \A u : OfUrls({u}) = {Url(u)}
  BY DEF OfPortals, OfUrls
<1>2. /\ \A P, U : OfPortals(P) \cap OfUrls(U) = {}
      /\ \A U, p : OfUrls(U) \ {Portal(p)} = OfUrls(U)
      /\ \A P, u : OfPortals(P) \ {Url(u)} = OfPortals(P)
  BY ItemFacts DEF OfPortals, OfUrls
<1>3. /\ \A P, p : OfPortals(P \ {p}) = OfPortals(P) \ {Portal(p)}
      /\ \A P, Q : P \cap Q = {} => OfPortals(P) \cap OfPortals(Q) = {}
  BY ItemFacts DEF OfPortals
<1>4. /\ \A U, u : OfUrls(U \ {u}) = OfUrls(U) \ {Url(u)}
      /\ \A U, V : U \cap V = {} => OfUrls(U) \cap OfUrls(V) = {}
  BY ItemFacts DEF OfUrls
<1>5. QED  BY <1>1, <1>2, <1>3, <1>4

PlanSources == [tunnelIds : Seq(Portals), externalUris : Seq(Plan!Uris),
                nodeOrder : Seq(Plan!Items)]

Ordered(s) ==
    /\ s \in PlanSources
    /\ List(s.tunnelIds, Portals) /\ List(s.externalUris, Plan!Uris)
    /\ List(s.nodeOrder, Plan!Items)
    /\ Plan!Range(s.nodeOrder) = OfPortals(Plan!Range(s.tunnelIds))
                                    \cup OfUrls(Plan!Range(s.externalUris))

LEMMA OrderedIsValid ==
    ASSUME NEW s, Ordered(s)
    PROVE  Plan!ValidateNodeOrder(s)
BY DEF Ordered, List, Plan!ValidateNodeOrder, OfPortals, OfUrls, Portal, Url

LEMMA NothingOrdered == Ordered(Plan!Nothing)
<1> DEFINE s == Plan!Nothing
<1>1. s \in PlanSources
  BY EmptySeq DEF Plan!Nothing, PlanSources
<1>2. s.tunnelIds = << >> /\ s.externalUris = << >> /\ s.nodeOrder = << >>
  BY DEF Plan!Nothing
<1>3. OfPortals({}) = {} /\ OfUrls({}) = {}
  BY DEF OfPortals, OfUrls
<1>4. QED  BY <1>1, <1>2, <1>3, ListEmpty DEF Ordered

\* The rows that tunnels, and URLs, make.
LEMMA PortalRows ==
    ASSUME NEW s, List(s, Portals)
    PROVE  LET items == [i \in 1 .. Len(s) |-> Plan!PortalItem(s[i])]
           IN  /\ List(items, Plan!Items)
               /\ Plan!Range(items) = OfPortals(Plan!Range(s))
<1> DEFINE n == Len(s)
           r == [i \in 1 .. n |-> Portal(s[i])]
<1>1. /\ n \in Nat /\ \A i \in 1 .. n : s[i] \in Portals
      /\ \A i, j \in 1 .. n : s[i] = s[j] => i = j
      /\ Plan!Range(s) = {s[i] : i \in 1 .. n}
  BY ListFacts
<1> HIDE DEF n
<1>2. \A i \in 1 .. n : Portal(s[i]) \in Plan!Items
  BY <1>1, ItemFacts
<1>3. r \in Seq(Plan!Items) /\ Len(r) = n
      /\ \A i \in 1 .. n : r[i] = Portal(s[i])
  BY <1>1, <1>2
<1>4. r = [i \in 1 .. n |-> Plan!PortalItem(s[i])]
  BY DEF Portal
<1> HIDE DEF r
<1>5. \A i, j \in 1 .. Len(r) : r[i] = r[j] => i = j
  BY <1>1, <1>3, ItemFacts
<1>6. List(r, Plan!Items) /\ Plan!Range(r) = {r[i] : i \in 1 .. n}
  BY <1>3, <1>5, ListOf
<1>7. {r[i] : i \in 1 .. n} = OfPortals(Plan!Range(s))
  BY <1>1, <1>3 DEF OfPortals
<1>8. QED  BY <1>4, <1>6, <1>7 DEF n

LEMMA UrlRows ==
    ASSUME NEW s, List(s, Plan!Uris)
    PROVE  LET items == [i \in 1 .. Len(s) |-> Plan!UrlItem(s[i])]
           IN  /\ List(items, Plan!Items)
               /\ Plan!Range(items) = OfUrls(Plan!Range(s))
<1> DEFINE n == Len(s)
           r == [i \in 1 .. n |-> Url(s[i])]
<1>1. /\ n \in Nat /\ \A i \in 1 .. n : s[i] \in Plan!Uris
      /\ \A i, j \in 1 .. n : s[i] = s[j] => i = j
      /\ Plan!Range(s) = {s[i] : i \in 1 .. n}
  BY ListFacts
<1> HIDE DEF n
<1>2. \A i \in 1 .. n : Url(s[i]) \in Plan!Items
  BY <1>1, ItemFacts
<1>3. r \in Seq(Plan!Items) /\ Len(r) = n
      /\ \A i \in 1 .. n : r[i] = Url(s[i])
  BY <1>1, <1>2
<1>4. r = [i \in 1 .. n |-> Plan!UrlItem(s[i])]
  BY DEF Url
<1> HIDE DEF r
<1>5. \A i, j \in 1 .. Len(r) : r[i] = r[j] => i = j
  BY <1>1, <1>3, ItemFacts
<1>6. List(r, Plan!Items) /\ Plan!Range(r) = {r[i] : i \in 1 .. n}
  BY <1>3, <1>5, ListOf
<1>7. {r[i] : i \in 1 .. n} = OfUrls(Plan!Range(s))
  BY <1>1, <1>3 DEF OfUrls
<1>8. QED  BY <1>4, <1>6, <1>7 DEF n

LEMMA FormStateOrdered ==
    ASSUME NEW s, Ordered(s)
    PROVE  Ordered(Plan!ToFormState(s))
<1> DEFINE a == [i \in 1 .. Len(s.tunnelIds) |->
                    Plan!PortalItem(s.tunnelIds[i])]
           b == [i \in 1 .. Len(s.externalUris) |->
                    Plan!UrlItem(s.externalUris[i])]
           t == [s EXCEPT !.nodeOrder = a \o b]
<1>1. /\ List(a, Plan!Items) /\ List(b, Plan!Items)
      /\ Plan!Range(a) = OfPortals(Plan!Range(s.tunnelIds))
      /\ Plan!Range(b) = OfUrls(Plan!Range(s.externalUris))
  BY PortalRows, UrlRows DEF Ordered
<1>2. Plan!ToFormState(s) = IF Len(s.nodeOrder) = Len(a \o b) THEN s ELSE t
  BY DEF Plan!ToFormState
<1> HIDE DEF a, b
<1>3. /\ List(a \o b, Plan!Items)
      /\ Plan!Range(a \o b) = Plan!Range(a) \cup Plan!Range(b)
  <2>1. Apart(a, b, Plan!Items)
    BY <1>1, ImageFacts DEF Apart
  <2>2. QED  BY <2>1, ListAppended
<1>4. /\ t.tunnelIds = s.tunnelIds /\ t.externalUris = s.externalUris
      /\ t.nodeOrder = a \o b /\ t \in PlanSources
  BY <1>3 DEF Ordered, PlanSources, List
<1> HIDE DEF t
<1>5. Ordered(t)
  BY <1>1, <1>3, <1>4 DEF Ordered
<1>6. Plan!ToFormState(s) = s \/ Plan!ToFormState(s) = t
  BY <1>2
<1>7. QED  BY <1>5, <1>6

\* What the modals and the rows do to the sources.
LEMMA PortalsImported ==
    ASSUME NEW s, Ordered(s), NEW T \in SUBSET Portals,
           T \cap Plan!Range(s.tunnelIds) = {}
    PROVE  LET new == Plan!SetToSeq(T)
               items == [i \in 1 .. Len(new) |-> Plan!PortalItem(new[i])]
           IN  Ordered([s EXCEPT !.tunnelIds = @ \o new,
                                 !.nodeOrder = @ \o items])
<1> DEFINE new == Plan!SetToSeq(T)
           items == [i \in 1 .. Len(new) |-> Plan!PortalItem(new[i])]
           a == s.tunnelIds \o new
           o == s.nodeOrder \o items
           t == [s EXCEPT !.tunnelIds = a, !.nodeOrder = o]
<1>1. List(new, Portals) /\ Plan!Range(new) = T
  BY ListOfSet
<1>2. List(items, Plan!Items) /\ Plan!Range(items) = OfPortals(T)
  BY <1>1, PortalRows
<1> HIDE DEF new, items
<1>3. /\ List(a, Portals)
      /\ Plan!Range(a) = Plan!Range(s.tunnelIds) \cup T
  <2>1. Apart(s.tunnelIds, new, Portals)
    BY <1>1 DEF Apart, Ordered
  <2>2. QED  BY <1>1, <2>1, ListAppended
<1>4. Apart(s.nodeOrder, items, Plan!Items)
  BY <1>2, ImageFacts DEF Ordered, Apart
<1>5. /\ List(o, Plan!Items)
      /\ Plan!Range(o) = Plan!Range(s.nodeOrder) \cup OfPortals(T)
  BY <1>2, <1>4, ListAppended
<1> HIDE DEF a, o
<1>6. /\ t.tunnelIds = a /\ t.externalUris = s.externalUris
      /\ t.nodeOrder = o /\ t \in PlanSources
  BY <1>3, <1>5 DEF Ordered, PlanSources, List
<1> HIDE DEF t
<1>7. Plan!Range(o) = OfPortals(Plan!Range(a))
                        \cup OfUrls(Plan!Range(s.externalUris))
  BY <1>3, <1>5, ImageFacts DEF Ordered
<1>8. Ordered(t)
  BY <1>3, <1>5, <1>6, <1>7 DEF Ordered
<1>9. QED  BY <1>8 DEF t, a, o, items, new

LEMMA UrlsImported ==
    ASSUME NEW s, Ordered(s), NEW draft, List(draft, Plan!Uris),
           Plan!Range(draft) \cap Plan!Range(s.externalUris) = {}
    PROVE  LET items == [i \in 1 .. Len(draft) |-> Plan!UrlItem(draft[i])]
           IN  Ordered([s EXCEPT !.externalUris = @ \o draft,
                                 !.nodeOrder = @ \o items])
<1> DEFINE items == [i \in 1 .. Len(draft) |-> Plan!UrlItem(draft[i])]
           b == s.externalUris \o draft
           o == s.nodeOrder \o items
           t == [s EXCEPT !.externalUris = b, !.nodeOrder = o]
           D == Plan!Range(draft)
<1>1. List(items, Plan!Items) /\ Plan!Range(items) = OfUrls(D)
  BY UrlRows
<1> HIDE DEF items, t, D
<1>2. /\ List(b, Plan!Uris)
      /\ Plan!Range(b) = Plan!Range(s.externalUris) \cup D
  <2>1. Apart(s.externalUris, draft, Plan!Uris)
    BY DEF Apart, Ordered
  <2>2. QED  BY <2>1, ListAppended DEF D
<1> HIDE DEF b
<1>3. Apart(s.nodeOrder, items, Plan!Items)
  BY <1>1, ImageFacts DEF Ordered, D, Apart
<1>4. /\ List(o, Plan!Items)
      /\ Plan!Range(o) = Plan!Range(s.nodeOrder) \cup OfUrls(D)
  <2>1. /\ List(o, Plan!Items)
        /\ Plan!Range(o) = Plan!Range(s.nodeOrder) \cup Plan!Range(items)
    BY <1>3, ListAppended
  <2>2. QED  BY <1>1, <2>1
<1> HIDE DEF o
<1>5. /\ t.tunnelIds = s.tunnelIds /\ t.externalUris = b
      /\ t.nodeOrder = o /\ t \in PlanSources
  BY <1>2, <1>4 DEF Ordered, PlanSources, List, t
<1>6. Plan!Range(o) = OfPortals(Plan!Range(s.tunnelIds))
                        \cup OfUrls(Plan!Range(b))
  BY <1>2, <1>4, ImageFacts DEF Ordered
<1>7. Ordered(t)
  BY <1>2, <1>4, <1>5, <1>6 DEF Ordered
<1>8. QED  BY <1>7 DEF t, b, o, items

LEMMA PortalRemoved ==
    ASSUME NEW s, Ordered(s), NEW p
    PROVE  Ordered([s EXCEPT !.tunnelIds = Plan!Without(@, p),
                             !.nodeOrder = Plan!Without(@, Plan!PortalItem(p))])
<1> DEFINE a == Plan!Without(s.tunnelIds, p)
           o == Plan!Without(s.nodeOrder, Portal(p))
           t == [s EXCEPT !.tunnelIds = a, !.nodeOrder = o]
<1>1. List(a, Portals) /\ Plan!Range(a) = Plan!Range(s.tunnelIds) \ {p}
  BY ListWithout DEF Ordered
<1>2. /\ List(o, Plan!Items)
      /\ Plan!Range(o) = Plan!Range(s.nodeOrder) \ {Portal(p)}
  BY ListWithout DEF Ordered
<1> HIDE DEF a, o
<1>3. /\ t.tunnelIds = a /\ t.externalUris = s.externalUris
      /\ t.nodeOrder = o /\ t \in PlanSources
  BY <1>1, <1>2 DEF Ordered, PlanSources, List
<1> HIDE DEF t
<1>4. Plan!Range(o) = OfPortals(Plan!Range(a))
                        \cup OfUrls(Plan!Range(s.externalUris))
  <2>1. /\ OfPortals(Plan!Range(a)) =
              OfPortals(Plan!Range(s.tunnelIds)) \ {Portal(p)}
        /\ OfUrls(Plan!Range(s.externalUris)) \ {Portal(p)} =
              OfUrls(Plan!Range(s.externalUris))
    BY <1>1, ImageFacts
  <2>2. QED  BY <1>2, <2>1 DEF Ordered
<1>5. Ordered(t)
  BY <1>1, <1>2, <1>3, <1>4 DEF Ordered
<1>6. QED  BY <1>5 DEF t, a, o, Portal

LEMMA UrlRemoved ==
    ASSUME NEW s, Ordered(s), NEW i \in 1 .. Len(s.externalUris)
    PROVE  Ordered([s EXCEPT
                      !.externalUris = Plan!RemoveAt(@, i),
                      !.nodeOrder =
                         Plan!Without(@, Plan!UrlItem(s.externalUris[i]))])
<1> DEFINE u == s.externalUris[i]
           b == Plan!RemoveAt(s.externalUris, i)
           o == Plan!Without(s.nodeOrder, Url(u))
           t == [s EXCEPT !.externalUris = b, !.nodeOrder = o]
<1>1. List(b, Plan!Uris) /\ Plan!Range(b) = Plan!Range(s.externalUris) \ {u}
  BY ListRemovedAt DEF Ordered
<1> HIDE DEF u, b
<1>2. /\ List(o, Plan!Items)
      /\ Plan!Range(o) = Plan!Range(s.nodeOrder) \ {Url(u)}
  BY ListWithout DEF Ordered
<1> HIDE DEF o
<1>3. /\ t.tunnelIds = s.tunnelIds /\ t.externalUris = b
      /\ t.nodeOrder = o /\ t \in PlanSources
  BY <1>1, <1>2 DEF Ordered, PlanSources, List
<1> HIDE DEF t
<1>4. Plan!Range(o) = OfPortals(Plan!Range(s.tunnelIds))
                        \cup OfUrls(Plan!Range(b))
  <2>1. /\ OfUrls(Plan!Range(b)) =
              OfUrls(Plan!Range(s.externalUris)) \ {Url(u)}
        /\ OfPortals(Plan!Range(s.tunnelIds)) \ {Url(u)} =
              OfPortals(Plan!Range(s.tunnelIds))
    BY <1>1, ImageFacts
  <2>2. QED  BY <1>2, <2>1 DEF Ordered
<1>5. Ordered(t)
  BY <1>1, <1>2, <1>3, <1>4 DEF Ordered
<1>6. QED  BY <1>5 DEF t, b, o, u, Url

LEMMA RowMoved ==
    ASSUME NEW s, Ordered(s), NEW i \in 1 .. Len(s.nodeOrder),
           NEW j \in 1 .. Len(s.nodeOrder)
    PROVE  Ordered([s EXCEPT !.nodeOrder =
                       Plan!InsertAt(Plan!RemoveAt(@, i), j, @[i])])
<1> DEFINE o == Plan!InsertAt(Plan!RemoveAt(s.nodeOrder, i), j,
                              s.nodeOrder[i])
           t == [s EXCEPT !.nodeOrder = o]
<1>1. List(o, Plan!Items) /\ Plan!Range(o) = Plan!Range(s.nodeOrder)
  BY ListMoved DEF Ordered
<1> HIDE DEF o
<1>2. /\ t.tunnelIds = s.tunnelIds /\ t.externalUris = s.externalUris
      /\ t.nodeOrder = o /\ t \in PlanSources
  BY <1>1 DEF Ordered, PlanSources, List
<1> HIDE DEF t
<1>3. Ordered(t)
  BY <1>1, <1>2 DEF Ordered
<1>4. QED  BY <1>3 DEF t, o

LEMMA UrlRenamed ==
    ASSUME NEW s, Ordered(s), NEW u \in Plan!Range(s.externalUris),
           NEW v \in Plan!Uris, v \notin Plan!Range(s.externalUris) \ {u}
    PROVE  Ordered([s EXCEPT
                      !.externalUris = Plan!Renamed(@, u, v),
                      !.nodeOrder = Plan!Renamed(@, Plan!UrlItem(u),
                                                 Plan!UrlItem(v))])
<1> DEFINE b == Plan!Renamed(s.externalUris, u, v)
           o == Plan!Renamed(s.nodeOrder, Url(u), Url(v))
           t == [s EXCEPT !.externalUris = b, !.nodeOrder = o]
           U == Plan!Range(s.externalUris)
           P == Plan!Range(s.tunnelIds)
<1>1. List(b, Plan!Uris) /\ Plan!Range(b) = (U \ {u}) \cup {v}
  BY ListRenamed DEF Ordered
<1>2. Plan!Range(s.nodeOrder) = OfPortals(P) \cup OfUrls(U) /\ u \in U
  BY DEF Ordered
<1> HIDE DEF b, U, P
<1>3. Url(u) \in OfUrls(U) /\ Url(v) \in Plan!Items
  BY <1>2, ItemFacts DEF OfUrls
<1>4. Url(v) \notin Plan!Range(s.nodeOrder) \ {Url(u)}
  <2>1. Url(v) \notin OfPortals(P)
    BY ItemFacts DEF OfPortals
  <2>2. Url(v) \notin OfUrls(U) \ {Url(u)}
    BY ItemFacts DEF OfUrls, U
  <2>3. QED  BY <1>2, <2>1, <2>2
<1>5. /\ List(o, Plan!Items)
      /\ Plan!Range(o) = (Plan!Range(s.nodeOrder) \ {Url(u)}) \cup {Url(v)}
  BY <1>2, <1>3, <1>4, ListRenamed DEF Ordered
<1> HIDE DEF o
<1>6. /\ t.tunnelIds = s.tunnelIds /\ t.externalUris = b
      /\ t.nodeOrder = o /\ t \in PlanSources
  BY <1>1, <1>5 DEF Ordered, PlanSources, List
<1> HIDE DEF t
<1>7. Plan!Range(o) = OfPortals(P) \cup OfUrls(Plan!Range(b))
  <2>1. /\ OfUrls(Plan!Range(b)) = (OfUrls(U) \ {Url(u)}) \cup {Url(v)}
        /\ OfPortals(P) \ {Url(u)} = OfPortals(P)
    <3>1. /\ OfUrls((U \ {u}) \cup {v}) = OfUrls(U \ {u}) \cup OfUrls({v})
          /\ OfUrls(U \ {u}) = OfUrls(U) \ {Url(u)} /\ OfUrls({v}) = {Url(v)}
          /\ OfPortals(P) \ {Url(u)} = OfPortals(P)
      BY ImageFacts
    <3>2. QED  BY <1>1, <3>1
  <2>2. QED  BY <1>2, <1>5, <2>1
<1>8. Ordered(t)
  BY <1>1, <1>5, <1>6, <1>7 DEF Ordered, P
<1>9. QED  BY <1>8 DEF t, b, o, Url

-----------------------------------------------------------------------------
(* WebSubscriptionForm: what the form, the save that is under way and the   *)
(* server hold is in order, and what can be picked is not in the form yet.  *)

PlanPage == [open : BOOLEAN, form : PlanSources, valid : BOOLEAN,
             portals : SUBSET Portals, importer : Plan!Importers,
             selection : SUBSET Portals, target : Nat,
             named : SUBSET Portals, confirming : BOOLEAN,
             submitting : BOOLEAN]

PlanInv ==
    /\ ui \in PlanPage
    /\ Ordered(ui.form)
    /\ \A s \in net : Ordered(s)
    /\ srv \in [sub : PlanSources, portals : SUBSET Portals]
    /\ Ordered(srv.sub)
    /\ ui.importer = "portal" =>
          ui.selection \cap Plan!Range(ui.form.tunnelIds) = {}
    /\ ui.importer # "none" => ui.target = 0
    /\ ui.target \in 0 .. Len(ui.form.nodeOrder)

LEMMA PlanInit == Plan!Init => PlanInv
<1> SUFFICES ASSUME Plan!Init PROVE PlanInv
  OBVIOUS
<1>1. Ordered(Plan!Nothing) /\ Plan!Nothing \in PlanSources
  BY NothingOrdered DEF Ordered
<1>2. 0 \in 0 .. Len(Plan!Nothing.nodeOrder)
  BY <1>1, EmptySeq DEF Plan!Nothing
<1>3. /\ srv = [sub |-> Plan!Nothing, portals |-> Portals] /\ net = {}
      /\ ui \in PlanPage /\ ui.form = Plan!Nothing /\ ui.importer = "none"
      /\ ui.target = 0
  BY <1>1 DEF Plan!Init, PlanPage, Plan!Importers
<1>4. QED  BY <1>1, <1>2, <1>3 DEF PlanInv

\* Steps that leave the form and the server's subscription as they are.
LEMMA PlanStays ==
    ASSUME PlanInv, ui' \in PlanPage, ui'.form = ui.form,
           \A s \in net' : s \in net \/ s = ui.form,
           srv' \in [sub : PlanSources, portals : SUBSET Portals],
           srv'.sub = srv.sub,
           ui'.importer = "none" \/
             (ui'.importer = ui.importer /\ ui'.selection = ui.selection) \/
             ui'.selection = {},
           ui'.importer # "none" => ui'.target = 0,
           ui'.target \in {0, ui.target}
    PROVE  PlanInv'
<1>1. 0 \in 0 .. Len(ui.form.nodeOrder)
  BY LenProperties DEF PlanInv, PlanPage, PlanSources
<1>2. ui'.target \in 0 .. Len(ui'.form.nodeOrder)
  BY <1>1 DEF PlanInv
<1>3. QED  BY <1>2 DEF PlanInv

\* Steps that change the form, and close what was over it.
LEMMA FormChanged ==
    ASSUME PlanInv, ui' \in PlanPage, Ordered(ui.form)', UNCHANGED <<net, srv>>,
           ui'.importer = "none", ui'.target = 0
    PROVE  PlanInv'
<1>1. 0 \in 0 .. Len(ui'.form.nodeOrder)
  BY LenProperties DEF PlanPage, PlanSources
<1>2. QED  BY <1>1 DEF PlanInv

LEMMA PlanNext == PlanInv /\ Plan!Next => PlanInv'
<1> SUFFICES ASSUME PlanInv, Plan!Next PROVE PlanInv'
  OBVIOUS
<1>1. /\ ui \in PlanPage /\ Ordered(ui.form) /\ Ordered(srv.sub)
      /\ srv \in [sub : PlanSources, portals : SUBSET Portals]
      /\ \A s \in net : Ordered(s)
  BY DEF PlanInv
<1>2. /\ List(ui.form.tunnelIds, Portals)
      /\ List(ui.form.externalUris, Plan!Uris)
      /\ List(ui.form.nodeOrder, Plan!Items)
      /\ \A i \in 1 .. Len(ui.form.nodeOrder) :
            ui.form.nodeOrder[i] \in Plan!Items
      /\ \A s : Ordered(s) => s \in PlanSources
  BY <1>1, ListFacts DEF Ordered
<1>3. CASE Plan!Open
  <2>1. PICK s \in {srv.sub, Plan!Nothing} :
            ui' = [ui EXCEPT !.open = TRUE, !.form = Plan!ToFormState(s),
                      !.valid = s # Plan!Nothing, !.importer = "none",
                      !.selection = {}, !.target = 0, !.confirming = FALSE]
    BY <1>3 DEF Plan!Open
  <2>2. Ordered(Plan!ToFormState(s))
    BY <1>1, NothingOrdered, FormStateOrdered
  <2>3. Plan!ToFormState(s) \in PlanSources
    BY <1>2, <2>2
  <2>4. ui' \in PlanPage /\ ui'.form = Plan!ToFormState(s)
        /\ ui'.importer = "none" /\ ui'.target = 0
    BY <1>1, <2>1, <2>3 DEF PlanPage, Plan!Importers
  <2>5. QED  BY <1>3, <2>2, <2>4, FormChanged DEF Plan!Open
<1>4. CASE Plan!Close \/ Plan!SetFields \/ Plan!CloseImporter
           \/ Plan!CloseNameEditor \/ Plan!CloseConfirm
  <2>1. UNCHANGED <<net, srv>>
    BY <1>4 DEF Plan!Close, Plan!SetFields, Plan!CloseImporter,
                Plan!CloseNameEditor, Plan!CloseConfirm
  <2>2. /\ ui' \in PlanPage /\ ui'.form = ui.form
        /\ ui'.importer \in {"none", ui.importer}
        /\ ui'.selection = ui.selection /\ ui'.target \in {0, ui.target}
    <3>1. CASE Plan!Close
      BY <1>1, <3>1 DEF Plan!Close, PlanPage
    <3>2. CASE Plan!SetFields
      BY <1>1, <3>2 DEF Plan!SetFields, PlanPage
    <3>3. CASE Plan!CloseImporter
      BY <1>1, <3>3 DEF Plan!CloseImporter, PlanPage, Plan!Importers
    <3>4. CASE Plan!CloseNameEditor
      BY <1>1, <3>4 DEF Plan!CloseNameEditor, PlanPage
    <3>5. CASE Plan!CloseConfirm
      BY <1>1, <3>5 DEF Plan!CloseConfirm, PlanPage
    <3>6. QED  BY <1>4, <3>1, <3>2, <3>3, <3>4, <3>5
  <2>3. ui'.importer # "none" => ui'.target = 0
    BY <2>2 DEF PlanInv
  <2>4. QED  BY <1>1, <2>1, <2>2, <2>3, PlanStays
<1>5. ASSUME NEW mode \in Plan!Importers \ {"none"}, Plan!OpenImporter(mode)
      PROVE  PlanInv'
  <2>1. /\ ui' \in PlanPage /\ ui'.form = ui.form /\ ui'.selection = {}
        /\ ui'.target = 0 /\ UNCHANGED <<net, srv>>
    BY <1>1, <1>5 DEF Plan!OpenImporter, Plan!FormBody, PlanPage
  <2>2. QED  BY <1>1, <2>1, PlanStays
<1>6. ASSUME NEW p \in Portals, Plan!TogglePortalSelection(p) PROVE PlanInv'
  <2> DEFINE picked == IF p \in ui.selection THEN ui.selection \ {p}
                       ELSE ui.selection \cup {p}
  <2>1. /\ ui' = [ui EXCEPT !.selection = picked] /\ UNCHANGED <<net, srv>>
        /\ ui.importer = "portal" /\ p \notin Plan!Range(ui.form.tunnelIds)
    BY <1>6 DEF Plan!TogglePortalSelection, Plan!PortalImporter,
                Plan!AvailablePortals
  <2>2. /\ ui.selection \subseteq Portals
        /\ ui.selection \cap Plan!Range(ui.form.tunnelIds) = {}
    BY <2>1 DEF PlanInv, PlanPage
  <2>3. /\ picked \subseteq Portals
        /\ picked \cap Plan!Range(ui.form.tunnelIds) = {}
    BY <2>1, <2>2
  <2> HIDE DEF picked
  <2>4. /\ ui' \in PlanPage /\ ui'.form = ui.form /\ ui'.selection = picked
        /\ ui'.importer = ui.importer /\ ui'.target = ui.target
    BY <1>1, <2>1, <2>3 DEF PlanPage
  <2>5. QED  BY <2>1, <2>3, <2>4 DEF PlanInv
<1>7. CASE Plan!ImportPortals
  <2> DEFINE new == Plan!SetToSeq(ui.selection)
             items == [i \in 1 .. Len(new) |-> Plan!PortalItem(new[i])]
             f == [ui.form EXCEPT !.tunnelIds = @ \o new,
                                  !.nodeOrder = @ \o items]
  <2>1. /\ ui.selection \in SUBSET Portals /\ ui.target = 0
        /\ ui.selection \cap Plan!Range(ui.form.tunnelIds) = {}
    BY <1>7 DEF Plan!ImportPortals, Plan!PortalImporter, PlanInv, PlanPage
  <2>2. Ordered(f)
    BY <1>1, <2>1, PortalsImported
  <2>3. /\ ui' = [ui EXCEPT !.importer = "none", !.form = f]
        /\ UNCHANGED <<net, srv>>
    BY <1>1, <1>7 DEF Plan!ImportPortals, PlanPage, PlanSources
  <2> HIDE DEF f
  <2>4. /\ ui' \in PlanPage /\ ui'.form = f /\ ui'.importer = "none"
        /\ ui'.target = 0
    BY <1>1, <1>2, <2>1, <2>2, <2>3 DEF PlanPage, Plan!Importers
  <2>5. QED  BY <2>2, <2>3, <2>4, FormChanged
<1>8. ASSUME NEW draft \in Plan!Lists(Plan!Uris), Plan!ImportUrls(draft)
      PROVE  PlanInv'
  <2> DEFINE items == [i \in 1 .. Len(draft) |-> Plan!UrlItem(draft[i])]
             f == [ui.form EXCEPT !.externalUris = @ \o draft,
                                  !.nodeOrder = @ \o items]
  <2>1. List(draft, Plan!Uris)
    <3>1. Plan!IsInjective(draft)
      BY DEF Plan!Lists
    <3>2. PICK n \in 0 .. Plan!Cardinality(Plan!Uris) :
              draft \in [1 .. n -> Plan!Uris]
      BY DEF Plan!Lists
    <3>3. QED  BY <3>1, <3>2 DEF List
  <2>2. /\ Plan!Range(draft) \cap Plan!Range(ui.form.externalUris) = {}
        /\ ui.target = 0
    BY <1>8 DEF Plan!ImportUrls, Plan!InspectExternalUris, Plan!UrlImporter,
                PlanInv
  <2>3. Ordered(f)
    BY <1>1, <2>1, <2>2, UrlsImported
  <2>4. /\ ui' = [ui EXCEPT !.importer = "none", !.form = f]
        /\ UNCHANGED <<net, srv>>
    BY <1>1, <1>8 DEF Plan!ImportUrls, PlanPage, PlanSources
  <2> HIDE DEF f
  <2>5. /\ ui' \in PlanPage /\ ui'.form = f /\ ui'.importer = "none"
        /\ ui'.target = 0
    BY <1>1, <1>2, <2>2, <2>3, <2>4 DEF PlanPage, Plan!Importers
  <2>6. QED  BY <2>3, <2>4, <2>5, FormChanged
<1>9. ASSUME NEW f, Ordered(f), Plan!FormBody, UNCHANGED <<net, srv>>,
             ui' \in {[ui EXCEPT !.named = n, !.form = f] : n \in SUBSET Portals}
      PROVE  PlanInv'
  <2>1. f \in PlanSources /\ ui.importer = "none" /\ ui.target = 0
    BY <1>2, <1>9 DEF Plan!FormBody
  <2>2. PICK n \in SUBSET Portals :
            ui' = [ui EXCEPT !.named = n, !.form = f]
    BY <1>9
  <2>3. /\ ui' \in PlanPage /\ ui'.form = f /\ ui'.importer = "none"
        /\ ui'.target = 0
    BY <1>1, <2>1, <2>2 DEF PlanPage
  <2>4. QED  BY <1>9, <2>3, FormChanged
<1>10. ASSUME NEW f, Plan!Edits(f)
       PROVE  ui' \in {[ui EXCEPT !.named = n, !.form = f] : n \in SUBSET Portals}
  <2>1. ui' = [ui EXCEPT !.named = ui.named, !.form = f]
    BY <1>1, <1>10 DEF Plan!Edits, PlanPage
  <2>2. ui.named \in SUBSET Portals
    BY <1>1 DEF PlanPage
  <2>3. QED  BY <2>1, <2>2
<1>11. ASSUME NEW i \in 1 .. Len(ui.form.nodeOrder),
              Plan!RemovePortal(i)
       PROVE  PlanInv'
  <2> DEFINE p == ui.form.nodeOrder[i].of[1]
             f == [ui.form EXCEPT !.tunnelIds = Plan!Without(@, p),
                      !.nodeOrder = Plan!Without(@, Plan!PortalItem(p))]
  <2>1. Ordered(f)
    BY <1>1, PortalRemoved
  <2>2. ui' = [ui EXCEPT !.named = ui.named \ {p}, !.form = f]
    BY <1>1, <1>11 DEF Plan!RemovePortal, PlanPage, PlanSources
  <2>3. ui.named \ {p} \in SUBSET Portals
    BY <1>1 DEF PlanPage
  <2>4. Plan!FormBody /\ UNCHANGED <<net, srv>>
    BY <1>11 DEF Plan!RemovePortal
  <2> HIDE DEF p, f
  <2>5. QED  BY <1>9, <2>1, <2>2, <2>3, <2>4
<1>12. ASSUME NEW i \in 1 .. Len(ui.form.nodeOrder), Plan!RemoveExternal(i)
       PROVE  PlanInv'
  <2> DEFINE f == [ui.form EXCEPT
                      !.externalUris = Plan!RemoveAt(@, i),
                      !.nodeOrder = Plan!Without(@,
                          Plan!UrlItem(ui.form.externalUris[i]))]
  <2>1. /\ i \in 1 .. Len(ui.form.externalUris) /\ Plan!FormBody
        /\ Plan!Edits(f) /\ UNCHANGED <<net, srv>>
    BY <1>12 DEF Plan!RemoveExternal
  <2>2. Ordered(f)
    BY <1>1, <2>1, UrlRemoved
  <2> HIDE DEF f
  <2>3. QED  BY <1>9, <1>10, <2>1, <2>2
<1>13. ASSUME NEW i \in 1 .. Len(ui.form.nodeOrder),
              NEW j \in 1 .. Len(ui.form.nodeOrder), Plan!HandleDragEnd(i, j)
       PROVE  PlanInv'
  <2> DEFINE f == [ui.form EXCEPT !.nodeOrder =
                      Plan!InsertAt(Plan!RemoveAt(@, i), j, @[i])]
  <2>1. Plan!FormBody /\ Plan!Edits(f) /\ UNCHANGED <<net, srv>>
    BY <1>13 DEF Plan!HandleDragEnd
  <2>2. Ordered(f)
    BY <1>1, RowMoved
  <2> HIDE DEF f
  <2>3. QED  BY <1>9, <1>10, <2>1, <2>2
<1>14. ASSUME NEW i \in 1 .. Len(ui.form.nodeOrder), Plan!OpenNameEditor(i)
       PROVE  PlanInv'
  <2>1. /\ ui' = [ui EXCEPT !.target = i] /\ ui.importer = "none"
        /\ UNCHANGED <<net, srv>> /\ i \in Nat
        /\ i \in 0 .. Len(ui.form.nodeOrder)
    BY <1>2, <1>14, ListFacts DEF Plan!OpenNameEditor, Plan!FormBody
  <2>2. /\ ui' \in PlanPage /\ ui'.form = ui.form /\ ui'.importer = "none"
        /\ ui'.target = i
    BY <1>1, <2>1 DEF PlanPage
  <2>3. QED  BY <2>1, <2>2 DEF PlanInv
<1>15. ASSUME Plan!NameEditor
       PROVE  /\ ui.target \in 1 .. Len(ui.form.nodeOrder)
              /\ Plan!Target \in Plan!Items /\ ui.importer = "none"
              /\ Plan!Target \in Plan!Range(ui.form.nodeOrder)
  <2>1. ui.target \in 1 .. Len(ui.form.nodeOrder) /\ ui.importer = "none"
    BY <1>2, <1>15, ListFacts DEF Plan!NameEditor, PlanInv
  <2>2. QED  BY <1>2, <2>1, ListFacts DEF Plan!Target
<1>16. CASE Plan!SavePortalName
  <2>1. Plan!Target.of[1] \in Portals
    BY <1>15, <1>16, ItemFacts DEF Plan!SavePortalName
  <2>2. PICK n \in {ui.named \cup {Plan!Target.of[1]},
                    ui.named \ {Plan!Target.of[1]}} :
            ui' = [ui EXCEPT !.target = 0, !.named = n]
    BY <1>16 DEF Plan!SavePortalName
  <2>3. n \in SUBSET Portals
    BY <1>1, <2>1 DEF PlanPage
  <2>4. /\ ui' \in PlanPage /\ ui'.form = ui.form /\ ui'.target = 0
        /\ ui'.importer = ui.importer
    BY <1>1, <2>2, <2>3 DEF PlanPage
  <2>5. Ordered(ui.form)'
    BY <1>1, <2>4
  <2>6. QED
    BY <1>15, <1>16, <2>4, <2>5, FormChanged DEF Plan!SavePortalName
<1>17. ASSUME NEW name \in Names, Plan!SaveUrlName(name) PROVE PlanInv'
  <2> DEFINE u == Plan!Target.of
             v == <<u[1], name>>
             f == [ui.form EXCEPT
                      !.externalUris = Plan!Renamed(@, u, v),
                      !.nodeOrder = Plan!Renamed(@, Plan!UrlItem(u),
                                                 Plan!UrlItem(v))]
  <2>1. Plan!NameEditor /\ Plan!Target.source = "url"
    BY <1>17 DEF Plan!SaveUrlName
  <2>2. /\ u \in Plan!Uris /\ Plan!Target = Url(u)
        /\ Plan!Target \in Plan!Range(ui.form.nodeOrder)
    BY <1>15, <2>1, ItemFacts
  <2>3. u \in Plan!Range(ui.form.externalUris)
    BY <1>1, <2>2, ItemFacts DEF Ordered, OfPortals, OfUrls
  <2>4. v \in Plan!Uris
    BY <2>2 DEF Plan!Uris
  <2>5. /\ v \notin Plan!Range(ui.form.externalUris) \ {u}
        /\ ui' = [ui EXCEPT !.target = 0, !.form = f]
        /\ UNCHANGED <<net, srv>>
    BY <1>17 DEF Plan!SaveUrlName, Plan!RenameUri
  <2> HIDE DEF u, v
  <2>6. Ordered(f)
    BY <1>1, <2>3, <2>4, <2>5, UrlRenamed
  <2> HIDE DEF f
  <2>7. /\ ui' \in PlanPage /\ ui'.form = f /\ ui'.target = 0
        /\ ui'.importer = ui.importer
    BY <1>1, <1>2, <2>5, <2>6 DEF PlanPage
  <2>8. QED  BY <1>15, <2>1, <2>5, <2>6, <2>7, FormChanged
<1>18. CASE Plan!Submit \/ Plan!SaveSubscription
  <2>1. /\ ui' \in PlanPage /\ ui'.form = ui.form
        /\ ui'.importer = ui.importer /\ ui'.selection = ui.selection
        /\ ui'.target = ui.target /\ srv' = srv
        /\ net' \in {net, {ui.form}}
    BY <1>1, <1>18
       DEF Plan!Submit, Plan!SaveSubscription, Plan!Saves, PlanPage
  <2>2. ui'.importer # "none" => ui'.target = 0
    BY <2>1 DEF PlanInv
  <2>3. QED  BY <1>1, <2>1, <2>2, PlanStays
<1>19. CASE Plan!SaveFails
  <2>1. /\ ui' \in PlanPage /\ ui'.form = ui.form
        /\ ui'.importer = ui.importer /\ ui'.selection = ui.selection
        /\ ui'.target = ui.target /\ srv' = srv /\ net' = {}
    BY <1>1, <1>19 DEF Plan!SaveFails, PlanPage
  <2>2. ui'.importer # "none" => ui'.target = 0
    BY <2>1 DEF PlanInv
  <2>3. QED  BY <1>1, <2>1, <2>2, PlanStays
<1>20. ASSUME NEW s \in net, Plan!SaveReturns(s) PROVE PlanInv'
  <2>1. Ordered(s) /\ s \in PlanSources /\ srv.portals \in SUBSET Portals
    BY <1>1, <1>2
  <2>2. /\ srv' = [srv EXCEPT !.sub = s] /\ net' = {}
        /\ ui' = [ui EXCEPT !.submitting = FALSE, !.confirming = FALSE,
                            !.open = FALSE, !.portals = srv.portals]
    BY <1>20 DEF Plan!SaveReturns
  <2>3. /\ srv' \in [sub : PlanSources, portals : SUBSET Portals]
        /\ srv'.sub = s
    BY <1>1, <2>1, <2>2
  <2>4. /\ ui' \in PlanPage /\ ui'.form = ui.form
        /\ ui'.importer = ui.importer /\ ui'.selection = ui.selection
        /\ ui'.target = ui.target
    BY <1>1, <2>1, <2>2 DEF PlanPage
  <2>5. QED  BY <2>1, <2>2, <2>3, <2>4 DEF PlanInv
<1>21. ASSUME NEW p \in Portals, Plan!DeletePortal(p) PROVE PlanInv'
  <2> DEFINE s == [srv.sub EXCEPT !.tunnelIds = Plan!Without(@, p),
                      !.nodeOrder = Plan!Without(@, Plan!PortalItem(p))]
  <2>1. /\ srv' = [portals |-> srv.portals \ {p}, sub |-> s]
        /\ UNCHANGED <<ui, net>>
    BY <1>21 DEF Plan!DeletePortal
  <2>2. Ordered(s)
    BY <1>1, PortalRemoved
  <2> HIDE DEF s
  <2>3. /\ srv' \in [sub : PlanSources, portals : SUBSET Portals]
        /\ srv'.sub = s
    BY <1>1, <1>2, <2>1, <2>2
  <2>4. QED  BY <2>1, <2>2, <2>3 DEF PlanInv
<1>22. QED
  BY <1>3, <1>4, <1>5, <1>6, <1>7, <1>8, <1>11, <1>12, <1>13, <1>14, <1>16,
     <1>17, <1>18, <1>19, <1>20, <1>21 DEF Plan!Next

-----------------------------------------------------------------------------
(* WebApp: the types of the pages.  For most of them they are part of their *)
(* invariant.  The lists of the imports and of the subscription form are no *)
(* longer than there is something to put in, because nothing is in them     *)
(* twice.                                                                   *)

LEMMA ListBounded ==
    ASSUME NEW S, IsFiniteSet(S), NEW s, List(s, S)
    PROVE  /\ Cardinality(S) \in Nat
           /\ \E n \in 0 .. Cardinality(S) : s \in [1 .. n -> S]
<1>1. /\ Len(s) \in Nat /\ s \in [1 .. Len(s) -> S]
      /\ \A i, j \in 1 .. Len(s) : s[i] = s[j] => i = j
  BY ListFacts, LenProperties
<1>2. s \in Injection(1 .. Len(s), S)
  BY <1>1 DEF Injection, IsInjective
<1>3. Cardinality(1 .. Len(s)) <= Cardinality(S)
  BY <1>2, FS_Injection
<1>4. Cardinality(1 .. Len(s)) = Len(s)
  BY <1>1, FS_Interval
<1>5. Cardinality(S) \in Nat
  BY FS_CardinalityType
<1>6. Len(s) \in 0 .. Cardinality(S)
  BY <1>1, <1>3, <1>4, <1>5
<1>7. QED  BY <1>1, <1>5, <1>6

LEMMA ResultsAreLists ==
    /\ \A s : List(s, Addrs) => s \in Import!Results
    /\ \A s \in Import!Results :
          List(s, Addrs) /\ Import!Range(s) \in SUBSET Addrs
<1>1. /\ IsFiniteSet(Addrs)
      /\ Import!Cardinality(Addrs) = Cardinality(Addrs)
  <2>1. IsFiniteSet(Addrs)
    BY PagesAssumption
       DEF Import!ImportAssumption, Import!IsFiniteSet, IsFiniteSet
  <2>2. Import!Cardinality(Addrs) = Cardinality(Addrs)
    BY Zenon DEF Import!Cardinality, Cardinality
  <2>3. QED  BY <2>1, <2>2
<1>2. \A s : Import!IsInjective(s) <=> Plan!IsInjective(s)
  BY DEF Import!IsInjective, Plan!IsInjective
<1>3. ASSUME NEW s, List(s, Addrs) PROVE s \in Import!Results
  <2>1. PICK n \in 0 .. Cardinality(Addrs) : s \in [1 .. n -> Addrs]
    BY <1>1, <1>3, ListBounded
  <2>2. Import!IsInjective(s)
    BY <1>2, <1>3 DEF List
  <2>3. QED  BY <1>1, <2>1, <2>2 DEF Import!Results
<1>4. ASSUME NEW s \in Import!Results
      PROVE  List(s, Addrs) /\ Import!Range(s) \in SUBSET Addrs
  <2>1. Cardinality(Addrs) \in Nat
    BY <1>1, FS_CardinalityType
  <2>2. PICK n \in 0 .. Cardinality(Addrs) : s \in [1 .. n -> Addrs]
    BY <1>1 DEF Import!Results
  <2>3. s \in Seq(Addrs)
    BY <2>1, <2>2
  <2>4. List(s, Addrs)
    BY <1>2, <2>3 DEF List, Import!Results
  <2>5. QED  BY <2>2, <2>4 DEF Import!Range
<1>5. QED  BY <1>3, <1>4

LEMMA NoResults == << >> \in Import!Results
BY ListEmpty, ResultsAreLists

\* The results that are shown are those of a file.
ImportTyped ==
    /\ ImportInv /\ Import!TypeOK
    /\ ui.modal = "results" => ui.of \in Files

LEMMA ImportTypedInit == Import!Init => ImportTyped
<1> SUFFICES ASSUME Import!Init PROVE ImportTyped
  OBVIOUS
<1>1. Import!TypeOK
  BY NoResults DEF Import!Init, Import!Empty, Import!Nothing,
                   Import!TypeOK, Import!Page, Import!Keys
<1>2. QED  BY <1>1, ImportInit DEF ImportTyped, Import!Init, Import!Empty

LEMMA ImportTypedNext == ImportTyped /\ Import!Next => ImportTyped'
<1> SUFFICES ASSUME ImportTyped, Import!Next
             PROVE  Import!TypeOK' /\ (ui'.modal = "results" => ui'.of \in Files)
  BY ImportNext DEF ImportTyped
<1>1. /\ ui \in Import!Page /\ net \subseteq Import!Request
      /\ srv \in [has : Import!Keys, sent : Import!Keys, seen : Import!Keys]
      /\ ui.modal = "results" => ui.of = ui.data /\ ui.of \in Files
  BY DEF ImportTyped, Import!TypeOK, ImportInv
<1>2. << >> \in Import!Results
  BY NoResults
<1>3. /\ ui.results \in Import!Results /\ ui.selected \in Files \cup {None}
      /\ ui.data \in Files \cup {None}
  BY <1>1 DEF Import!Page
<1> USE DEF Import!TypeOK
<1>4. CASE Import!Open \/ Import!Close \/ Import!ExportData
  BY <1>1, <1>4 DEF Import!Open, Import!Close, Import!ExportData,
                    Import!vars, Import!Page
<1>5. CASE Import!HandleImportData
  <2>1. ui.selected \in Files
    BY <1>3, <1>5 DEF Import!HandleImportData, Import!MayCheck
  <2>2. net' \subseteq Import!Request
    BY <1>1, <1>5, <2>1 DEF Import!HandleImportData, Import!Request
  <2>3. QED
    BY <1>1, <1>3, <1>5, <2>2
       DEF Import!HandleImportData, Import!ImportModal, Import!Page
<1>6. CASE Import!HandleConfirmImport
  <2>1. /\ ui.data \in Files /\ ui.of \in Files
        /\ Import!Range(ui.results) \in SUBSET Addrs
    BY <1>1, <1>3, <1>6, ResultsAreLists
       DEF Import!HandleConfirmImport, Import!ResultsModal
  <2>2. net' \subseteq Import!Request
    BY <1>1, <1>6, <2>1 DEF Import!HandleConfirmImport, Import!Request
  <2>3. srv' \in [has : Import!Keys, sent : Import!Keys, seen : Import!Keys]
    BY <1>1, <1>6, <2>1 DEF Import!HandleConfirmImport, Import!Keys
  <2>4. ui' = [ui EXCEPT !.busy = TRUE]
    BY <1>6 DEF Import!HandleConfirmImport
  <2>5. QED  BY <1>1, <2>1, <2>2, <2>3, <2>4 DEF Import!Page
<1>7. CASE Import!Reload
  BY <1>1, <1>2, <1>7 DEF Import!Reload, Import!Empty, Import!Page
<1>8. ASSUME NEW f \in Files, Import!HandleFileSelect(f)
      PROVE  Import!TypeOK' /\ (ui'.modal = "results" => ui'.of \in Files)
  BY <1>1, <1>8 DEF Import!HandleFileSelect, Import!ImportModal, Import!Page
<1>9. ASSUME NEW r \in net, Import!ValidateReturns(r)
      PROVE  Import!TypeOK' /\ (ui'.modal = "results" => ui'.of \in Files)
  <2>1. net' \subseteq Import!Request /\ srv' = srv /\ r.file \in Files
    BY <1>1, <1>9 DEF Import!ValidateReturns, Import!Request
  <2>2. CASE ui' = [ui EXCEPT !.busy = FALSE]
    BY <1>1, <2>1, <2>2 DEF Import!Page
  <2>3. ASSUME NEW s \in Import!Results,
               ui' = [ui EXCEPT !.busy = FALSE, !.modal = "results",
                                !.results = s, !.of = r.file]
        PROVE  ui' \in Import!Page /\ ui'.of \in Files
    BY <1>1, <2>1, <2>3 DEF Import!Page
  <2>4. QED
    BY <1>1, <1>9, <2>1, <2>2, <2>3 DEF Import!ValidateReturns
<1>10. ASSUME NEW r \in net, Import!ImportReturns(r)
       PROVE  Import!TypeOK' /\ (ui'.modal = "results" => ui'.of \in Files)
  <2>1. net' \subseteq Import!Request /\ r.file \in Files
    BY <1>1, <1>10 DEF Import!ImportReturns, Import!Request
  <2>2. CASE ui' = [ui EXCEPT !.busy = FALSE] /\ UNCHANGED srv
    BY <1>1, <2>1, <2>2 DEF Import!Page
  <2>3. CASE /\ srv' = [srv EXCEPT !.has = [a \in Addrs |->
                           IF a \in r.addrs /\ @[a] = None THEN r.file
                           ELSE @[a]]]
             /\ ui' = [Import!Empty EXCEPT
                          !.modal = IF ui.modal = "results" THEN "none"
                                    ELSE ui.modal,
                          !.reloading = TRUE]
    <3>1. srv' \in [has : Import!Keys, sent : Import!Keys, seen : Import!Keys]
      BY <1>1, <2>1, <2>3 DEF Import!Keys
    <3>2. (IF ui.modal = "results" THEN "none" ELSE ui.modal)
             \in {"none", "import"}
      BY <1>1 DEF Import!Page
    <3>3. ui' \in Import!Page /\ ui'.modal # "results"
      BY <1>2, <2>3, <3>2 DEF Import!Empty, Import!Page
    <3>4. QED  BY <2>1, <3>1, <3>3
  <2>4. QED  BY <1>10, <2>2, <2>3 DEF Import!ImportReturns
<1>11. ASSUME NEW i \in 1 .. Len(ui.results), NEW j \in 1 .. Len(ui.results),
              Import!HandleDragEnd(i, j)
       PROVE  Import!TypeOK' /\ (ui'.modal = "results" => ui'.of \in Files)
  <2> DEFINE t == Plan!InsertAt(Plan!RemoveAt(ui.results, i), j,
                                ui.results[i])
  <2>1. List(t, Addrs)
    BY <1>3, ListMoved, ResultsAreLists
  <2>2. t \in Import!Results
    BY <2>1, ResultsAreLists
  <2>3. ui' = [ui EXCEPT !.results = t] /\ UNCHANGED <<net, srv>>
    BY <1>11 DEF Import!HandleDragEnd, Plan!InsertAt, Plan!RemoveAt
  <2> HIDE DEF t
  <2>4. QED  BY <1>1, <2>2, <2>3 DEF Import!Page
<1>12. QED
  BY <1>4, <1>5, <1>6, <1>7, <1>8, <1>9, <1>10, <1>11 DEF Import!Next

LEMMA OrderedIsSources ==
    ASSUME NEW s, Ordered(s)
    PROVE  s \in Plan!Sources
<1>1. IsFiniteSet(Portals) /\ IsFiniteSet(Plan!Uris)
  <2>1. IsFiniteSet(Portals) /\ IsFiniteSet(UrlHosts) /\ IsFiniteSet(Names)
    BY PagesAssumption DEF Plan!FormAssumption, Plan!IsFiniteSet, IsFiniteSet
  <2>2. QED  BY <2>1, FS_Product DEF Plan!Uris
<1>2. ASSUME NEW S, IsFiniteSet(S), NEW l, List(l, S)
      PROVE  l \in Plan!Lists(S)
  <2>1. Plan!Cardinality(S) = Cardinality(S)
    BY Zenon DEF Plan!Cardinality, Cardinality
  <2>2. \E n \in 0 .. Cardinality(S) : l \in [1 .. n -> S]
    BY <1>2, ListBounded
  <2>3. QED  BY <1>2, <2>1, <2>2 DEF Plan!Lists, List
<1>3. /\ s.tunnelIds \in Plan!Lists(Portals)
      /\ s.externalUris \in Plan!Lists(Plan!Uris)
  BY <1>1, <1>2 DEF Ordered
<1>4. QED  BY <1>3 DEF Ordered, PlanSources, Plan!Sources

LEMMA PlanTyped == PlanInv => Plan!TypeOK
<1> SUFFICES ASSUME PlanInv PROVE Plan!TypeOK
  OBVIOUS
<1>1. ui.form \in Plan!Sources /\ srv.sub \in Plan!Sources
  BY OrderedIsSources DEF PlanInv
<1>2. ui \in Plan!Page
  BY <1>1 DEF PlanInv, PlanPage, Plan!Page
<1>3. srv \in [sub : Plan!Sources, portals : SUBSET Portals]
  BY <1>1 DEF PlanInv
<1>4. net \subseteq Plan!Sources
  BY OrderedIsSources DEF PlanInv
<1>5. QED  BY <1>2, <1>3, <1>4 DEF Plan!TypeOK

-----------------------------------------------------------------------------
(* WebApp: the page that is shown keeps its invariant.                      *)

FormsInv ==
    /\ Shows("add") => AddInv
    /\ Shows("import") => ImportInv
    /\ Shows("data") => DataInv
    /\ Shows("form") => FormInv
    /\ Shows("tags") => TagsInv
    /\ Shows("icon") => IconInv
    /\ Shows("plan") => PlanInv
    /\ Shows("plans") => PlansInv

LEMMA FormsInit == AppInit => FormsInv
BY AddInit, ImportInit, DataInit, FormInit, TagsInit, IconInit, PlanInit,
   PlansInit DEF AppInit, FormsInv, Shows

LEMMA FormsStay == FormsInv /\ UNCHANGED appVars => FormsInv'
<1> SUFFICES ASSUME FormsInv, UNCHANGED <<page, ui, net, srv>>
             PROVE  FormsInv'
  BY DEF appVars
<1>1. AddInv => AddInv'
  BY DEF AddInv, NodeAdd!TypeOK, NodeAdd!IpIsOwnOrTyped,
         NodeAdd!CommandFitsToken
<1>2. ImportInv => ImportInv'
  BY DEF ImportInv, ImportPage, KeyStore
<1>3. DataInv => DataInv'
  BY DEF DataInv, Data!PicksAreShown
<1>4. FormInv => FormInv'
  BY DEF FormInv, Form!TypeOK, LoadsFit, OwnForm, Form!SavesWhatItOpened,
         Form!SavesWhatCanRun
<1>5. TagsInv => TagsInv'
  BY DEF TagsInv, Tags!TypeOK, Tags!TabsAgree
<1>6. IconInv => IconInv'
  BY DEF IconInv
<1>7. PlanInv => PlanInv'
  BY DEF PlanInv
<1>8. PlansInv => PlansInv'
  BY DEF PlansInv
<1>9. QED
  BY <1>1, <1>2, <1>3, <1>4, <1>5, <1>6, <1>7, <1>8 DEF FormsInv, Shows

LEMMA FormsNext == FormsInv /\ [AppNext]_appVars => FormsInv'
<1> SUFFICES ASSUME FormsInv, AppNext PROVE FormsInv'
  BY FormsStay
<1>1. page' = page
  BY DEF AppNext
<1>2. QED
  BY <1>1, AddNext, ImportNext, DataNext, FormNext, TagsNext, IconNext,
     PlanNext, PlansNext DEF AppNext, FormsInv, Shows

LEMMA FormsKeepTheirWord == FormsInv => FormsSendWhatTheyShow
<1>1. AddInv => NodeAdd!IpIsOwnOrTyped /\ NodeAdd!CommandFitsToken
  BY DEF AddInv
<1>2. ImportInv => Import!SentAsConfirmed
  BY DEF ImportInv, KeyStore, Import!SentAsConfirmed
<1>3. DataInv => Data!PicksAreShown
  BY DEF DataInv
<1>4. FormInv => Form!SavesWhatItOpened /\ Form!SavesWhatCanRun
  BY DEF FormInv
<1>5. TagsInv => Tags!TabsAgree
  BY DEF TagsInv
<1>6. IconInv => Icon!InsideImage
  BY WithinIsInside DEF IconInv, Icon!InsideImage
<1>7. PlanInv => Plan!OrderIsComplete
  BY OrderedIsValid DEF PlanInv, Plan!OrderIsComplete
<1>8. PlansInv => PlanList!NothingToSaveIsSaved
  BY PlansSaved
<1>9. QED
  BY <1>1, <1>2, <1>3, <1>4, <1>5, <1>6, <1>7, <1>8
     DEF FormsInv, FormsSendWhatTheyShow

\* For every set of nodes, files, tunnels, tags, images, URLs and preferences,
\* and every order of edits, tabs, modals and answers: a form shows what it
\* holds, and what it sends is what was seen and what the server can take (the
\* IP that is shown is the token's own or was typed, an import has the key of
\* the file that was confirmed, picks are in the list that is shown, a tunnel
\* is saved as what was opened and can run, both forms of the tags are one, an
\* icon lies within its image, an order lists each source once, and nothing is
\* called saved that is not, by an answer that no other save overlapped and
\* none has failed since).
THEOREM FormsAreHonest == AppSpec => []FormsSendWhatTheyShow
<1>1. QED  BY FormsInit, FormsNext, FormsKeepTheirWord, PTL DEF AppSpec

-----------------------------------------------------------------------------
(* WebTunnelActions: rows are busy for actions that are awaited. *)

ActionsInv == Actions!TypeOK /\ Actions!BusyEnds

LEMMA ActionsInit == Actions!Init => ActionsInv
BY DEF Actions!Init, ActionsInv, Actions!TypeOK, Actions!Page, Actions!BusyEnds

\* The actions' rows, when an action comes, goes on or goes.
LEMMA ActionAdded ==
    ASSUME NEW ops, NEW op
    PROVE  UNION {o.ids : o \in ops \cup {op}}
             = (UNION {o.ids : o \in ops}) \cup op.ids
OBVIOUS

LEMMA ActionGone ==
    ASSUME NEW ops, NEW op \in ops, NEW busy,
           busy \subseteq UNION {o.ids : o \in ops}
    PROVE  busy \ op.ids \subseteq UNION {o.ids : o \in ops \ {op}}
OBVIOUS

LEMMA ActionBegun ==
    ASSUME ActionsInv, NEW ids \in SUBSET Rows, NEW a \in Actions!PortalAction,
           Actions!Begins(ids, a)
    PROVE  ActionsInv'
<1> DEFINE op == [ids |-> ids, left |-> ids, action |-> a, list |-> {}]
<1>1. op \in Actions!Op /\ op.ids = ids
  BY DEF Actions!Op
<1>2. /\ net' = net \cup {op} /\ ui' = [ui EXCEPT !.busy = @ \cup ids]
      /\ srv' = srv
  BY DEF Actions!Begins
<1> HIDE DEF op
<1>3. ui' \in Actions!Page /\ ui'.busy = ui.busy \cup ids
  BY <1>2 DEF ActionsInv, Actions!TypeOK, Actions!Page
<1>4. Actions!TypeOK'
  BY <1>1, <1>2, <1>3 DEF ActionsInv, Actions!TypeOK
<1>5. UNION {o.ids : o \in net'} = (UNION {o.ids : o \in net}) \cup ids
  BY <1>1, <1>2, ActionAdded
<1>6. QED  BY <1>3, <1>4, <1>5 DEF ActionsInv, Actions!BusyEnds

LEMMA ActionsNext == ActionsInv /\ Actions!Next => ActionsInv'
<1> SUFFICES ASSUME ActionsInv, Actions!Next PROVE ActionsInv'
  OBVIOUS
<1>1. /\ ui \in Actions!Page /\ net \subseteq Actions!Op /\ srv \subseteq Rows
      /\ ui.busy \subseteq UNION {op.ids : op \in net}
  BY DEF ActionsInv, Actions!TypeOK, Actions!BusyEnds
<1>2. ASSUME UNCHANGED <<net, srv>>, ui' \in Actions!Page, ui'.busy = ui.busy
      PROVE  ActionsInv'
  BY <1>1, <1>2 DEF ActionsInv, Actions!TypeOK, Actions!BusyEnds
<1>3. CASE Actions!Poll
  BY <1>1, <1>2, <1>3 DEF Actions!Poll, Actions!Page
<1>4. ASSUME NEW rows \in SUBSET Rows, Actions!Select(rows) PROVE ActionsInv'
  BY <1>1, <1>2, <1>4 DEF Actions!Select, Actions!Page
<1>5. ASSUME NEW r \in Rows, NEW a \in Actions!PortalAction,
             Actions!RunAction(r, a)
      PROVE  ActionsInv'
  BY <1>5, ActionBegun DEF Actions!RunAction
<1>6. ASSUME NEW a \in Actions!PortalAction, Actions!RunBatchAction(a)
      PROVE  ActionsInv'
  <2>1. ui.picked \subseteq Rows
    BY <1>1 DEF Actions!Page
  <2>2. QED  BY <1>6, <2>1, ActionBegun DEF Actions!RunBatchAction
<1>7. ASSUME NEW op \in net, NEW u \in Actions!Page, u.busy = ui.busy,
             ui' = Actions!Unmark(op, u), net' = net \ {op}, srv' \subseteq Rows
      PROVE  ActionsInv'
  <2>1. ui' \in Actions!Page /\ ui'.busy = ui.busy \ op.ids
    BY <1>7 DEF Actions!Unmark, Actions!Page
  <2>2. ui'.busy \subseteq UNION {o.ids : o \in net'}
    BY <1>1, <1>7, <2>1, ActionGone
  <2>3. QED
    BY <1>1, <1>7, <2>1, <2>2 DEF ActionsInv, Actions!TypeOK, Actions!BusyEnds
<1>8. ASSUME NEW op \in net, Actions!ActionFails(op) PROVE ActionsInv'
  <2>1. op.left \subseteq Rows
    BY <1>1 DEF Actions!Op
  <2>2. srv' \subseteq Rows
    BY <1>1, <1>8, <2>1 DEF Actions!ActionFails
  <2>3. QED  BY <1>1, <1>7, <1>8, <2>2 DEF Actions!ActionFails
<1>9. ASSUME NEW op \in net, Actions!ActionEnds(op) PROVE ActionsInv'
  <2>1. PICK list \in op.list :
            ui' = Actions!Unmark(op, [ui EXCEPT !.running = list])
    BY <1>9 DEF Actions!ActionEnds
  <2>2. list \subseteq Rows
    BY <1>1, <2>1 DEF Actions!Op
  <2>3. /\ [ui EXCEPT !.running = list] \in Actions!Page
        /\ [ui EXCEPT !.running = list].busy = ui.busy
    BY <1>1, <2>2 DEF Actions!Page
  <2>4. QED  BY <1>1, <1>7, <1>9, <2>1, <2>3 DEF Actions!ActionEnds
<1>10. ASSUME NEW op \in net, NEW r \in op.left, Actions!ActionReturns(op, r)
       PROVE  ActionsInv'
  <2> DEFINE list == IF op.left = {r} THEN {srv'} ELSE {}
             new == [op EXCEPT !.left = @ \ {r}, !.list = list]
  <2>1. op \in Actions!Op /\ r \in Rows
    BY <1>1, <1>10 DEF Actions!Op
  <2>2. srv' \subseteq Rows
    BY <1>1, <1>10, <2>1 DEF Actions!ActionReturns
  <2>3. list \in SUBSET SUBSET Rows
    BY <2>2
  <2> HIDE DEF list
  <2>4. new \in Actions!Op /\ new.ids = op.ids
    BY <2>1, <2>3 DEF Actions!Op
  <2>5. net' = (net \ {op}) \cup {new} /\ UNCHANGED ui
    BY <1>10 DEF Actions!ActionReturns, list
  <2> HIDE DEF new
  <2>6. UNION {o.ids : o \in net'}
          = (UNION {o.ids : o \in net \ {op}}) \cup op.ids
    BY <2>4, <2>5, ActionAdded
  <2>7. ui.busy \ op.ids \subseteq UNION {o.ids : o \in net \ {op}}
    BY <1>1, ActionGone
  <2>8. ui'.busy \subseteq UNION {o.ids : o \in net'}
    BY <2>5, <2>6, <2>7
  <2>9. QED
    BY <1>1, <2>2, <2>4, <2>5, <2>8
       DEF ActionsInv, Actions!TypeOK, Actions!BusyEnds
<1>11. QED
  BY <1>3, <1>4, <1>5, <1>6, <1>8, <1>9, <1>10 DEF Actions!Next

-----------------------------------------------------------------------------
(* WebSseDebug: the source that is not closed is the one at ref. *)

DebugInv == Debug!TypeOK /\ Debug!HoldsItsSource

LEMMA DebugInit == Debug!Init => DebugInv
<1>1. 0 \in 0 .. MaxSources /\ 0 \in 0 .. MaxLogs
  BY PagesAssumption DEF Debug!DebugAssumption
<1>2. QED
  BY <1>1 DEF Debug!Init, DebugInv, Debug!TypeOK, Debug!Page,
              Debug!HoldsItsSource

LEMMA DebugNext == DebugInv /\ Debug!Next => DebugInv'
<1> SUFFICES ASSUME DebugInv, Debug!Next PROVE DebugInv'
  OBVIOUS
<1>1. /\ ui \in Debug!Page /\ net \subseteq Debug!Source
      /\ srv \in 0 .. MaxSources
      /\ MaxSources \in Nat /\ MaxLogs \in Nat
      /\ 0 \in 0 .. MaxSources /\ 0 \in 0 .. MaxLogs
      /\ \A s \in net : /\ s.n \in 1 .. MaxSources
                        /\ ui.here /\ s.n = ui.ref /\ s.n = ui.listening
  BY PagesAssumption
     DEF DebugInv, Debug!TypeOK, Debug!HoldsItsSource, Debug!Source,
         Debug!DebugAssumption
<1>2. Debug!Cleanup(net) = {}
  BY <1>1 DEF Debug!Cleanup
<1>3. /\ Debug!Disconnected(ui) \in Debug!Page
      /\ [Debug!Disconnected(ui) EXCEPT !.here = FALSE] \in Debug!Page
      /\ [Debug!Disconnected(ui) EXCEPT !.error = TRUE] \in Debug!Page
  <2>1. Debug!Disconnected(ui) \in Debug!Page
    BY <1>1 DEF Debug!Disconnected, Debug!Page
  <2>2. QED  BY <2>1 DEF Debug!Page
<1>4. ASSUME net' = {}, ui' \in Debug!Page, srv' = srv PROVE DebugInv'
  BY <1>1, <1>4 DEF DebugInv, Debug!TypeOK, Debug!HoldsItsSource
<1>5. ASSUME ui' \in Debug!Page, ui'.here = ui.here, ui'.ref = ui.ref,
             ui'.listening = ui.listening, UNCHANGED <<net, srv>>
      PROVE  DebugInv'
  BY <1>1, <1>5 DEF DebugInv, Debug!TypeOK, Debug!HoldsItsSource
<1>6. CASE Debug!DetailReturns
  BY <1>1, <1>5, <1>6 DEF Debug!DetailReturns, Debug!Page
<1>7. CASE Debug!ClearLogs
  BY <1>1, <1>5, <1>7 DEF Debug!ClearLogs, Debug!Page
<1>8. CASE Debug!Disconnect \/ Debug!Unmount
  BY <1>2, <1>3, <1>4, <1>8 DEF Debug!Disconnect, Debug!Unmount
<1>9. ASSUME Debug!Opening({}), ui.here PROVE DebugInv'
  <2> DEFINE new == [n |-> srv + 1, open |-> FALSE]
  <2>1. /\ srv' = srv + 1 /\ srv' \in 0 .. MaxSources /\ net' = {new}
        /\ ui' = [ui EXCEPT !.ref = srv', !.listening = srv',
                            !.connecting = TRUE, !.error = FALSE]
    BY <1>1, <1>9 DEF Debug!Opening
  <2>2. new \in Debug!Source /\ new.n = srv'
    BY <1>1, <2>1 DEF Debug!Source
  <2>3. /\ ui' \in Debug!Page /\ ui'.ref = srv' /\ ui'.listening = srv'
        /\ ui'.here
    BY <1>1, <1>9, <2>1 DEF Debug!Page
  <2> HIDE DEF new
  <2>4. QED
    BY <2>1, <2>2, <2>3 DEF DebugInv, Debug!TypeOK, Debug!HoldsItsSource
<1>10. CASE Debug!ConnectManually
  <2>1. net = {}
    BY <1>1, <1>10 DEF Debug!ConnectManually
  <2>2. QED  BY <1>9, <1>10, <2>1 DEF Debug!ConnectManually
<1>11. CASE Debug!Reconnect
  BY <1>2, <1>9, <1>11 DEF Debug!Reconnect
<1>12. ASSUME NEW s \in net, Debug!Opens(s) PROVE DebugInv'
  <2>1. s \in Debug!Source
    BY <1>1
  <2>2. /\ [s EXCEPT !.open = TRUE] \in Debug!Source
        /\ [s EXCEPT !.open = TRUE].n = s.n
    BY <2>1 DEF Debug!Source
  <2>3. /\ net' = (net \ {s}) \cup {[s EXCEPT !.open = TRUE]}
        /\ ui' = [ui EXCEPT !.connected = TRUE, !.connecting = FALSE,
                            !.error = FALSE]
        /\ srv' = srv
    BY <1>12 DEF Debug!Opens
  <2>4. /\ ui' \in Debug!Page /\ ui'.ref = ui.ref /\ ui'.here = ui.here
        /\ ui'.listening = ui.listening
    BY <1>1, <2>3 DEF Debug!Page
  <2>5. QED
    BY <1>1, <2>2, <2>3, <2>4
       DEF DebugInv, Debug!TypeOK, Debug!HoldsItsSource
<1>13. ASSUME NEW s \in net, Debug!Fails(s) PROVE DebugInv'
  BY <1>2, <1>3, <1>4, <1>13 DEF Debug!Fails
<1>14. ASSUME NEW s \in net, NEW kind \in Debug!Kinds, Debug!Message(s, kind)
       PROVE  DebugInv'
  <2>1. Debug!Kept(ui.logs) \in 0 .. MaxLogs
    BY <1>1 DEF Debug!Kept, Debug!Page
  <2>2. PICK a \in BOOLEAN, b \in BOOLEAN, e \in BOOLEAN :
           ui' = [ui EXCEPT !.logs = Debug!Kept(ui.logs), !.connected = a,
                            !.connecting = b, !.error = e]
    BY <1>14 DEF Debug!Message
  <2> HIDE DEF Debug!Kept
  <2>3. /\ ui' \in Debug!Page /\ ui'.ref = ui.ref /\ ui'.here = ui.here
        /\ ui'.listening = ui.listening
    BY <1>1, <2>1, <2>2 DEF Debug!Page
  <2>4. QED  BY <1>5, <1>14, <2>3 DEF Debug!Message
<1>15. QED
  BY <1>6, <1>7, <1>8, <1>10, <1>11, <1>12, <1>13, <1>14 DEF Debug!Next

-----------------------------------------------------------------------------
(* WebLogPanel: fetches that do not cross are of the day that is chosen.    *)

LogInv ==
    /\ Log!TypeOK /\ Log!RestsOnFile
    /\ ~ui.crossed => \A d \in Dates : d # ui.date => net[d] = 0

LEMMA LogInit == Log!Init => LogInv
<1> SUFFICES ASSUME Log!Init PROVE LogInv
  OBVIOUS
<1>1. Today \in Dates
  BY PagesAssumption DEF Log!DatesAssumption
<1>2. /\ ui \in Log!Page /\ ui.date = Today /\ ui.shown = "empty"
      /\ srv \subseteq Dates
  BY <1>1 DEF Log!Init, Log!Page
<1>3. net \in [Dates -> Nat] /\ \A d \in Dates : d # Today => net[d] = 0
  BY DEF Log!Init
<1>4. QED  BY <1>2, <1>3 DEF LogInv, Log!TypeOK, Log!RestsOnFile

\* One change may ask twice.
LEMMA FilesFetched ==
    ASSUME LogInv, NEW panel \in Log!Page, NEW d \in Dates, NEW n \in {1, 2},
           Log!FetchFileLogs(panel, d, n)
    PROVE  LogInv'
<1> DEFINE c == \E e \in Dates : e # d /\ net[e] > 0
<1>1. /\ ui' = [panel EXCEPT !.date = d, !.loading = TRUE, !.crossed = c]
      /\ net' = [net EXCEPT ![d] = @ + n] /\ srv' = srv
  BY Zenon DEF Log!FetchFileLogs, Log!Asked
<1>2. net \in [Dates -> Nat] /\ srv \subseteq Dates
  BY DEF LogInv, Log!TypeOK
<1>3. c \in BOOLEAN /\ (~c => \A e \in Dates : e # d => net[e] = 0)
  BY <1>2
<1> HIDE DEF c
<1>4. ui' \in Log!Page /\ ui'.date = d /\ ui'.crossed = c
  BY <1>1, <1>3 DEF Log!Page
<1>5. /\ net' \in [Dates -> Nat] /\ net'[d] # 0
      /\ \A e \in Dates : e # d => net'[e] = net[e]
  BY <1>1, <1>2
<1>6. QED
  BY <1>1, <1>2, <1>3, <1>4, <1>5 DEF LogInv, Log!TypeOK, Log!RestsOnFile

LEMMA LogNext == LogInv /\ Log!Next => LogInv'
<1> SUFFICES ASSUME LogInv, Log!Next PROVE LogInv'
  OBVIOUS
<1>1. /\ ui \in Log!Page /\ net \in [Dates -> Nat] /\ srv \subseteq Dates
      /\ Today \in Dates /\ ui.date \in Dates
  BY PagesAssumption DEF LogInv, Log!TypeOK, Log!DatesAssumption, Log!Page
<1>2. ASSUME ui' \in Log!Page, UNCHANGED <<net, srv>>,
             ui'.here => ui.here, ui'.date = ui.date,
             ui'.crossed = ui.crossed,
             \/ ui'.live = ui.live /\ ui'.shown = ui.shown
             \/ ui'.live \/ ui'.shown = "empty" \/ ~ui'.here
      PROVE  LogInv'
  BY <1>1, <1>2 DEF LogInv, Log!TypeOK, Log!RestsOnFile
<1>3. ASSUME NEW d \in Dates, Log!PickDate(d) PROVE LogInv'
  <2>1. PICK n \in {1, 2} : Log!FetchFileLogs(ui, d, n)
    BY <1>3 DEF Log!PickDate
  <2>2. QED  BY <1>1, <2>1, FilesFetched
<1>4. CASE Log!RefreshLog
  <2>1. [ui EXCEPT !.refreshed = TRUE] \in Log!Page
    BY <1>1 DEF Log!Page
  <2>2. QED  BY <1>1, <1>4, <2>1, FilesFetched DEF Log!RefreshLog
<1>5. CASE Log!LiveOff
  <2>1. [ui EXCEPT !.live = FALSE, !.refreshed = TRUE] \in Log!Page
    BY <1>1 DEF Log!Page
  <2>2. PICK n \in {1, 2} :
           Log!FetchFileLogs([ui EXCEPT !.live = FALSE, !.refreshed = TRUE],
                             Today, n)
    BY <1>5 DEF Log!LiveOff
  <2>3. QED  BY <1>1, <2>1, <2>2, FilesFetched
<1>6. ASSUME NEW d \in Dates, Log!Answered(d), srv' = srv,
             NEW shown \in {d, "empty"},
             ui' = IF ui.here
                   THEN [ui EXCEPT !.loading = FALSE, !.shown = shown]
                   ELSE ui
      PROVE  LogInv'
  <2>1. /\ ui' \in Log!Page /\ ui'.here = ui.here /\ ui'.date = ui.date
        /\ ui'.crossed = ui.crossed
        /\ ui.here => ui'.shown \in {d, "empty"}
    BY <1>1, <1>6 DEF Log!Page
  <2>2. /\ net' \in [Dates -> Nat] /\ net[d] # 0
        /\ \A e \in Dates : net[e] = 0 => net'[e] = 0
    BY <1>1, <1>6 DEF Log!Answered
  <2>3. ~ui.crossed => d = ui.date
    BY <1>1, <2>2 DEF LogInv
  <2>4. ui'.crossed \in BOOLEAN /\ ui.crossed \in BOOLEAN
    BY <1>1, <2>1 DEF Log!Page
  <2>5. QED  BY <1>1, <1>6, <2>1, <2>2, <2>3, <2>4
             DEF LogInv, Log!TypeOK, Log!RestsOnFile
<1>7. ASSUME NEW d \in Dates, Log!LogReturns(d) \/ Log!LogFails(d)
      PROVE  LogInv'
  BY <1>6, <1>7 DEF Log!LogReturns, Log!LogFails
<1>8. CASE Log!LiveOn \/ Log!AppendLog
  BY <1>1, <1>2, <1>8 DEF Log!LiveOn, Log!Toolbar, Log!AppendLog, Log!Page
<1>9. CASE Log!ExportLogs
  BY <1>1, <1>2, <1>9 DEF Log!ExportLogs, Log!vars
<1>10. CASE Log!OpenClear
  BY <1>1, <1>2, <1>10 DEF Log!OpenClear, Log!Page
<1>11. CASE Log!ClearLogs
  <2>1. CASE ui' = [ui EXCEPT !.popover = FALSE]
    BY <1>1, <1>2, <1>11, <2>1 DEF Log!ClearLogs, Log!Page
  <2>2. CASE ui' = [ui EXCEPT !.popover = FALSE, !.shown = "empty"]
    BY <1>1, <1>2, <1>11, <2>2 DEF Log!ClearLogs, Log!Page
  <2>3. CASE ui' = [ui EXCEPT !.popover = FALSE, !.clearing = TRUE]
    BY <1>1, <1>2, <1>11, <2>3 DEF Log!ClearLogs, Log!Page
  <2>4. QED  BY <1>11, <2>1, <2>2, <2>3 DEF Log!ClearLogs
<1>12. CASE Log!ClearReturns
  <2>1. CASE ui' = [ui EXCEPT !.clearing = FALSE] /\ UNCHANGED <<net, srv>>
    BY <1>1, <1>2, <2>1 DEF Log!Page
  <2>2. CASE /\ ui' = [ui EXCEPT !.clearing = FALSE, !.shown = "empty"]
             /\ srv' = {} /\ net' = net
    <3>1. /\ ui' \in Log!Page /\ ui'.here = ui.here /\ ui'.date = ui.date
          /\ ui'.crossed = ui.crossed /\ ui'.shown = "empty"
      BY <1>1, <2>2 DEF Log!Page
    <3>2. QED  BY <1>1, <2>2, <3>1 DEF LogInv, Log!TypeOK, Log!RestsOnFile
  <2>3. QED  BY <1>12, <2>1, <2>2 DEF Log!ClearReturns
<1>13. CASE Log!Logs
  BY <1>1, <1>13 DEF Log!Logs, LogInv, Log!TypeOK, Log!RestsOnFile
<1>14. CASE Log!Leave
  BY <1>1, <1>2, <1>14 DEF Log!Leave, Log!Page
<1>15. QED
  BY <1>3, <1>4, <1>5, <1>7, <1>8, <1>9, <1>10, <1>11, <1>12, <1>13, <1>14
     DEF Log!Next

-----------------------------------------------------------------------------
(* WebMonitors: the socket that is connected is the one at ref, and the     *)
(* reading before came by it.                                               *)

ChartsInv ==
    /\ Charts!TypeOK /\ Charts!HoldsItsSocket
    /\ ~ui.attempted => ui.ref = 0
    /\ \A s \in Charts!Ids : net[s].state # "new" => net[s].host \in Hosts
    /\ \A s \in Charts!Ids :
          net[s].state = "open" /\ ui.prev # None => ui.prev.of = s

LEMMA ChartsInit == Charts!Init => ChartsInv
<1> SUFFICES ASSUME Charts!Init PROVE ChartsInv
  OBVIOUS
<1>1. 0 \in 0 .. MaxSockets /\ 0 \in 0 .. MaxBytes /\ 0 \in 0 .. MaxPoints
  BY PagesAssumption DEF Charts!MonitorsAssumption
<1>2. ui \in Charts!Page
  BY <1>1 DEF Charts!Init, Charts!Page
<1>3. net \in [Charts!Ids -> Charts!Sockets]
  BY DEF Charts!Init, Charts!Sockets
<1>4. srv \in [Hosts -> 0 .. MaxBytes]
  BY <1>1 DEF Charts!Init
<1>5. QED
  BY <1>2, <1>3, <1>4
     DEF Charts!Init, ChartsInv, Charts!TypeOK, Charts!HoldsItsSocket,
         Charts!Live

LEMMA ChartsNext == ChartsInv /\ Charts!Next => ChartsInv' /\ Charts!RatesOfOneSocket
<1> SUFFICES ASSUME ChartsInv, Charts!Next
             PROVE  ChartsInv' /\ Charts!RatesOfOneSocket
  OBVIOUS
<1>1. /\ ui \in Charts!Page /\ net \in [Charts!Ids -> Charts!Sockets]
      /\ srv \in [Hosts -> 0 .. MaxBytes]
      /\ \A s \in Charts!Ids : Charts!Live(s) => ui.here /\ s = ui.ref
      /\ ui.connected => ui.ref # 0 /\ net[ui.ref].state = "open"
      /\ ~ui.attempted => ui.ref = 0
      /\ \A s \in Charts!Ids : net[s].state # "new" => net[s].host \in Hosts
      /\ \A s \in Charts!Ids :
            net[s].state = "open" /\ ui.prev # None => ui.prev.of = s
  BY DEF ChartsInv, Charts!TypeOK, Charts!HoldsItsSocket
<1>2. /\ MaxSockets \in Nat /\ MaxBytes \in Nat /\ MaxPoints \in Nat
      /\ 0 \in 0 .. MaxSockets /\ 0 \in 0 .. MaxBytes /\ 0 \in 0 .. MaxPoints
      /\ None \notin Hosts /\ None \notin Nat /\ 0 \notin Charts!Ids
      /\ Charts!Ids \subseteq 0 .. MaxSockets
  BY PagesAssumption DEF Charts!MonitorsAssumption, Charts!Ids
\* A step that shows no other rate.
<1>3. ASSUME ChartsInv', ui'.rate \in {ui.rate, 0}
      PROVE  ChartsInv' /\ Charts!RatesOfOneSocket
  BY <1>3 DEF Charts!RatesOfOneSocket
<1>4. ASSUME NEW u \in Charts!Page, Charts!Disconnect(u, net), srv' = srv,
             u.ref = ui.ref, u.rate = ui.rate
      PROVE  ChartsInv' /\ Charts!RatesOfOneSocket
  <2>1. /\ ui' \in Charts!Page /\ ui'.ref = 0 /\ ~ui'.connected
        /\ ui'.rate = ui.rate
    BY <1>2, <1>4 DEF Charts!Disconnect, Charts!Page
  <2>2. ASSUME NEW s \in Charts!Ids
        PROVE  /\ net'[s] \in Charts!Sockets
               /\ net'[s].state \notin {"connecting", "open"}
               /\ net'[s].state # "new" => net'[s].host \in Hosts
    <3>1. CASE s = ui.ref /\ Charts!Live(s)
      <4>1. net'[s] = [net[s] EXCEPT !.state = "closing"]
        BY <1>4, <3>1 DEF Charts!Disconnect, Charts!Live
      <4>2. net[s] \in Charts!Sockets /\ net[s].state # "new"
        BY <1>1, <3>1 DEF Charts!Live
      <4>3. QED  BY <1>1, <4>1, <4>2 DEF Charts!Sockets
    <3>2. CASE ~(s = ui.ref /\ Charts!Live(s))
      <4>1. net'[s] = net[s]
        BY <1>4, <3>2 DEF Charts!Disconnect, Charts!Live
      <4>2. QED  BY <1>1, <3>2, <4>1 DEF Charts!Live
    <3>3. QED  BY <3>1, <3>2
  <2>3. net' \in [Charts!Ids -> Charts!Sockets]
    BY <1>4, <2>2 DEF Charts!Disconnect
  <2>4. ChartsInv'
    BY <1>1, <1>4, <2>1, <2>2, <2>3
       DEF ChartsInv, Charts!TypeOK, Charts!HoldsItsSocket, Charts!Live
  <2>5. QED  BY <1>3, <2>1, <2>4
<1>5. CASE Charts!Unmount
  <2>1. /\ [ui EXCEPT !.here = FALSE] \in Charts!Page
        /\ [ui EXCEPT !.here = FALSE].ref = ui.ref
        /\ [ui EXCEPT !.here = FALSE].rate = ui.rate
    BY <1>1 DEF Charts!Page
  <2>2. QED  BY <1>4, <1>5, <2>1 DEF Charts!Unmount
<1>6. ASSUME NEW h \in Hosts \cup {None}, Charts!Show(h)
      PROVE  ChartsInv' /\ Charts!RatesOfOneSocket
  <2>1. CASE h # None /\ ~ui.attempted /\ Charts!Connect(h) /\ srv' = srv
    <3>1. PICK s \in Charts!Ids :
              /\ net[s].state = "new"
              /\ ui' = [ui EXCEPT !.host = h, !.attempted = TRUE, !.ref = s,
                                  !.connecting = TRUE]
              /\ net' = [net EXCEPT ![s] = [host |-> h,
                                            state |-> "connecting"]]
      BY <2>1 DEF Charts!Connect
    <3>2. ui.ref = 0 /\ \A r \in Charts!Ids : ~Charts!Live(r)
      BY <1>1, <1>2, <2>1
    <3>3. /\ ui' \in Charts!Page /\ ui'.ref = s /\ ui'.attempted
          /\ ui'.here = ui.here /\ ui'.connected = ui.connected
          /\ ui'.prev = ui.prev /\ ui'.rate = ui.rate
      BY <1>1, <1>2, <1>6, <3>1 DEF Charts!Page
    <3>4. [host |-> h, state |-> "connecting"] \in Charts!Sockets
      BY DEF Charts!Sockets
    <3>5. /\ net' \in [Charts!Ids -> Charts!Sockets]
          /\ net'[s].state = "connecting" /\ net'[s].host = h
          /\ \A r \in Charts!Ids \ {s} : net'[r] = net[r]
      BY <1>1, <3>1, <3>4
    <3>6. ~ui.connected /\ ui.here
      BY <1>1, <1>6, <3>2 DEF Charts!Show
    <3>7. ChartsInv'
      BY <1>1, <2>1, <3>2, <3>3, <3>5, <3>6
         DEF ChartsInv, Charts!TypeOK, Charts!HoldsItsSocket, Charts!Live
    <3>8. QED  BY <1>3, <3>3, <3>7
  <2>2. CASE /\ ui' = [ui EXCEPT !.host = h] /\ UNCHANGED <<net, srv>>
    <3>1. /\ ui' \in Charts!Page /\ ui'.ref = ui.ref
          /\ ui'.attempted = ui.attempted
          /\ ui'.here = ui.here /\ ui'.connected = ui.connected
          /\ ui'.prev = ui.prev /\ ui'.rate = ui.rate
      BY <1>1, <2>2 DEF Charts!Page
    <3>2. ChartsInv'
      BY <1>1, <2>2, <3>1
         DEF ChartsInv, Charts!TypeOK, Charts!HoldsItsSocket, Charts!Live
    <3>3. QED  BY <1>3, <3>1, <3>2
  <2>3. CASE Charts!Disconnect([ui EXCEPT !.host = None], net) /\ srv' = srv
    <3>1. /\ [ui EXCEPT !.host = None] \in Charts!Page
          /\ [ui EXCEPT !.host = None].ref = ui.ref
          /\ [ui EXCEPT !.host = None].rate = ui.rate
      BY <1>1 DEF Charts!Page
    <3>2. QED  BY <1>4, <2>3, <3>1
  <2>4. QED  BY <1>6, <2>1, <2>2, <2>3 DEF Charts!Show
<1>7. ASSUME NEW h \in Hosts, Charts!Counts(h)
      PROVE  ChartsInv' /\ Charts!RatesOfOneSocket
  <2>1. srv[h] \in 0 .. MaxBytes /\ UNCHANGED <<ui, net>>
    BY <1>1, <1>7 DEF Charts!Counts
  <2>2. srv' \in [Hosts -> 0 .. MaxBytes]
    BY <1>1, <1>2, <1>7, <2>1 DEF Charts!Counts
  <2>3. ChartsInv'
    BY <1>1, <2>1, <2>2
       DEF ChartsInv, Charts!TypeOK, Charts!HoldsItsSocket, Charts!Live
  <2>4. QED  BY <1>3, <2>1, <2>3
<1>8. ASSUME NEW s \in Charts!Ids, NEW state \in {"open", "closed"},
             Charts!To(s, state)
      PROVE  /\ net' \in [Charts!Ids -> Charts!Sockets]
             /\ net'[s].state = state /\ net'[s].host = net[s].host
             /\ \A r \in Charts!Ids \ {s} : net'[r] = net[r]
  <2>1. net[s] \in Charts!Sockets
    BY <1>1
  <2>2. /\ [net[s] EXCEPT !.state = state] \in Charts!Sockets
        /\ [net[s] EXCEPT !.state = state].state = state
        /\ [net[s] EXCEPT !.state = state].host = net[s].host
    BY <2>1 DEF Charts!Sockets
  <2>3. net' = [net EXCEPT ![s] = [net[s] EXCEPT !.state = state]]
    BY <1>8 DEF Charts!To
  <2>4. QED  BY <1>1, <2>2, <2>3
<1>9. ASSUME NEW s \in Charts!Ids, Charts!Opens(s)
      PROVE  ChartsInv' /\ Charts!RatesOfOneSocket
  <2>1. net[s].state = "connecting" /\ Charts!Live(s) /\ srv' = srv
    BY <1>9 DEF Charts!Opens, Charts!Live
  <2>2. ui.here /\ s = ui.ref
    BY <1>1, <2>1
  <2>3. ui' = [ui EXCEPT !.connected = TRUE, !.connecting = FALSE,
                         !.prev = None, !.rate = 0, !.points = 0]
    BY <1>9, <2>2 DEF Charts!Opens, Charts!Heard
  <2>4. /\ ui' \in Charts!Page /\ ui'.ref = ui.ref
        /\ ui'.attempted = ui.attempted /\ ui'.here
        /\ ui'.prev = None /\ ui'.rate = 0
    BY <1>1, <1>2, <2>2, <2>3 DEF Charts!Page
  <2>5. /\ net' \in [Charts!Ids -> Charts!Sockets]
        /\ net'[s].state = "open" /\ net'[s].host = net[s].host
        /\ \A r \in Charts!Ids \ {s} : net'[r] = net[r]
    BY <1>8, <1>9 DEF Charts!Opens
  <2>6. ChartsInv'
    BY <1>1, <1>2, <2>1, <2>2, <2>4, <2>5
       DEF ChartsInv, Charts!TypeOK, Charts!HoldsItsSocket, Charts!Live
  <2>7. QED  BY <1>3, <2>4, <2>6
<1>10. ASSUME NEW s \in Charts!Ids, Charts!Closed(s)
       PROVE  ChartsInv' /\ Charts!RatesOfOneSocket
  <2>1. /\ net[s].state # "new" /\ srv' = srv
        /\ ui' = IF ui.here
                 THEN [ui EXCEPT !.connected = FALSE, !.connecting = FALSE]
                 ELSE ui
    BY <1>10 DEF Charts!Closed, Charts!Live, Charts!Heard
  <2>2. /\ ui' \in Charts!Page /\ ui'.ref = ui.ref
        /\ ui'.attempted = ui.attempted /\ ui'.here = ui.here
        /\ ui'.prev = ui.prev /\ ui'.rate = ui.rate
        /\ ui.here => ~ui'.connected
        /\ ~ui.here => ui'.connected = ui.connected
    BY <1>1, <2>1 DEF Charts!Page
  <2>3. /\ net' \in [Charts!Ids -> Charts!Sockets]
        /\ net'[s].state = "closed" /\ net'[s].host = net[s].host
        /\ \A r \in Charts!Ids \ {s} : net'[r] = net[r]
    BY <1>8, <1>10 DEF Charts!Closed
  <2>4. ui.connected => ui.here
    <3>1. ui.ref \in 0 .. MaxSockets
      BY <1>1 DEF Charts!Page
    <3>2. ui.ref # 0 => ui.ref \in Charts!Ids
      BY <1>2, <3>1 DEF Charts!Ids
    <3> SUFFICES ASSUME ui.connected PROVE ui.here
      OBVIOUS
    <3>3. ui.ref \in Charts!Ids /\ net[ui.ref].state = "open"
      BY <1>1, <3>2
    <3>4. Charts!Live(ui.ref)
      BY <3>3 DEF Charts!Live
    <3>5. \A r \in Charts!Ids : Charts!Live(r) => ui.here
      BY <1>1
    <3>6. QED  BY <3>3, <3>4, <3>5
  <2>5. ChartsInv'
    BY <1>1, <2>1, <2>2, <2>3, <2>4
       DEF ChartsInv, Charts!TypeOK, Charts!HoldsItsSocket, Charts!Live
  <2>6. QED  BY <1>3, <2>2, <2>5
<1>11. ASSUME NEW s \in Charts!Ids, NEW newer \in BOOLEAN,
              Charts!Message(s, newer)
       PROVE  ChartsInv' /\ Charts!RatesOfOneSocket
  <2> DEFINE bytes == srv[net[s].host]
             u == [ui EXCEPT !.latest = net[s].host,
                             !.points = IF @ = MaxPoints THEN @ ELSE @ + 1]
  <2>1. /\ net[s].state = "open" /\ Charts!Live(s) /\ UNCHANGED <<net, srv>>
        /\ net[s].host \in Hosts
    BY <1>1, <1>11 DEF Charts!Message, Charts!Live
  <2>2. ui.here /\ s = ui.ref /\ bytes \in 0 .. MaxBytes
    BY <1>1, <2>1
  <2>3. /\ u \in Charts!Page /\ u.ref = ui.ref /\ u.here = ui.here
        /\ u.attempted = ui.attempted /\ u.connected = ui.connected
        /\ u.rate = ui.rate /\ u.prev = ui.prev
    <3> DEFINE points == IF ui.points = MaxPoints THEN ui.points
                         ELSE ui.points + 1
    <3>1. ui \in Charts!Page /\ ui.points \in 0 .. MaxPoints
      BY <1>1 DEF Charts!Page
    <3>2. points \in 0 .. MaxPoints
      BY <1>2, <3>1
    <3>3. u = [ui EXCEPT !.latest = net[s].host, !.points = points]
      BY <3>1 DEF Charts!Page
    <3> HIDE DEF points, u
    <3>4. QED  BY <2>1, <3>1, <3>2, <3>3 DEF Charts!Page
  <2>4. \/ /\ ui.prev # None
           /\ ui' = [u EXCEPT !.rate = Charts!Rate(bytes),
                              !.prev = [of |-> s, bytes |-> bytes]]
        \/ ui' = [u EXCEPT !.prev = [of |-> s,
                                     bytes |-> Charts!First(bytes)]]
    BY <1>11, <2>2 DEF Charts!Message, Charts!Heard
  <2>5. ui.prev # None => ui.prev \in Charts!Reading /\ ui.prev.of = s
    BY <1>1, <2>1 DEF Charts!Page
  <2>6. ui.prev # None => Charts!Rate(bytes) \in 0 .. MaxBytes
    BY <1>2, <2>2, <2>5 DEF Charts!Rate, Charts!Reading
  <2>7. \A b \in 0 .. MaxBytes \cup {None} :
            [of |-> s, bytes |-> b] \in Charts!Reading
    BY DEF Charts!Reading
  <2>8. Charts!First(bytes) \in 0 .. MaxBytes \cup {None}
    BY <2>2 DEF Charts!First
  <2> HIDE DEF u, bytes
  <2>9. /\ ui' \in Charts!Page /\ ui'.ref = ui.ref /\ ui'.here = ui.here
        /\ ui'.attempted = ui.attempted /\ ui'.connected = ui.connected
        /\ ui'.prev.of = s
        /\ ui'.rate # ui.rate => ui.prev # None
    <3>1. CASE /\ ui.prev # None
               /\ ui' = [u EXCEPT !.rate = Charts!Rate(bytes),
                                  !.prev = [of |-> s, bytes |-> bytes]]
      BY <2>2, <2>3, <2>6, <2>7, <3>1 DEF Charts!Page
    <3>2. CASE ui' = [u EXCEPT !.prev = [of |-> s,
                                         bytes |-> Charts!First(bytes)]]
      BY <2>3, <2>7, <2>8, <3>2 DEF Charts!Page
    <3>3. QED  BY <2>4, <3>1, <3>2
  <2>10. ChartsInv'
    BY <1>1, <2>1, <2>2, <2>9
       DEF ChartsInv, Charts!TypeOK, Charts!HoldsItsSocket, Charts!Live
  <2>11. Charts!RatesOfOneSocket
    BY <2>5, <2>9 DEF Charts!RatesOfOneSocket
  <2>12. QED  BY <2>10, <2>11
<1>12. QED
  BY <1>5, <1>6, <1>7, <1>9, <1>10, <1>11 DEF Charts!Next

-----------------------------------------------------------------------------
(* WebCleanup: what is known of the page's own run, and what its polls say. *)

\* A poll that will say that the page's run is over.
SaysOver(p) == p.phase = "stats" \/ ~p.running

CleanupInv ==
    /\ Cleanup!TypeOK
    /\ ui.mine # 0 => ui.awaiting
    /\ srv.running => srv.runs # 0
    /\ ui.mine <= srv.runs /\ net.run <= srv.runs
    /\ \A p \in net.polls :
          ui.mine # 0 /\ SaysOver(p) => srv.runs > ui.mine \/ ~srv.running

LEMMA CleanupFacts ==
    /\ MaxRuns \in Nat /\ 0 \in 0 .. MaxRuns
    /\ Bad \notin Settings
BY PagesAssumption DEF Cleanup!CleanupAssumption

LEMMA ReadTyped ==
    ASSUME CleanupInv, NEW op \in {"load", "refresh", "save"}, NEW dirty \in BOOLEAN
    PROVE  Cleanup!Snapshot(op, dirty) \in Cleanup!Read
BY DEF CleanupInv, Cleanup!TypeOK, Cleanup!Snapshot, Cleanup!Read

LEMMA CleanupInit == Cleanup!Init => CleanupInv
<1> SUFFICES ASSUME Cleanup!Init PROVE CleanupInv
  OBVIOUS
<1>1. /\ srv \in [config : Settings, runs : 0 .. MaxRuns, running : BOOLEAN]
      /\ srv.runs = 0 /\ ~srv.running
  BY CleanupFacts DEF Cleanup!Init
<1>2. Cleanup!Snapshot("load", FALSE) \in Cleanup!Read
  BY <1>1 DEF Cleanup!Snapshot, Cleanup!Read
<1>3. ui \in Cleanup!Page /\ ui.mine = 0
  BY CleanupFacts DEF Cleanup!Init, Cleanup!Page, Cleanup!Ops
<1>4. /\ net \in [reads : SUBSET Cleanup!Read, polls : SUBSET Cleanup!Poll,
                  save : Settings \cup {Bad}, run : 0 .. MaxRuns]
      /\ net.run = 0 /\ net.polls = {}
  BY <1>2, CleanupFacts DEF Cleanup!Init
<1>5. QED  BY <1>1, <1>3, <1>4 DEF CleanupInv, Cleanup!TypeOK

\* Steps of the page that know nothing more of its run.
CleanupNet == [reads : SUBSET Cleanup!Read, polls : SUBSET Cleanup!Poll,
               save : Settings \cup {Bad}, run : 0 .. MaxRuns]
CleanupSrv == [config : Settings, runs : 0 .. MaxRuns, running : BOOLEAN]

LEMMA CleanupStep ==
    ASSUME CleanupInv, ui' \in Cleanup!Page, net' \in CleanupNet,
           srv' \in CleanupSrv, srv'.runs = srv.runs,
           srv'.running = srv.running,
           ui'.mine = ui.mine, ui'.awaiting = ui.awaiting,
           net'.run \in {0, net.run},
           \A p \in net'.polls : SaysOver(p) =>
               \/ ~srv.running
               \/ \E q \in net.polls : SaysOver(q)
    PROVE  CleanupInv' /\ Cleanup!CompletedIsOver
<1>1. 0 <= srv.runs
  BY CleanupFacts DEF CleanupInv, Cleanup!TypeOK
<1>2. \A p \in net'.polls :
          ui'.mine # 0 /\ SaysOver(p) => srv'.runs > ui'.mine \/ ~srv'.running
  BY DEF CleanupInv
<1>3. QED
  BY <1>1, <1>2 DEF CleanupInv, Cleanup!TypeOK, CleanupNet, CleanupSrv,
                    Cleanup!CompletedIsOver

LEMMA PollsOf ==
    ASSUME NEW u, NEW polls
    PROVE  Cleanup!Polls(u, polls) \in {polls, {}}
BY DEF Cleanup!Polls

\* The page is shown anew, with or without the polls under way.
LEMMA ShownAnew ==
    ASSUME CleanupInv, NEW u \in Cleanup!Page, NEW n \in CleanupNet,
           Cleanup!Shows(u, n)
    PROVE  /\ ui' = u /\ net' \in CleanupNet /\ net'.run = n.run
           /\ net'.save = n.save
           /\ net'.polls \in {n.polls, {}}
           /\ net'.polls = Cleanup!Polls(u, n.polls)
<1>1. ui' = u /\ net' = [n EXCEPT !.polls = Cleanup!Polls(u, n.polls)]
  BY DEF Cleanup!Shows, CleanupNet
<1>2. Cleanup!Polls(u, n.polls) \in {n.polls, {}}
  BY PollsOf
<1>3. QED  BY <1>1, <1>2 DEF CleanupNet

LEMMA CleanupNext ==
    CleanupInv /\ Cleanup!Next => CleanupInv' /\ Cleanup!CompletedIsOver
<1> SUFFICES ASSUME CleanupInv, Cleanup!Next
             PROVE  CleanupInv' /\ Cleanup!CompletedIsOver
  OBVIOUS
<1>1. ui \in Cleanup!Page /\ net \in CleanupNet /\ srv \in CleanupSrv
  BY DEF CleanupInv, Cleanup!TypeOK, CleanupNet, CleanupSrv
<1>2. /\ ui.mine # 0 => ui.awaiting
      /\ srv.running => srv.runs # 0
      /\ ui.mine <= srv.runs /\ net.run <= srv.runs
      /\ \A p \in net.polls :
            ui.mine # 0 /\ SaysOver(p) => srv.runs > ui.mine \/ ~srv.running
  BY DEF CleanupInv
<1>3. \A op \in Cleanup!Ops :
          /\ [ui EXCEPT !.busy = @ \cup {op}] \in Cleanup!Page
          /\ [ui EXCEPT !.busy = @ \cup {op}].mine = ui.mine
          /\ [ui EXCEPT !.busy = @ \cup {op}].awaiting = ui.awaiting
          /\ [ui EXCEPT !.busy = @ \cup {op}].busy = ui.busy \cup {op}
          /\ Cleanup!Ends(op) \in Cleanup!Page
          /\ Cleanup!Ends(op).mine = ui.mine
          /\ Cleanup!Ends(op).awaiting = ui.awaiting
          /\ Cleanup!Ends(op).busy = ui.busy \ {op}
  BY <1>1 DEF Cleanup!Ends, Cleanup!Page
\* Steps that change neither server nor polls.
<1>4. ASSUME ui' \in Cleanup!Page, ui'.mine = ui.mine,
             ui'.awaiting = ui.awaiting, srv' = srv, net' \in CleanupNet,
             net'.run \in {0, net.run}, net'.polls \subseteq net.polls
      PROVE  CleanupInv' /\ Cleanup!CompletedIsOver
  BY <1>1, <1>4, CleanupStep
<1>5. CASE Cleanup!Refresh
  <2>1. Cleanup!Snapshot("refresh", Cleanup!IsDirty) \in Cleanup!Read
    <3>1. Cleanup!IsDirty \in BOOLEAN
      BY DEF Cleanup!IsDirty
    <3>2. QED  BY <3>1, ReadTyped
  <2>2. /\ net' = [net EXCEPT !.reads =
                      @ \cup {Cleanup!Snapshot("refresh", Cleanup!IsDirty)}]
        /\ ui' = [ui EXCEPT !.busy = @ \cup {"refresh"}] /\ srv' = srv
    BY <1>5 DEF Cleanup!Refresh
  <2>3. /\ net' \in CleanupNet /\ net'.run = net.run /\ net'.polls = net.polls
        /\ net'.save = net.save
    BY <1>1, <2>1, <2>2 DEF CleanupNet
  <2>4. "refresh" \in Cleanup!Ops
    BY DEF Cleanup!Ops
  <2>5. QED  BY <1>2, <1>3, <1>4, <2>2, <2>3, <2>4
<1>6. ASSUME NEW r \in net.reads, Cleanup!ReadReturns(r)
      PROVE  CleanupInv' /\ Cleanup!CompletedIsOver
  <2> DEFINE n == [net EXCEPT !.reads = @ \ {r}]
             v == Cleanup!Ends(r.op)
             config == IF r.op # "save" THEN r.config ELSE v.config
             form == IF r.op # "save" /\ ~r.dirty THEN r.config ELSE v.form
             u == [v EXCEPT !.config = config, !.form = form,
                            !.running = r.running]
  <2>1. /\ r.op \in Cleanup!Ops /\ r.config \in Settings
        /\ r.running \in BOOLEAN
    BY <1>1 DEF CleanupNet, Cleanup!Read, Cleanup!Ops
  <2>2. /\ n \in CleanupNet /\ n.run = net.run /\ n.polls = net.polls
        /\ n.save = net.save
    BY <1>1 DEF CleanupNet
  <2>3. Cleanup!Shows(u, n) /\ srv' = srv
    BY <1>6 DEF Cleanup!ReadReturns
  <2>4. /\ v \in Cleanup!Page /\ v.mine = ui.mine /\ v.awaiting = ui.awaiting
    BY <1>3, <2>1
  <2> HIDE DEF v
  <2>5. config \in Settings \cup {Bad} /\ form \in Settings \cup {Bad}
    BY <2>1, <2>4 DEF Cleanup!Page
  <2> HIDE DEF config, form
  <2>6. /\ u \in Cleanup!Page /\ u.mine = ui.mine /\ u.awaiting = ui.awaiting
    BY <2>1, <2>4, <2>5 DEF Cleanup!Page
  <2> HIDE DEF u, n
  <2>7. QED  BY <1>2, <1>4, <2>2, <2>3, <2>6, ShownAnew
<1>7. ASSUME NEW r \in net.reads, Cleanup!ReadFails(r)
      PROVE  CleanupInv' /\ Cleanup!CompletedIsOver
  <2>1. r.op \in Cleanup!Ops
    BY <1>1 DEF CleanupNet, Cleanup!Read, Cleanup!Ops
  <2>2. /\ net' \in CleanupNet /\ net'.run = net.run /\ net'.polls = net.polls
        /\ net'.save = net.save
    BY <1>1, <1>7 DEF CleanupNet, Cleanup!ReadFails
  <2>3. QED  BY <1>2, <1>3, <1>4, <1>7, <2>1, <2>2 DEF Cleanup!ReadFails
<1>8. ASSUME ui' \in Cleanup!Page, ui'.mine = ui.mine,
             ui'.awaiting = ui.awaiting, UNCHANGED <<net, srv>>
      PROVE  CleanupInv' /\ Cleanup!CompletedIsOver
  BY <1>1, <1>2, <1>4, <1>8
<1>9. ASSUME NEW s \in Settings \cup {Bad}, Cleanup!UpdateNumber(s)
      PROVE  CleanupInv' /\ Cleanup!CompletedIsOver
  BY <1>1, <1>8, <1>9 DEF Cleanup!UpdateNumber, Cleanup!Page
<1>10. CASE Cleanup!Save
  <2>1. ui.form \in Settings
    BY <1>1, <1>10 DEF Cleanup!Save, Cleanup!Page
  <2>2. /\ net' \in CleanupNet /\ net'.run = net.run /\ net'.polls = net.polls
        /\ net'.save = ui.form
    BY <1>1, <1>10, <2>1 DEF CleanupNet, Cleanup!Save
  <2>3. "save" \in Cleanup!Ops
    BY DEF Cleanup!Ops
  <2>4. QED  BY <1>3, <1>4, <1>10, <2>1, <2>2, <2>3 DEF Cleanup!Save
<1>11. CASE Cleanup!SaveReturns
  <2>1. net.save \in Settings
    BY <1>1, <1>11 DEF Cleanup!SaveReturns, CleanupNet
  <2>2. Cleanup!Snapshot("save", FALSE) \in Cleanup!Read
    BY ReadTyped
  <2>3. ui' = [ui EXCEPT !.config = net.save, !.form = net.save]
    BY <1>11 DEF Cleanup!SaveReturns
  <2>4. /\ ui' \in Cleanup!Page /\ ui'.mine = ui.mine
        /\ ui'.awaiting = ui.awaiting
    BY <1>1, <2>1, <2>3 DEF Cleanup!Page
  <2>5. net' = [net EXCEPT !.save = Bad,
                   !.reads = @ \cup {Cleanup!Snapshot("save", FALSE)}]
    BY <1>11 DEF Cleanup!SaveReturns
  <2>6. /\ net' \in CleanupNet /\ net'.run = net.run
        /\ net'.polls = net.polls
    BY <1>1, <2>2, <2>5 DEF CleanupNet
  <2>7. /\ srv' \in CleanupSrv /\ srv'.runs = srv.runs
        /\ srv'.running = srv.running
    BY <1>1, <1>11, <2>1 DEF Cleanup!SaveReturns, CleanupSrv
  <2>8. QED  BY <2>4, <2>6, <2>7, CleanupStep
<1>12. CASE Cleanup!SaveFails
  <2>1. net.save \in Settings /\ "save" \in Cleanup!Ops
    BY <1>1, <1>12 DEF Cleanup!SaveFails, CleanupNet, Cleanup!Ops
  <2>2. /\ ui' \in Cleanup!Page /\ ui'.mine = ui.mine
        /\ ui'.awaiting = ui.awaiting
    BY <1>3, <1>12, <2>1 DEF Cleanup!SaveFails
  <2>3. /\ net' \in CleanupNet /\ net'.run = net.run
        /\ net'.polls = net.polls
    BY <1>1, <1>12 DEF Cleanup!SaveFails, CleanupNet
  <2>4. /\ srv' \in CleanupSrv /\ srv'.runs = srv.runs
        /\ srv'.running = srv.running
    BY <1>1, <1>12, <2>1 DEF Cleanup!SaveFails, CleanupSrv
  <2>5. QED  BY <2>2, <2>3, <2>4, CleanupStep
<1>13. CASE Cleanup!Preview
  <2>1. "preview" \in Cleanup!Ops
    BY DEF Cleanup!Ops
  <2>2. QED  BY <1>3, <1>8, <1>13, <2>1 DEF Cleanup!Preview
<1>14. CASE Cleanup!PreviewReturns
  <2>1. PICK ok \in BOOLEAN :
            ui' = [Cleanup!Ends("preview") EXCEPT !.modal = @ \/ ok]
    BY <1>14 DEF Cleanup!PreviewReturns
  <2>2. "preview" \in Cleanup!Ops
    BY DEF Cleanup!Ops
  <2>3. /\ ui' \in Cleanup!Page /\ ui'.mine = ui.mine
        /\ ui'.awaiting = ui.awaiting /\ ui'.busy = ui.busy \ {"preview"}
    BY <1>3, <2>1, <2>2 DEF Cleanup!Page
  <2>4. QED  BY <1>8, <1>14, <2>3 DEF Cleanup!PreviewReturns
<1>15. CASE Cleanup!ClosePreview
  BY <1>1, <1>8, <1>15 DEF Cleanup!ClosePreview, Cleanup!Page
<1>16. "trigger" \in Cleanup!Ops /\ 0 \in 0 .. MaxRuns
  BY CleanupFacts DEF Cleanup!Ops
<1>17. CASE Cleanup!Trigger
  <2> DEFINE u == [ui EXCEPT !.busy = @ \cup {"trigger"}]
  <2>1. /\ u \in Cleanup!Page /\ u.mine = ui.mine
        /\ u.awaiting = ui.awaiting /\ u.busy = ui.busy \cup {"trigger"}
    BY <1>3, <1>16
  <2>2. Cleanup!Shows(u, net) /\ srv' = srv /\ net \in CleanupNet
    BY <1>1, <1>17 DEF Cleanup!Trigger
  <2> HIDE DEF u
  <2>3. /\ ui' = u /\ net' \in CleanupNet /\ net'.run = net.run
        /\ net'.save = net.save /\ net'.polls \subseteq net.polls
    BY <2>1, <2>2, ShownAnew
  <2>4. QED  BY <1>4, <2>1, <2>2, <2>3
<1>18. ASSUME Cleanup!Begins, ~srv.running, srv.runs < MaxRuns, ui' = ui,
              net' \in CleanupNet, net'.run \in {net.run, srv.runs + 1},
              net'.polls = net.polls, net'.save = net.save
       PROVE  CleanupInv' /\ Cleanup!CompletedIsOver
  <2>1. srv.runs \in 0 .. MaxRuns /\ ui.mine \in 0 .. MaxRuns
        /\ net.run \in 0 .. MaxRuns
    BY <1>1 DEF CleanupSrv, Cleanup!Page, CleanupNet
  <2>2. /\ srv' \in CleanupSrv /\ srv'.runs = srv.runs + 1 /\ srv'.running
    <3>1. srv.runs + 1 \in 0 .. MaxRuns
      BY <1>18, <2>1, CleanupFacts
    <3>2. srv' = [srv EXCEPT !.runs = srv.runs + 1, !.running = TRUE]
      BY <1>1, <1>18 DEF Cleanup!Begins, CleanupSrv
    <3>3. QED  BY <1>1, <3>1, <3>2 DEF CleanupSrv
  <2>3. /\ srv'.runs > ui.mine /\ srv'.runs # 0 /\ ui'.mine <= srv'.runs
        /\ net'.run <= srv'.runs
    BY <1>2, <1>18, <2>1, <2>2
  <2>4. QED
    BY <1>1, <1>2, <1>18, <2>2, <2>3
       DEF CleanupInv, Cleanup!TypeOK, CleanupNet, CleanupSrv,
           Cleanup!CompletedIsOver
<1>19. CASE Cleanup!TriggerServes
  <2>1. srv.runs + 1 \in 0 .. MaxRuns
    BY <1>1, <1>19, CleanupFacts DEF Cleanup!TriggerServes, CleanupSrv
  <2>2. /\ net' \in CleanupNet /\ net'.run = srv.runs + 1
        /\ net'.polls = net.polls /\ net'.save = net.save
    BY <1>1, <1>19, <2>1 DEF Cleanup!TriggerServes, CleanupNet
  <2>3. QED  BY <1>18, <1>19, <2>2 DEF Cleanup!TriggerServes
<1>20. CASE Cleanup!RunElsewhere
  BY <1>1, <1>18, <1>20 DEF Cleanup!RunElsewhere
<1>21. CASE Cleanup!FinishCleanup
  <2>1. /\ srv' \in CleanupSrv /\ srv'.runs = srv.runs /\ ~srv'.running
    BY <1>1, <1>21 DEF Cleanup!FinishCleanup, CleanupSrv
  <2>2. QED
    BY <1>1, <1>2, <1>21, <2>1
       DEF CleanupInv, Cleanup!TypeOK, CleanupNet, CleanupSrv,
           Cleanup!CompletedIsOver, Cleanup!FinishCleanup
\* The run is the page's own from here; no poll under way speaks of it.
<1>22. CASE Cleanup!TriggerReturns
  <2> DEFINE u == [Cleanup!Ends("trigger") EXCEPT !.mine = net.run,
                      !.awaiting = TRUE, !.running = TRUE, !.modal = FALSE]
             n == [net EXCEPT !.run = 0]
  <2>1. net.run \in 0 .. MaxRuns /\ net.run # 0 /\ "trigger" \in ui.busy
    BY <1>1, <1>22 DEF CleanupNet, Cleanup!TriggerReturns
  <2>2. /\ u \in Cleanup!Page /\ u.mine = net.run /\ u.awaiting
        /\ u.busy = ui.busy \ {"trigger"}
    BY <1>3, <1>16, <2>1 DEF Cleanup!Page
  <2>3. n \in CleanupNet /\ n.run = 0 /\ n.save = net.save
    BY <1>1, <1>16 DEF CleanupNet
  <2>4. Cleanup!Shows(u, n) /\ srv' = srv
    BY <1>22 DEF Cleanup!TriggerReturns
  <2> HIDE DEF u, n
  <2>5. Cleanup!Polls(u, n.polls) = {}
    BY <2>1, <2>2 DEF Cleanup!Polls
  <2>6. /\ ui' = u /\ net' \in CleanupNet /\ net'.run = 0 /\ net'.polls = {}
        /\ net'.save = net.save
    BY <2>2, <2>3, <2>4, <2>5, ShownAnew
  <2>7. 0 <= srv.runs
    BY <1>1, CleanupFacts DEF CleanupSrv
  <2>8. CleanupInv'
    BY <1>1, <1>2, <2>2, <2>4, <2>6, <2>7
       DEF CleanupInv, Cleanup!TypeOK, CleanupNet, CleanupSrv
  <2>9. QED  BY <2>1, <2>2, <2>6, <2>8 DEF Cleanup!CompletedIsOver
<1>23. CASE Cleanup!TriggerFails
  <2> DEFINE n == [net EXCEPT !.run = 0]
  <2>1. /\ n \in CleanupNet /\ n.run = 0 /\ n.save = net.save
        /\ n.polls = net.polls
    BY <1>1, <1>16 DEF CleanupNet
  <2>2. Cleanup!Shows(Cleanup!Ends("trigger"), n) /\ srv' = srv
    BY <1>23 DEF Cleanup!TriggerFails
  <2> HIDE DEF n
  <2>3. QED  BY <1>2, <1>3, <1>4, <1>16, <2>1, <2>2, ShownAnew
<1>24. CASE Cleanup!Polling
  <2> DEFINE p == [phase |-> "status", running |-> srv.running]
  <2>1. p \in Cleanup!Poll
    BY <1>1 DEF CleanupSrv, Cleanup!Poll
  <2>2. /\ net' = [net EXCEPT !.polls = @ \cup {p}] /\ UNCHANGED <<ui, srv>>
    BY <1>24 DEF Cleanup!Polling
  <2>3. SaysOver(p) => ~srv.running
    BY DEF SaysOver
  <2> HIDE DEF p
  <2>4. /\ net' \in CleanupNet /\ net'.run = net.run
        /\ net'.save = net.save /\ net'.polls = net.polls \cup {p}
    BY <1>1, <2>1, <2>2 DEF CleanupNet
  <2>5. QED  BY <1>1, <1>2, <2>2, <2>3, <2>4, CleanupStep
<1>25. ASSUME NEW p \in net.polls, Cleanup!StatusReturns(p)
       PROVE  CleanupInv' /\ Cleanup!CompletedIsOver
  <2> DEFINE asked == IF p.running THEN {}
                      ELSE {[phase |-> "stats", running |-> srv.running]}
             n == [net EXCEPT !.polls = (@ \ {p}) \cup asked]
             u == [ui EXCEPT !.running = p.running]
  <2>1. p \in Cleanup!Poll
    BY <1>1 DEF CleanupNet
  <2>2. asked \subseteq Cleanup!Poll /\ (asked # {} => SaysOver(p))
    BY <1>1 DEF CleanupSrv, Cleanup!Poll, SaysOver
  <2>3. Cleanup!Shows(u, n) /\ srv' = srv
    BY <1>25 DEF Cleanup!StatusReturns
  <2> HIDE DEF asked
  <2>4. /\ n \in CleanupNet /\ n.run = net.run /\ n.save = net.save
        /\ n.polls = (net.polls \ {p}) \cup asked
    BY <1>1, <2>2 DEF CleanupNet
  <2>5. /\ u \in Cleanup!Page /\ u.mine = ui.mine
        /\ u.awaiting = ui.awaiting /\ u.busy = ui.busy
    BY <1>1, <2>1 DEF Cleanup!Page, Cleanup!Poll
  <2> HIDE DEF n, u
  <2>6. /\ ui' = u /\ net' \in CleanupNet /\ net'.run = net.run
        /\ net'.save = net.save /\ net'.polls \in {n.polls, {}}
    BY <2>3, <2>4, <2>5, ShownAnew
  <2>7. \A q \in net'.polls : SaysOver(q) =>
            \/ ~srv.running
            \/ \E o \in net.polls : SaysOver(o)
    BY <2>2, <2>4, <2>6
  <2>8. QED  BY <1>1, <1>2, <2>3, <2>5, <2>6, <2>7, CleanupStep
<1>26. ASSUME NEW p \in net.polls, Cleanup!StatsReturn(p)
       PROVE  CleanupInv' /\ Cleanup!CompletedIsOver
  <2> DEFINE n == [net EXCEPT !.polls = @ \ {p}]
             u == [ui EXCEPT !.running = p.running, !.awaiting = FALSE,
                             !.mine = 0]
  <2>1. p \in Cleanup!Poll /\ SaysOver(p)
    BY <1>1, <1>26 DEF CleanupNet, Cleanup!StatsReturn, SaysOver
  <2>2. Cleanup!Shows(u, n) /\ srv' = srv
    BY <1>26 DEF Cleanup!StatsReturn
  <2>3. n \in CleanupNet /\ n.run = net.run /\ n.save = net.save
    BY <1>1 DEF CleanupNet
  <2>4. /\ u \in Cleanup!Page /\ u.mine = 0 /\ u.busy = ui.busy
    BY <1>1, <1>16, <2>1 DEF Cleanup!Page, Cleanup!Poll
  <2> HIDE DEF n, u
  <2>5. /\ ui' = u /\ net' \in CleanupNet /\ net'.run = net.run
        /\ net'.save = net.save
    BY <2>2, <2>3, <2>4, ShownAnew
  <2>6. 0 <= srv.runs
    BY <1>1, CleanupFacts DEF CleanupSrv
  <2>7. CleanupInv'
    BY <1>1, <1>2, <2>2, <2>4, <2>5, <2>6
       DEF CleanupInv, Cleanup!TypeOK, CleanupNet, CleanupSrv
  <2>8. QED  BY <1>2, <2>1, <2>7 DEF Cleanup!CompletedIsOver
<1>27. ASSUME NEW p \in net.polls, Cleanup!PollFails(p)
       PROVE  CleanupInv' /\ Cleanup!CompletedIsOver
  <2>1. /\ net' \in CleanupNet /\ net'.run = net.run /\ net'.save = net.save
        /\ net'.polls \subseteq net.polls /\ UNCHANGED <<ui, srv>>
    BY <1>1, <1>27 DEF CleanupNet, Cleanup!PollFails
  <2>2. QED  BY <1>1, <1>2, <1>4, <2>1
<1>28. QED
  BY <1>5, <1>6, <1>7, <1>9, <1>10, <1>11, <1>12, <1>13, <1>14, <1>15, <1>17,
     <1>19, <1>20, <1>21, <1>22, <1>23, <1>24, <1>25, <1>26, <1>27 DEF Cleanup!Next

-----------------------------------------------------------------------------
(* WebSetup: at most one request to initialize is under way, from the last  *)
(* step of the wizard, and what it is answered is what the server did.      *)

IsInitialize(c) == c.kind = "initialize"

SetupInv ==
    /\ Setup!TypeOK /\ Setup!LeavesInitialized
    /\ \A c, d \in net : IsInitialize(c) /\ IsInitialize(d) => c = d
    /\ \A c \in net : IsInitialize(c) =>
          /\ ui.submitting /\ ui.step = 5 /\ ui.countdown = Setup!Idle
          /\ c.version = ui.accepted
          /\ c.reply = "ok" => /\ srv.env.conn \in srv.admins
                               /\ srv.env.version = c.version

LEMMA SetupFacts ==
    /\ Countdown \in Nat \ {0} /\ MaxVersion \in Nat \ {0}
    /\ Setup!Idle \in 0 .. Countdown \cup {Countdown + 1}
    /\ Setup!Idle \notin 0 .. Countdown
    /\ 1 \in Setup!Versions
BY PagesAssumption DEF Setup!SetupAssumption, Setup!Idle, Setup!Versions

SetupPage == [step : 1 .. 5, conn : Conns \cup {NoConn},
              doc : Setup!Versions \cup {0},
              accepted : Setup!Versions \cup {0},
              testing : BOOLEAN, testOK : BOOLEAN, submitting : BOOLEAN,
              countdown : 0 .. Countdown \cup {Countdown + 1},
              path : {"setup", "login"}]
SetupServer == [mode : {"setup", "down", "ready"}, reach : SUBSET Conns,
                version : Setup!Versions, admins : SUBSET Conns,
                env : [conn : Conns \cup {NoConn},
                       version : Setup!Versions \cup {0}]]

LEMMA SetupTypes ==
    Setup!TypeOK <=> /\ ui \in SetupPage /\ net \subseteq Setup!Request
                     /\ srv \in SetupServer
BY DEF Setup!TypeOK, SetupPage, SetupServer

LEMMA SetupInit == Setup!Init => SetupInv
<1> SUFFICES ASSUME Setup!Init PROVE SetupInv
  OBVIOUS
<1>1. ui \in SetupPage /\ ui.countdown = Setup!Idle
  BY SetupFacts DEF Setup!Init, SetupPage
<1>2. srv \in SetupServer
  BY SetupFacts DEF Setup!Init, SetupServer
<1>3. net = {}
  BY DEF Setup!Init
<1>4. Setup!TypeOK
  BY <1>1, <1>2, <1>3, SetupTypes
<1>5. QED  BY <1>1, <1>3, <1>4 DEF SetupInv, Setup!LeavesInitialized

\* Steps of the page and of its other requests.
LEMMA SetupStep ==
    ASSUME SetupInv, ui' \in SetupPage, net' \subseteq Setup!Request,
           srv' \in SetupServer,
           srv'.env = srv.env, srv'.admins = srv.admins,
           ui'.submitting = ui.submitting, ui'.countdown = ui.countdown,
           ui.submitting /\ ui.step = 5 => ui'.step = 5,
           \A c \in net' : IsInitialize(c) => c \in net,
           ui'.accepted = ui.accepted
             \/ (ui.countdown = Setup!Idle /\ ui.step # 5)
    PROVE  SetupInv'
<1>1. Setup!TypeOK'
  <2>1. ui' \in SetupPage /\ net' \subseteq Setup!Request /\ srv' \in SetupServer
    OBVIOUS
  <2>2. QED  BY <2>1 DEF Setup!TypeOK, SetupPage, SetupServer
<1>2. Setup!LeavesInitialized'
  BY DEF SetupInv, Setup!LeavesInitialized, Setup!Idle
<1>3. QED  BY <1>1, <1>2 DEF SetupInv, IsInitialize, Setup!Idle

\* A request that is not to initialize.
LEMMA Asked ==
    ASSUME NEW kind \in {"compliance", "test", "initialize"},
           NEW conn \in Conns \cup {NoConn},
           NEW version \in Setup!Versions \cup {0},
           net \subseteq Setup!Request, Setup!Ask(kind, conn, version)
    PROVE  /\ net' \subseteq Setup!Request
           /\ \A c \in net' \ net : /\ c.kind = kind /\ c.conn = conn
                                    /\ c.version = version
                                    /\ c.reply = "none"
<1> DEFINE r == [kind |-> kind, conn |-> conn, version |-> version,
                 reply |-> "none"]
<1>1. /\ r \in Setup!Request /\ r.kind = kind /\ r.conn = conn
      /\ r.version = version /\ r.reply = "none"
  BY DEF Setup!Request, Setup!Replies
<1>2. net' = net \cup {r}
  BY DEF Setup!Ask
<1> HIDE DEF r
<1>3. QED  BY <1>1, <1>2

LEMMA Replied ==
    ASSUME net \subseteq Setup!Request, NEW c \in net,
           NEW reply \in Setup!Replies, Setup!Reply(c, reply)
    PROVE  /\ net' \subseteq Setup!Request
           /\ \A d \in net' : \/ d \in net \ {c}
                              \/ /\ d.kind = c.kind /\ d.conn = c.conn
                                 /\ d.version = c.version /\ d.reply = reply
<1> DEFINE r == [c EXCEPT !.reply = reply]
<1>1. /\ r \in Setup!Request /\ r.kind = c.kind /\ r.conn = c.conn
      /\ r.version = c.version /\ r.reply = reply
  BY DEF Setup!Request
<1>2. net' = (net \ {c}) \cup {r}
  BY DEF Setup!Reply
<1> HIDE DEF r
<1>3. QED  BY <1>1, <1>2

LEMMA SetupNext == SetupInv /\ Setup!Next => SetupInv'
<1> SUFFICES ASSUME SetupInv, Setup!Next PROVE SetupInv'
  OBVIOUS
<1>1. /\ ui \in SetupPage /\ net \subseteq Setup!Request
      /\ srv \in SetupServer
  BY SetupTypes DEF SetupInv
<1>2. /\ ui.countdown # Setup!Idle => /\ srv.env.conn \in srv.admins
                                      /\ srv.env.version = ui.accepted
      /\ \A c, d \in net : IsInitialize(c) /\ IsInitialize(d) => c = d
      /\ \A c \in net : IsInitialize(c) =>
            /\ ui.submitting /\ ui.step = 5 /\ ui.countdown = Setup!Idle
            /\ c.version = ui.accepted
            /\ c.reply = "ok" => /\ srv.env.conn \in srv.admins
                                 /\ srv.env.version = c.version
  BY DEF SetupInv, Setup!LeavesInitialized
<1>3. /\ srv.version \in Setup!Versions \cup {0}
      /\ NoConn \in Conns \cup {NoConn} /\ 0 \in Setup!Versions \cup {0}
      /\ ui.conn \in Conns \cup {NoConn} /\ ui.step \in 1 .. 5
      /\ ui.accepted \in Setup!Versions \cup {0}
      /\ ui.doc \in Setup!Versions \cup {0}
  BY <1>1 DEF SetupServer, SetupPage
\* Edits of the page alone.
<1>4. ASSUME ui' \in SetupPage, UNCHANGED <<net, srv>>,
             ui'.submitting = ui.submitting, ui'.countdown = ui.countdown,
             ui.submitting /\ ui.step = 5 => ui'.step = 5,
             ui'.accepted = ui.accepted
               \/ (ui.countdown = Setup!Idle /\ ui.step # 5)
      PROVE  SetupInv'
  BY <1>1, <1>4, SetupStep
<1>5. CASE Setup!PreferencesNext
  <2>1. /\ ui' \in SetupPage /\ ui'.submitting = ui.submitting
        /\ ui'.countdown = ui.countdown /\ ui'.accepted = ui.accepted
    <3>1. ui' = [ui EXCEPT !.step = 2, !.doc = 0]
      BY <1>5 DEF Setup!PreferencesNext
    <3>2. ui \in SetupPage /\ 2 \in 1 .. 5 /\ 0 \in Setup!Versions \cup {0}
      BY <1>1
    <3>3. QED  BY <3>1, <3>2 DEF SetupPage
  <2>2. ui.step = 1 /\ srv' = srv
    BY <1>5 DEF Setup!PreferencesNext, Setup!Mounted
  <2>3. /\ net' \subseteq Setup!Request
        /\ \A c \in net' : IsInitialize(c) => c \in net
    BY <1>1, <1>3, <1>5, Asked DEF Setup!PreferencesNext, IsInitialize
  <2>4. QED  BY <1>1, <2>1, <2>2, <2>3, SetupStep
<1>6. CASE Setup!ComplianceReturn
  <2>1. PICK c \in net :
            /\ net' = net \ {c} /\ srv' = srv
            /\ \/ ui' = [ui EXCEPT !.doc = IF ui.step = 2 THEN c.version ELSE @]
               \/ UNCHANGED ui
    BY <1>6 DEF Setup!ComplianceReturn, Setup!Under
  <2>2. c.version \in Setup!Versions \cup {0}
    BY <1>1 DEF Setup!Request
  <2>3. /\ ui' \in SetupPage /\ ui'.submitting = ui.submitting
        /\ ui'.countdown = ui.countdown /\ ui'.accepted = ui.accepted
        /\ ui'.step = ui.step
    BY <1>1, <2>1, <2>2 DEF SetupPage
  <2>4. QED  BY <1>1, <2>1, <2>3, SetupStep
<1>7. CASE Setup!ComplianceNext
  <2>1. /\ ui' \in SetupPage /\ ui'.submitting = ui.submitting
        /\ ui'.countdown = ui.countdown
    <3>1. ui' = [ui EXCEPT !.step = 3, !.accepted = ui.doc]
      BY <1>7 DEF Setup!ComplianceNext
    <3>2. /\ ui \in SetupPage /\ 3 \in 1 .. 5
          /\ ui.doc \in Setup!Versions \cup {0}
      BY <1>1, <1>3
    <3>3. QED  BY <3>1, <3>2 DEF SetupPage
  <2>2. ui.step = 2 /\ ui.countdown = Setup!Idle /\ UNCHANGED <<net, srv>>
    BY <1>7 DEF Setup!ComplianceNext, Setup!Mounted, Setup!Open
  <2>3. QED  BY <1>4, <2>1, <2>2
<1>8. CASE Setup!SetConn
  <2>1. PICK c \in Conns \ {ui.conn} :
            ui' = [ui EXCEPT !.conn = c, !.testOK = FALSE]
    BY <1>8 DEF Setup!SetConn
  <2>2. /\ ui' \in SetupPage /\ ui'.submitting = ui.submitting
        /\ ui'.countdown = ui.countdown /\ ui'.accepted = ui.accepted
        /\ ui'.step = ui.step
    BY <1>1, <2>1 DEF SetupPage
  <2>3. QED  BY <1>4, <1>8, <2>2 DEF Setup!SetConn
<1>9. CASE Setup!DriverNext
  <2>1. /\ ui' \in SetupPage /\ ui'.submitting = ui.submitting
        /\ ui'.countdown = ui.countdown /\ ui'.accepted = ui.accepted
    BY <1>1, <1>9 DEF Setup!DriverNext, SetupPage
  <2>2. ui.step = 3 /\ UNCHANGED <<net, srv>>
    BY <1>9 DEF Setup!DriverNext, Setup!Mounted
  <2>3. QED  BY <1>4, <2>1, <2>2
<1>10. CASE Setup!Test
  <2>1. /\ ui' \in SetupPage /\ ui'.submitting = ui.submitting
        /\ ui'.countdown = ui.countdown /\ ui'.accepted = ui.accepted
        /\ ui'.step = ui.step
    BY <1>1, <1>10 DEF Setup!Test, SetupPage
  <2>2. /\ net' \subseteq Setup!Request
        /\ \A c \in net' : IsInitialize(c) => c \in net
    BY <1>1, <1>3, <1>10, Asked DEF Setup!Test, IsInitialize
  <2>3. QED  BY <1>1, <1>10, <2>1, <2>2, SetupStep DEF Setup!Test
<1>11. CASE Setup!TestReturn
  <2>1. PICK c \in net :
            /\ net' = net \ {c} /\ srv' = srv
            /\ ui' = [ui EXCEPT !.testing = FALSE,
                                !.testOK = @ \/ c.reply = "ok"]
    BY <1>11 DEF Setup!TestReturn, Setup!Under
  <2>2. /\ ui' \in SetupPage /\ ui'.submitting = ui.submitting
        /\ ui'.countdown = ui.countdown /\ ui'.accepted = ui.accepted
        /\ ui'.step = ui.step
    BY <1>1, <2>1 DEF SetupPage
  <2>3. QED  BY <1>1, <2>1, <2>2, SetupStep
<1>12. CASE Setup!ConnectionNext
  <2>1. /\ ui' \in SetupPage /\ ui'.submitting = ui.submitting
        /\ ui'.countdown = ui.countdown /\ ui'.accepted = ui.accepted
        /\ ui'.step = 5
    BY <1>1, <1>12 DEF Setup!ConnectionNext, SetupPage
  <2>2. QED  BY <1>4, <1>12, <2>1 DEF Setup!ConnectionNext
<1>13. CASE Setup!Back
  <2>1. /\ ui.step > 1 /\ ui.step - 1 \in 1 .. 5
        /\ ui.step = 5 => ~ui.submitting
    BY <1>3, <1>13 DEF Setup!Back
  <2>2. /\ ui' \in SetupPage /\ ui'.submitting = ui.submitting
        /\ ui'.countdown = ui.countdown /\ ui'.accepted = ui.accepted
    BY <1>1, <1>3, <1>13, <2>1 DEF Setup!Back, SetupPage
  <2>3. /\ net' \subseteq Setup!Request
        /\ \A c \in net' : IsInitialize(c) => c \in net
    BY <1>1, <1>3, <1>13, Asked DEF Setup!Back, IsInitialize
  <2>4. QED  BY <1>1, <1>13, <2>1, <2>2, <2>3, SetupStep DEF Setup!Back
<1>14. CASE Setup!Submit
  <2>1. /\ ui.countdown = Setup!Idle /\ ui.step = 5 /\ ~ui.submitting
        /\ srv' = srv
    BY <1>14 DEF Setup!Submit, Setup!AdminForm, Setup!Mounted, Setup!Open
  <2>2. \A c \in net : ~IsInitialize(c)
    BY <1>2, <2>1
  <2>3. /\ ui' \in SetupPage /\ ui'.submitting /\ ui'.step = 5
        /\ ui'.countdown = Setup!Idle /\ ui'.accepted = ui.accepted
    BY <1>1, <1>14, <2>1 DEF Setup!Submit, SetupPage
  <2>4. Setup!Ask("initialize", ui.conn, ui.accepted)
    BY <1>14 DEF Setup!Submit
  <2>5. /\ net' \subseteq Setup!Request
        /\ \A c \in net' \ net : c.version = ui.accepted /\ c.reply = "none"
    BY <1>1, <1>3, <2>4, Asked
  <2>6. PICK r : net' = net \cup {r}
    BY <2>4 DEF Setup!Ask
  <2>7. Setup!TypeOK'
    BY <1>1, <2>1, <2>3, <2>5 DEF Setup!TypeOK, SetupPage, SetupServer
  <2>8. Setup!LeavesInitialized'
    BY <2>3 DEF Setup!LeavesInitialized, Setup!Idle
  <2>9. \A c \in net' : IsInitialize(c) => c = r /\ c \notin net
    BY <2>2, <2>6
  <2>10. QED
    BY <2>3, <2>5, <2>7, <2>8, <2>9 DEF SetupInv, IsInitialize, Setup!Idle
<1>15. CASE Setup!SubmitReturn
  <2>1. PICK c \in net :
            /\ IsInitialize(c) /\ net' = net \ {c} /\ srv' = srv
            /\ ui' = [ui EXCEPT !.submitting = FALSE,
                         !.countdown = IF c.reply = "ok" THEN Countdown ELSE @]
    BY <1>15 DEF Setup!SubmitReturn, Setup!Under, IsInitialize
  <2>2. \A d \in net' : ~IsInitialize(d)
    BY <1>2, <2>1
  <2>3. /\ ui' \in SetupPage /\ ui'.accepted = ui.accepted
        /\ ui'.countdown = IF c.reply = "ok" THEN Countdown ELSE ui.countdown
    <3> DEFINE left == IF c.reply = "ok" THEN Countdown ELSE ui.countdown
    <3>1. ui \in SetupPage
      BY <1>1
    <3>2. left \in 0 .. Countdown \cup {Countdown + 1}
      BY <3>1, SetupFacts DEF SetupPage
    <3>3. ui' = [ui EXCEPT !.submitting = FALSE, !.countdown = left]
      BY <2>1, <3>1 DEF SetupPage
    <3> HIDE DEF left
    <3>4. /\ ui' \in SetupPage /\ ui'.accepted = ui.accepted
          /\ ui'.countdown = left
      BY <3>1, <3>2, <3>3 DEF SetupPage
    <3>5. QED  BY <3>4 DEF left
  <2>4. Setup!TypeOK'
    BY <1>1, <2>1, <2>3 DEF Setup!TypeOK, SetupPage, SetupServer
  <2>5. Setup!LeavesInitialized'
    BY <1>2, <2>1, <2>3 DEF Setup!LeavesInitialized, Setup!Idle
  <2>6. QED  BY <2>2, <2>4, <2>5 DEF SetupInv, IsInitialize
<1>16. CASE Setup!Second
  <2>1. /\ ui.countdown \in 1 .. Countdown /\ UNCHANGED <<net, srv>>
        /\ ui' = [ui EXCEPT !.countdown = @ - 1]
    BY <1>16 DEF Setup!Second
  <2>2. /\ ui.countdown - 1 \in 0 .. Countdown
        /\ ui.countdown # Setup!Idle /\ ui.countdown - 1 # Setup!Idle
    BY <2>1, SetupFacts DEF Setup!Idle
  <2>3. /\ ui' \in SetupPage /\ ui'.accepted = ui.accepted
        /\ ui'.countdown = ui.countdown - 1
    BY <1>1, <2>1, <2>2 DEF SetupPage
  <2>4. Setup!TypeOK'
    BY <1>1, <2>1, <2>3 DEF Setup!TypeOK, SetupPage, SetupServer
  <2>5. Setup!LeavesInitialized' /\ \A c \in net : ~IsInitialize(c)
    BY <1>2, <2>1, <2>2, <2>3 DEF Setup!LeavesInitialized
  <2>6. QED  BY <2>1, <2>4, <2>5 DEF SetupInv, IsInitialize
<1>17. CASE Setup!CountdownEnds
  <2>1. /\ ui' \in SetupPage /\ ui'.submitting = ui.submitting
        /\ ui'.countdown = ui.countdown /\ ui'.accepted = ui.accepted
        /\ ui'.step = ui.step
    BY <1>1, <1>17 DEF Setup!CountdownEnds, SetupPage
  <2>2. QED  BY <1>4, <1>17, <2>1 DEF Setup!CountdownEnds
\* The server: a request is answered, and the server is what it was.
<1>18. ASSUME NEW c \in net, NEW reply \in Setup!Replies,
              Setup!Reply(c, reply), UNCHANGED <<ui, srv>>,
              IsInitialize(c) => reply # "ok"
       PROVE  SetupInv'
  <2>1. /\ net' \subseteq Setup!Request
        /\ \A d \in net' : \/ d \in net \ {c}
                           \/ /\ d.kind = c.kind /\ d.conn = c.conn
                              /\ d.version = c.version /\ d.reply = reply
    BY <1>1, <1>18, Replied
  <2>2. Setup!TypeOK'
    BY <1>1, <1>18, <2>1 DEF Setup!TypeOK, SetupPage, SetupServer
  <2>3. \A d \in net' : d \in net \/ d = [c EXCEPT !.reply = reply]
    BY <1>18 DEF Setup!Reply
  <2>4. \A d, e \in net' : IsInitialize(d) /\ IsInitialize(e) => d = e
    <3>1. CASE IsInitialize(c)
      BY <1>2, <1>18, <2>1, <3>1 DEF IsInitialize, Setup!Reply
    <3>2. CASE ~IsInitialize(c)
      BY <1>2, <2>1, <3>2 DEF IsInitialize
    <3>3. QED  BY <3>1, <3>2
  <2>5. \A d \in net' : IsInitialize(d) =>
            /\ ui.submitting /\ ui.step = 5 /\ ui.countdown = Setup!Idle
            /\ d.version = ui.accepted
            /\ d.reply = "ok" => /\ srv.env.conn \in srv.admins
                                 /\ srv.env.version = d.version
    BY <1>2, <1>18, <2>1 DEF IsInitialize
  <2>6. Setup!LeavesInitialized'
    BY <1>2, <1>18 DEF Setup!LeavesInitialized
  <2>7. QED
    BY <1>18, <2>2, <2>4, <2>5, <2>6 DEF SetupInv, IsInitialize, Setup!Idle
<1>19. ASSUME NEW c \in net, Setup!TestServe(c) PROVE SetupInv'
  <2>1. PICK reply \in Setup!Replies : Setup!Reply(c, reply)
    BY <1>19 DEF Setup!TestServe, Setup!Replies
  <2>2. QED  BY <1>18, <1>19, <2>1 DEF Setup!TestServe, IsInitialize
<1>20. ASSUME NEW c \in net, Setup!Lost(c) PROVE SetupInv'
  BY <1>18, <1>20 DEF Setup!Lost, Setup!Replies
<1>21. ASSUME NEW c \in net, Setup!InitializeServe(c) PROVE SetupInv'
  <2>1. /\ IsInitialize(c) /\ ui' = ui /\ c \in Setup!Request
        /\ ui.countdown = Setup!Idle
    BY <1>1, <1>2, <1>21 DEF Setup!InitializeServe, IsInitialize
  <2>2. CASE Setup!Reply(c, "failed") /\ srv' = srv
    BY <1>18, <2>1, <2>2 DEF Setup!Replies
  <2>3. ASSUME NEW reply \in {"ok", "failed"}, Setup!Reply(c, reply),
               srv' \in SetupServer,
               reply = "ok" => /\ srv'.env.conn \in srv'.admins
                               /\ srv'.env.version = c.version
        PROVE  SetupInv'
    <3>1. /\ net' \subseteq Setup!Request
          /\ \A d \in net' : \/ d \in net \ {c}
                             \/ /\ d.kind = c.kind /\ d.conn = c.conn
                                /\ d.version = c.version /\ d.reply = reply
      BY <1>1, <2>3, Replied DEF Setup!Replies
    <3>2. Setup!TypeOK'
      BY <1>1, <2>1, <2>3, <3>1 DEF Setup!TypeOK, SetupPage, SetupServer
    <3>3. \A d \in net' : IsInitialize(d) =>
              d = [c EXCEPT !.reply = reply] /\ d.reply = reply
              /\ d.version = c.version
      BY <1>2, <2>1, <2>3, <3>1 DEF Setup!Reply
    <3>4. Setup!LeavesInitialized'
      BY <2>1 DEF Setup!LeavesInitialized, Setup!Idle
    <3>5. /\ ui.submitting /\ ui.step = 5 /\ c.version = ui.accepted
      BY <1>2, <2>1
    <3>6. QED
      BY <2>1, <2>3, <3>2, <3>3, <3>4, <3>5
         DEF SetupInv, IsInitialize, Setup!Idle
  <2>4. CASE /\ Setup!Opens(c) /\ Setup!Reply(c, "failed")
             /\ srv' = [srv EXCEPT !.admins = @ \cup {c.conn}]
    <3>1. c.conn \in Conns
      BY <1>1, <2>4 DEF Setup!Opens, SetupServer
    <3>2. srv' \in SetupServer
      BY <1>1, <2>4, <3>1 DEF SetupServer
    <3>3. QED  BY <2>3, <2>4, <3>2
  <2>5. CASE /\ Setup!Opens(c) /\ Setup!Reply(c, "ok")
             /\ srv' = [srv EXCEPT !.admins = @ \cup {c.conn},
                           !.env = [conn |-> c.conn, version |-> c.version]]
    <3> DEFINE env == [conn |-> c.conn, version |-> c.version]
    <3>1. c.conn \in Conns /\ c.version \in Setup!Versions \cup {0}
      BY <1>1, <2>1, <2>5 DEF Setup!Opens, SetupServer, Setup!Request
    <3>2. /\ env \in [conn : Conns \cup {NoConn},
                      version : Setup!Versions \cup {0}]
          /\ env.conn = c.conn /\ env.version = c.version
      BY <3>1
    <3>3. srv' = [srv EXCEPT !.admins = @ \cup {c.conn}, !.env = env]
      BY <2>5
    <3> HIDE DEF env
    <3>4. /\ srv' \in SetupServer /\ srv'.env = env
          /\ srv'.admins = srv.admins \cup {c.conn}
      BY <1>1, <3>1, <3>2, <3>3 DEF SetupServer
    <3>5. QED  BY <2>3, <2>5, <3>2, <3>4
  <2>6. QED  BY <1>21, <2>2, <2>4, <2>5 DEF Setup!InitializeServe
<1>22. CASE Setup!Exit \/ Setup!Start
  <2>1. /\ srv' \in SetupServer /\ srv'.env = srv.env
        /\ srv'.admins = srv.admins /\ UNCHANGED <<ui, net>>
    BY <1>1, <1>22 DEF Setup!Exit, Setup!Start, SetupServer
  <2>2. QED  BY <1>1, <2>1, SetupStep
<1>23. CASE Setup!Meanwhile
  <2>1. CASE \E c \in Conns : srv' = [srv EXCEPT !.reach =
                 IF c \in @ THEN @ \ {c} ELSE @ \cup {c}]
    <3>1. /\ srv' \in SetupServer /\ srv'.env = srv.env
          /\ srv'.admins = srv.admins
      BY <1>1, <2>1 DEF SetupServer
    <3>2. QED  BY <1>1, <1>23, <3>1, SetupStep DEF Setup!Meanwhile
  <2>2. CASE srv.version < MaxVersion /\ srv' = [srv EXCEPT !.version = @ + 1]
    <3>1. srv.version + 1 \in Setup!Versions
      BY <1>1, <2>2, SetupFacts DEF SetupServer, Setup!Versions
    <3>2. /\ srv' \in SetupServer /\ srv'.env = srv.env
          /\ srv'.admins = srv.admins
      BY <1>1, <2>2, <3>1 DEF SetupServer
    <3>3. QED  BY <1>1, <1>23, <3>2, SetupStep DEF Setup!Meanwhile
  <2>3. QED  BY <1>23, <2>1, <2>2 DEF Setup!Meanwhile
<1>24. QED
  BY <1>5, <1>6, <1>7, <1>8, <1>9, <1>10, <1>11, <1>12, <1>13, <1>14, <1>15,
     <1>16, <1>17, <1>19, <1>20, <1>21, <1>22, <1>23 DEF Setup!Next

-----------------------------------------------------------------------------
(* WebEndpointDetails: an edit that is past its timer has no disconnect     *)
(* under way.                                                               *)

DetailsInv ==
    /\ Details!TypeOK /\ Details!EditReconnects
    /\ \A f \in DetailFlows :
          ui.flows[f].op \in {"edit", "key"} /\ ui.flows[f].pc \in {"connect", "done"}
          => [kind |-> "off", flow |-> f] \notin net

DetailsServer == [rev : 0 .. MaxRev, off : DetailFlows \cup {None},
                  gone : BOOLEAN]

LEMMA DetailsFacts ==
    None \notin DetailFlows /\ MaxRev \in Nat /\ 0 \in 0 .. MaxRev
BY PagesAssumption DEF Details!DetailsAssumption

LEMMA DetailsInit == Details!Init => DetailsInv
<1> SUFFICES ASSUME Details!Init PROVE DetailsInv
  OBVIOUS
<1>1. Details!NoFlow \in Details!Flow
  BY DEF Details!NoFlow, Details!Flow, Details!Ops
<1>2. ui \in Details!Page
  BY <1>1 DEF Details!Init, Details!Page, Details!Modals
<1>3. /\ net = {} /\ srv \in DetailsServer
      /\ \A f \in DetailFlows : ui.flows[f] = Details!NoFlow
  BY DetailsFacts DEF Details!Init, DetailsServer
<1>4. QED
  BY <1>2, <1>3 DEF DetailsInv, Details!TypeOK, Details!EditReconnects,
                    DetailsServer, Details!NoFlow

\* Steps that leave flows and goroutines alone, or connect the node.
LEMMA DetailsStep ==
    ASSUME DetailsInv, ui' \in Details!Page, ui'.flows = ui.flows,
           net' = net, srv' \in DetailsServer, srv'.off \in {srv.off, None}
    PROVE  DetailsInv'
BY DetailsFacts
   DEF DetailsInv, Details!TypeOK, Details!EditReconnects, DetailsServer

\* One flow goes on, to a step that leaves it connected.
LEMMA DetailsFlow ==
    ASSUME DetailsInv, NEW f \in DetailFlows, NEW flow \in Details!Flow,
           ui' \in Details!Page, ui'.flows = [ui.flows EXCEPT ![f] = flow],
           net' \subseteq Details!Goroutine, net \subseteq net',
           \A g \in net' \ net : g.flow = f,
           srv' \in DetailsServer, srv'.off \in {srv.off, None},
           flow.op \in {"edit", "key"} /\ flow.pc \in {"connect", "done"} =>
              [kind |-> "off", flow |-> f] \notin net',
           flow.op \in {"edit", "key"} /\ flow.pc = "done" =>
              [kind |-> "on", flow |-> f] \in net'
    PROVE  DetailsInv'
<1>1. /\ ui'.flows[f] = flow
      /\ \A g \in DetailFlows \ {f} : ui'.flows[g] = ui.flows[g]
  BY DEF DetailsInv, Details!TypeOK, Details!Page
<1>2. \A g \in DetailFlows \ {f}, kind \in {"off", "on"} :
          [kind |-> kind, flow |-> g] \in net'
          <=> [kind |-> kind, flow |-> g] \in net
  OBVIOUS
<1>3. Details!TypeOK'
  BY DEF Details!TypeOK, DetailsServer
<1>4. Details!EditReconnects'
  BY <1>1, <1>2, DetailsFacts DEF DetailsInv, Details!EditReconnects
<1>5. \A g \in DetailFlows :
          ui'.flows[g].op \in {"edit", "key"} /\ ui'.flows[g].pc \in {"connect", "done"}
          => [kind |-> "off", flow |-> g] \notin net'
  BY <1>1, <1>2 DEF DetailsInv
<1>6. QED  BY <1>3, <1>4, <1>5 DEF DetailsInv

LEMMA DetailsNext == DetailsInv /\ Details!Next => DetailsInv'
<1> SUFFICES ASSUME DetailsInv, Details!Next PROVE DetailsInv'
  OBVIOUS
<1>1. ui \in Details!Page /\ net \subseteq Details!Goroutine
      /\ srv \in DetailsServer
  BY DEF DetailsInv, Details!TypeOK, DetailsServer
<1>2. \A f \in DetailFlows :
          ui.flows[f].op \in {"edit", "key"} /\ ui.flows[f].pc \in {"connect", "done"}
          => [kind |-> "off", flow |-> f] \notin net
  BY DEF DetailsInv
<1>3. \A f \in DetailFlows : ui.flows[f] \in Details!Flow
  BY <1>1 DEF Details!Page
\* Steps of the page that start no flow.
<1>4. ASSUME ui' \in Details!Page, ui'.flows = ui.flows, UNCHANGED <<net, srv>>
      PROVE  DetailsInv'
  BY <1>1, <1>4, DetailsStep
<1>5. CASE Details!FetchDetail
  <2>1. srv.rev \in 0 .. MaxRev
    BY <1>1 DEF DetailsServer
  <2>2. ui' \in Details!Page /\ ui'.flows = ui.flows
    <3>1. CASE ui' = [ui EXCEPT !.loading = FALSE, !.shown = srv.rev,
                         !.status = IF Details!Connected THEN "on" ELSE "off"]
      BY <1>1, <2>1, <3>1 DEF Details!Page
    <3>2. CASE ui' = [ui EXCEPT !.loading = FALSE]
      BY <1>1, <3>2 DEF Details!Page
    <3>3. QED  BY <1>5, <3>1, <3>2 DEF Details!FetchDetail
  <2>3. QED  BY <1>4, <1>5, <2>2 DEF Details!FetchDetail
<1>6. CASE Details!RefreshAll \/ Details!OpenEdit \/ Details!OpenModal
           \/ Details!CloseModal \/ Details!Leave
  <2>1. ui' \in Details!Page /\ ui'.flows = ui.flows
    <3>1. CASE Details!RefreshAll
      BY <1>1, <3>1 DEF Details!RefreshAll, Details!Page
    <3>2. CASE Details!OpenEdit \/ Details!CloseModal \/ Details!Leave
      BY <1>1, <3>2 DEF Details!OpenEdit, Details!CloseModal, Details!Leave,
                        Details!Page, Details!Modals
    <3>3. CASE Details!OpenModal
      <4>1. PICK m \in {"key", "delete", "debug"} :
                ui' = [ui EXCEPT !.modal = m]
        BY <3>3 DEF Details!OpenModal
      <4>2. QED  BY <1>1, <4>1 DEF Details!Page, Details!Modals
    <3>4. QED  BY <1>6, <3>1, <3>2, <3>3
  <2>2. UNCHANGED <<net, srv>>
    BY <1>6 DEF Details!RefreshAll, Details!OpenEdit, Details!OpenModal,
                Details!CloseModal, Details!Leave
  <2>3. QED  BY <1>4, <2>1, <2>2
<1>7. CASE Details!DeleteEndpoint
  <2>1. ui' \in Details!Page /\ ui'.flows = ui.flows
    BY <1>1, <1>7 DEF Details!DeleteEndpoint, Details!Page, Details!Modals
  <2>2. srv' \in DetailsServer /\ srv'.off = srv.off /\ net' = net
    BY <1>1, <1>7 DEF Details!DeleteEndpoint, DetailsServer
  <2>3. QED  BY <2>1, <2>2, DetailsStep
\* Steps of a flow: the page, then the goroutines and the server.
<1>8. ASSUME NEW f \in DetailFlows, NEW flow \in Details!Flow,
             NEW loading \in BOOLEAN, NEW modal \in Details!Modals,
             ui' = [ui EXCEPT !.flows[f] = flow, !.loading = loading,
                              !.modal = modal]
      PROVE  /\ ui' \in Details!Page
             /\ ui'.flows = [ui.flows EXCEPT ![f] = flow]
  <2>1. [ui.flows EXCEPT ![f] = flow] \in [DetailFlows -> Details!Flow]
    BY <1>1 DEF Details!Page
  <2>2. ui' = [ui EXCEPT !.flows = [ui.flows EXCEPT ![f] = flow],
                         !.loading = loading, !.modal = modal]
    BY <1>1, <1>8 DEF Details!Page
  <2>3. QED  BY <1>1, <2>1, <2>2 DEF Details!Page
<1>9. ui.loading \in BOOLEAN /\ ui.modal \in Details!Modals
      /\ "none" \in Details!Modals
  BY <1>1 DEF Details!Page, Details!Modals
<1>10. ASSUME NEW f \in DetailFlows, NEW op \in Details!Ops,
              NEW pc \in {"disconnect", "write", "connect"},
              op \in {"edit", "key"} => pc # "connect",
              NEW modal \in Details!Modals,
              ui' = [ui EXCEPT !.flows[f] = [op |-> op, pc |-> pc],
                               !.modal = modal],
              UNCHANGED <<net, srv>>
       PROVE  DetailsInv'
  <2> DEFINE flow == [op |-> op, pc |-> pc]
  <2>1. flow \in Details!Flow /\ flow.op = op /\ flow.pc = pc
    BY DEF Details!Flow
  <2>2. ui' = [ui EXCEPT !.flows[f] = flow, !.loading = ui.loading,
                         !.modal = modal]
    BY <1>1, <1>10 DEF Details!Page
  <2> HIDE DEF flow
  <2>3. /\ ui' \in Details!Page
        /\ ui'.flows = [ui.flows EXCEPT ![f] = flow]
    BY <1>8, <1>9, <2>1, <2>2
  <2>4. /\ flow.pc # "done"
        /\ flow.op \in {"edit", "key"} => flow.pc # "connect"
    BY <1>10, <2>1
  <2>5. QED  BY <1>1, <1>10, <2>1, <2>3, <2>4, DetailsFlow
<1>11. ASSUME NEW f \in DetailFlows,
              Details!Disconnect(f) \/ Details!Connect(f)
                \/ Details!SubmitEdit(f)
       PROVE  DetailsInv'
  <2>1. PICK op \in Details!Ops, pc \in {"disconnect", "write", "connect"} :
            /\ op \in {"edit", "key"} => pc # "connect"
            /\ Details!Start(f, op, pc) /\ UNCHANGED <<net, srv>>
    BY <1>11 DEF Details!Disconnect, Details!Connect, Details!SubmitEdit,
                 Details!Ops
  <2>2. QED  BY <1>9, <1>10, <2>1 DEF Details!Start
<1>12. ASSUME NEW f \in DetailFlows, Details!ResetApiKey(f)
       PROVE  DetailsInv'
  <2>1. /\ ui' = [ui EXCEPT !.flows[f] = [op |-> "key", pc |-> "disconnect"],
                            !.modal = ui.modal]
        /\ UNCHANGED <<net, srv>>
    BY <1>1, <1>12 DEF Details!ResetApiKey, Details!Page
  <2>2. QED  BY <1>9, <1>10, <2>1 DEF Details!Ops
\* A flow comes to its next step.
<1>13. ASSUME NEW f \in DetailFlows,
              NEW pc \in {"write", "wait", "connect", "done", "failed"},
              NEW loading \in BOOLEAN, NEW modal \in Details!Modals,
              ui' = [ui EXCEPT !.flows[f].pc = pc, !.loading = loading,
                               !.modal = modal],
              net' \subseteq Details!Goroutine, net \subseteq net',
              \A g \in net' \ net : g.flow = f,
              srv' \in DetailsServer, srv'.off \in {srv.off, None},
              ui.flows[f].op \in {"edit", "key"} /\ pc \in {"connect", "done"}
              => /\ [kind |-> "off", flow |-> f] \notin net'
                 /\ pc = "done" => [kind |-> "on", flow |-> f] \in net'
       PROVE  DetailsInv'
  <2> DEFINE flow == [ui.flows[f] EXCEPT !.pc = pc]
  <2>1. /\ flow \in Details!Flow /\ flow.op = ui.flows[f].op
        /\ flow.pc = pc
    BY <1>3 DEF Details!Flow
  <2>2. ui' = [ui EXCEPT !.flows[f] = flow, !.loading = loading,
                         !.modal = modal]
    BY <1>13
  <2> HIDE DEF flow
  <2>3. /\ ui' \in Details!Page
        /\ ui'.flows = [ui.flows EXCEPT ![f] = flow]
    BY <1>8, <2>1, <2>2
  <2>4. QED  BY <1>13, <2>1, <2>3, DetailsFlow
<1>14. \A f \in DetailFlows : \A pc :
          /\ Details!Goes(f, pc) =>
                ui' = [ui EXCEPT !.flows[f].pc = pc, !.loading = ui.loading,
                                 !.modal = ui.modal]
          /\ Details!Ends(f, pc) =>
                ui' = [ui EXCEPT !.flows[f].pc = pc, !.loading = TRUE,
                                 !.modal = ui.modal]
  BY <1>1 DEF Details!Goes, Details!Ends, Details!Page
<1>15. ASSUME NEW f \in DetailFlows, NEW kind \in {"off", "on"},
              Details!Go(kind, f)
       PROVE  /\ net' \subseteq Details!Goroutine /\ net \subseteq net'
              /\ \A g \in net' \ net : g.flow = f
              /\ [kind |-> kind, flow |-> f] \in net'
              /\ kind = "on" => \A h \in DetailFlows :
                    [kind |-> "off", flow |-> h] \in net'
                    => [kind |-> "off", flow |-> h] \in net
  <2>1. [kind |-> kind, flow |-> f] \in Details!Goroutine
    BY DEF Details!Goroutine
  <2>2. QED  BY <1>1, <1>15, <2>1 DEF Details!Go
<1>16. ASSUME NEW f \in DetailFlows, Details!Disconnecting(f)
       PROVE  DetailsInv'
  <2>1. /\ net' \subseteq Details!Goroutine /\ net \subseteq net'
        /\ \A g \in net' \ net : g.flow = f
        /\ srv' = srv
    BY <1>1, <1>15, <1>16 DEF Details!Disconnecting
  <2>2. CASE Details!Goes(f, "write")
    <3>1. ui' = [ui EXCEPT !.flows[f].pc = "write", !.loading = ui.loading,
                           !.modal = ui.modal]
      BY <1>14, <2>2
    <3>2. srv' \in DetailsServer /\ srv'.off \in {srv.off, None}
      BY <1>1, <2>1
    <3>3. QED  BY <1>9, <1>13, <2>1, <3>1, <3>2
  <2>3. CASE ui.flows[f].op = "disconnect" /\ Details!Ends(f, "done")
    <3>1. ui' = [ui EXCEPT !.flows[f].pc = "done", !.loading = TRUE,
                           !.modal = ui.modal]
      BY <1>14, <2>3
    <3>2. srv' \in DetailsServer /\ srv'.off \in {srv.off, None}
      BY <1>1, <2>1
    <3>3. QED  BY <1>9, <1>13, <2>1, <2>3, <3>1, <3>2
  <2>4. QED  BY <1>16, <2>2, <2>3 DEF Details!Disconnecting
<1>17. ASSUME NEW f \in DetailFlows, Details!Write(f) PROVE DetailsInv'
  <2>1. CASE Details!Goes(f, "failed") /\ UNCHANGED <<net, srv>>
    <3>1. ui' = [ui EXCEPT !.flows[f].pc = "failed", !.loading = ui.loading,
                           !.modal = ui.modal]
      BY <1>14, <2>1
    <3>2. /\ net' \subseteq Details!Goroutine /\ net' = net
          /\ srv' \in DetailsServer /\ srv'.off \in {srv.off, None}
      BY <1>1, <2>1
    <3>3. QED  BY <1>9, <1>13, <3>1, <3>2
  <2>2. CASE /\ srv.rev < MaxRev /\ net' = net
             /\ srv' = [srv EXCEPT !.rev = @ + 1,
                           !.off = IF ui.flows[f].op = "key" THEN @ ELSE None]
             /\ ui' = [ui EXCEPT !.flows[f].pc =
                           IF ui.flows[f].op = "name" THEN "done" ELSE "wait",
                          !.loading = TRUE,
                          !.modal = IF @ = "key" THEN "none" ELSE @]
    <3> DEFINE pc == IF ui.flows[f].op = "name" THEN "done" ELSE "wait"
               modal == IF ui.modal = "key" THEN "none" ELSE ui.modal
               off == IF ui.flows[f].op = "key" THEN srv.off ELSE None
    <3>1. /\ pc \in {"wait", "done"} /\ modal \in Details!Modals
          /\ pc = "done" => ui.flows[f].op = "name"
          /\ off \in {srv.off, None}
      BY <1>9
    <3>2. ui' = [ui EXCEPT !.flows[f].pc = pc, !.loading = TRUE,
                           !.modal = modal]
      BY <1>1, <2>2 DEF Details!Page
    <3>3. srv.rev + 1 \in 0 .. MaxRev
      BY <1>1, <2>2, DetailsFacts DEF DetailsServer
    <3>4. srv' = [srv EXCEPT !.rev = srv.rev + 1, !.off = off]
      BY <1>1, <2>2 DEF DetailsServer
    <3> HIDE DEF pc, modal, off
    <3>5. srv' \in DetailsServer /\ srv'.off = off
      BY <1>1, <3>1, <3>3, <3>4 DEF DetailsServer
    <3>6. /\ net' \subseteq Details!Goroutine /\ net' = net
          /\ pc \in {"write", "wait", "connect", "done", "failed"}
          /\ ui.flows[f].op \in {"edit", "key"} => pc \notin {"connect", "done"}
      BY <1>1, <2>2, <3>1
    <3>7. QED  BY <1>13, <3>1, <3>2, <3>5, <3>6
  <2>3. QED  BY <1>17, <2>1, <2>2 DEF Details!Write
<1>18. ASSUME NEW f \in DetailFlows, Details!Wait(f) PROVE DetailsInv'
  <2>1. /\ [kind |-> "off", flow |-> f] \notin net
        /\ Details!Goes(f, "connect") /\ net' = net /\ srv' = srv
    BY <1>18 DEF Details!Wait
  <2>2. ui' = [ui EXCEPT !.flows[f].pc = "connect", !.loading = ui.loading,
                         !.modal = ui.modal]
    BY <1>14, <2>1
  <2>3. /\ net' \subseteq Details!Goroutine
        /\ srv' \in DetailsServer /\ srv'.off \in {srv.off, None}
    BY <1>1, <2>1
  <2>4. QED  BY <1>9, <1>13, <2>1, <2>2, <2>3
<1>19. ASSUME NEW f \in DetailFlows, Details!Connecting(f) PROVE DetailsInv'
  <2>1. CASE Details!Goes(f, "failed") /\ UNCHANGED <<net, srv>>
    <3>1. ui' = [ui EXCEPT !.flows[f].pc = "failed", !.loading = ui.loading,
                           !.modal = ui.modal]
      BY <1>14, <2>1
    <3>2. /\ net' \subseteq Details!Goroutine /\ net' = net
          /\ srv' \in DetailsServer /\ srv'.off \in {srv.off, None}
      BY <1>1, <2>1
    <3>3. QED  BY <1>9, <1>13, <3>1, <3>2
  <2>2. CASE Details!Go("on", f) /\ Details!Ends(f, "done") /\ srv' = srv
    <3>1. ui.flows[f].pc = "connect"
      BY <1>19 DEF Details!Connecting
    <3>2. ui.flows[f].op \in {"edit", "key"} =>
              /\ [kind |-> "off", flow |-> f] \notin net'
              /\ [kind |-> "on", flow |-> f] \in net'
      BY <1>2, <1>15, <2>2, <3>1
    <3>3. /\ net' \subseteq Details!Goroutine /\ net \subseteq net'
          /\ \A g \in net' \ net : g.flow = f
      BY <1>15, <2>2
    <3>4. ui' = [ui EXCEPT !.flows[f].pc = "done", !.loading = TRUE,
                           !.modal = ui.modal]
      BY <1>14, <2>2
    <3>5. srv' \in DetailsServer /\ srv'.off \in {srv.off, None}
      BY <1>1, <2>2
    <3>6. QED  BY <1>9, <1>13, <3>2, <3>3, <3>4, <3>5
  <2>3. QED  BY <1>19, <2>1, <2>2 DEF Details!Connecting
<1>20. ASSUME NEW g \in net, Details!Run(g) PROVE DetailsInv'
  <2>1. /\ net' = net \ {g} /\ ui' = ui
        /\ srv' = [srv EXCEPT !.off = IF g.kind = "off" THEN g.flow ELSE None]
    BY <1>20 DEF Details!Run
  <2>2. g \in Details!Goroutine
    BY <1>1
  <2>3. /\ srv' \in DetailsServer
        /\ srv'.off = IF g.kind = "off" THEN g.flow ELSE None
    BY <1>1, <2>1, <2>2 DEF DetailsServer, Details!Goroutine
  <2>4. /\ g = [kind |-> g.kind, flow |-> g.flow]
        /\ g.kind \in {"off", "on"} /\ g.flow \in DetailFlows
    BY <2>2 DEF Details!Goroutine
  <2>5. ASSUME NEW f \in DetailFlows,
               ui.flows[f].op \in {"edit", "key"}, ui.flows[f].pc = "done",
               [kind |-> "on", flow |-> f] \notin net'
        PROVE  srv'.off # f
    <3>1. CASE g.kind = "off"
      BY <1>2, <2>3, <2>4, <2>5, <3>1
    <3>2. CASE g.kind = "on"
      BY <2>3, <3>2, DetailsFacts
    <3>3. QED  BY <2>4, <3>1, <3>2
  <2>6. Details!TypeOK'
    BY <1>1, <2>1, <2>3 DEF Details!TypeOK, DetailsServer
  <2>7. QED
    BY <1>2, <2>1, <2>5, <2>6 DEF DetailsInv, Details!EditReconnects
<1>21. QED
  BY <1>5, <1>6, <1>7, <1>11, <1>12, <1>16, <1>17, <1>18, <1>19, <1>20
     DEF Details!Next

-----------------------------------------------------------------------------
(* WebNodes: a flow's disconnect is of the flow's node, and over before the *)
(* flow connects it again.                                                  *)

NodesFlowOK(f, flow, goroutines, off) ==
    /\ flow.pc \in {"idle", "disconnect", "rewrite", "connect", "done"}
       => <<"off", f>> \notin goroutines
    /\ flow.pc \in {"idle", "disconnect", "rewrite", "done"}
       => \A n \in Nodes : off[n] # f
    /\ \A n \in Nodes : off[n] = f => n = flow.node

NodesInv ==
    /\ NodeList!TypeOK
    /\ \A g \in net.goroutines : g[1] = "off"
    /\ \A f \in ListFlows :
          NodesFlowOK(f, ui.flows[f], net.goroutines, srv.off)

NodesNet == [lists : SUBSET (SUBSET Nodes),
             goroutines : SUBSET ({"off", "on"} \X ListFlows)]
NodesServer == [nodes : SUBSET Nodes,
                off : [Nodes -> ListFlows \cup {None, User}]]

LEMMA NodesFacts ==
    /\ None \notin Nodes /\ None \notin ListFlows /\ User \notin ListFlows
    /\ NodeList!TypeOK <=>
          ui \in NodeList!Page /\ net \in NodesNet /\ srv \in NodesServer
BY PagesAssumption
   DEF NodeList!NodesAssumption, NodeList!TypeOK, NodesNet, NodesServer

LEMMA NodesNoFlow ==
    \A node \in Nodes \cup {None}, pc \in {"idle", "disconnect", "rewrite"} :
       [node |-> node, pc |-> pc] \in NodeList!Flow
BY DEF NodeList!Flow

LEMMA NodesInit == NodeList!Init => NodesInv
<1> SUFFICES ASSUME NodeList!Init PROVE NodesInv
  OBVIOUS
<1>1. [f \in ListFlows |-> [node |-> None, pc |-> "idle"]]
      \in [ListFlows -> NodeList!Flow]
  BY NodesNoFlow
<1>2. ui \in NodeList!Page
  BY <1>1 DEF NodeList!Init, NodeList!Page, NodeList!Modals
<1>3. net \in NodesNet /\ net.goroutines = {}
  BY DEF NodeList!Init, NodesNet
<1>4. srv \in NodesServer /\ \A n \in Nodes : srv.off[n] = None
  BY DEF NodeList!Init, NodesServer
<1>5. \A f \in ListFlows :
          NodesFlowOK(f, ui.flows[f], net.goroutines, srv.off)
  BY <1>3, <1>4, NodesFacts DEF NodesFlowOK
<1>6. QED  BY <1>2, <1>3, <1>4, <1>5, NodesFacts DEF NodesInv

\* Steps that leave flows and goroutines alone.
LEMMA NodesStep ==
    ASSUME NodesInv, ui' \in NodeList!Page, ui'.flows = ui.flows,
           net' \in NodesNet, net'.goroutines = net.goroutines,
           srv' \in NodesServer,
           \A n \in Nodes : srv'.off[n] \in {srv.off[n], None, User}
    PROVE  NodesInv'
<1>1. NodeList!TypeOK'
  BY DEF NodeList!TypeOK, NodesNet, NodesServer
<1>2. ASSUME NEW f \in ListFlows
      PROVE  NodesFlowOK(f, ui'.flows[f], net'.goroutines, srv'.off)
  <2>1. \A n \in Nodes : srv'.off[n] = f => srv.off[n] = f
    BY NodesFacts
  <2>2. QED  BY <2>1 DEF NodesInv, NodesFlowOK
<1>3. QED  BY <1>1, <1>2 DEF NodesInv

\* One flow goes on.
LEMMA NodesFlow ==
    ASSUME NodesInv, NEW f \in ListFlows, NEW flow \in NodeList!Flow,
           ui' \in NodeList!Page, ui'.flows = [ui.flows EXCEPT ![f] = flow],
           net' \in NodesNet,
           net'.goroutines \in {net.goroutines,
                                net.goroutines \cup {<<"off", f>>}},
           srv' \in NodesServer,
           \A n \in Nodes : srv'.off[n] \in {srv.off[n], None},
           NodesFlowOK(f, flow, net'.goroutines, srv'.off)
    PROVE  NodesInv'
<1>1. NodeList!TypeOK'
  BY DEF NodeList!TypeOK, NodesNet, NodesServer
<1>2. \A g \in net'.goroutines : g[1] = "off"
  BY DEF NodesInv
<1>3. ui'.flows[f] = flow /\ \A g \in ListFlows \ {f} : ui'.flows[g] = ui.flows[g]
  BY NodesFacts DEF NodesInv, NodeList!Page
<1>4. ASSUME NEW g \in ListFlows \ {f}
      PROVE  NodesFlowOK(g, ui'.flows[g], net'.goroutines, srv'.off)
  <2>1. \A n \in Nodes : srv'.off[n] = g => srv.off[n] = g
    BY NodesFacts
  <2>2. <<"off", g>> \in net'.goroutines => <<"off", g>> \in net.goroutines
    OBVIOUS
  <2>3. NodesFlowOK(g, ui.flows[g], net.goroutines, srv.off)
    BY DEF NodesInv
  <2>4. QED  BY <1>3, <2>1, <2>2, <2>3 DEF NodesFlowOK
<1>5. QED  BY <1>1, <1>2, <1>3, <1>4 DEF NodesInv

\* The page of a flow that goes on.
LEMMA NodesPage ==
    ASSUME ui \in NodeList!Page, NEW f \in ListFlows,
           NEW flow \in NodeList!Flow,
           NEW loading \in BOOLEAN, NEW modal \in NodeList!Modals,
           ui' = [ui EXCEPT !.flows[f] = flow, !.loading = loading,
                            !.modal = modal]
    PROVE  /\ ui' \in NodeList!Page
           /\ ui'.flows = [ui.flows EXCEPT ![f] = flow]
<1>1. [ui.flows EXCEPT ![f] = flow] \in [ListFlows -> NodeList!Flow]
  BY DEF NodeList!Page
<1>2. ui' = [ui EXCEPT !.flows = [ui.flows EXCEPT ![f] = flow],
                       !.loading = loading, !.modal = modal]
  BY DEF NodeList!Page
<1>3. QED  BY <1>1, <1>2 DEF NodeList!Page

LEMMA NodesFetching ==
    ASSUME net \in NodesNet, srv \in NodesServer, net' = NodeList!Fetching
    PROVE  net' \in NodesNet /\ net'.goroutines = net.goroutines
<1>1. net' = [net EXCEPT !.lists = net.lists \cup {srv.nodes}]
  BY DEF NodeList!Fetching, NodesNet
<1>2. net.lists \cup {srv.nodes} \in SUBSET (SUBSET Nodes)
  BY DEF NodesNet, NodesServer
<1>3. QED  BY <1>1, <1>2 DEF NodesNet

\* The server connects a node, or the user disconnects one.
LEMMA NodesTurned ==
    ASSUME srv \in NodesServer, NEW n, NEW who \in {None, User},
           srv' = [srv EXCEPT !.off[n] = who]
    PROVE  /\ srv' \in NodesServer
           /\ \A m \in Nodes : srv'.off[m] \in {srv.off[m], who}
           /\ n \in Nodes => srv'.off[n] = who
<1>1. [srv.off EXCEPT ![n] = who] \in [Nodes -> ListFlows \cup {None, User}]
  BY DEF NodesServer
<1>2. srv' = [srv EXCEPT !.off = [srv.off EXCEPT ![n] = who]]
  BY DEF NodesServer
<1>3. QED  BY <1>1, <1>2 DEF NodesServer

LEMMA NodesNext == NodesInv /\ NodeList!Next => NodesInv'
<1> SUFFICES ASSUME NodesInv, NodeList!Next PROVE NodesInv'
  OBVIOUS
<1>1. ui \in NodeList!Page /\ net \in NodesNet /\ srv \in NodesServer
  BY NodesFacts DEF NodesInv
<1>2. /\ ui.loading \in BOOLEAN /\ ui.modal \in NodeList!Modals
      /\ "none" \in NodeList!Modals
      /\ ui.flows \in [ListFlows -> NodeList!Flow]
      /\ ui.sel \in Nodes \cup {None}
  BY <1>1 DEF NodeList!Page, NodeList!Modals
\* Steps of the page.
<1>3. CASE NodeList!Fetch
  <2>1. ui' \in NodeList!Page /\ ui'.flows = ui.flows
    BY <1>1, <1>3 DEF NodeList!Fetch, NodeList!Page
  <2>2. net' = NodeList!Fetching /\ srv' = srv
    BY <1>3 DEF NodeList!Fetch
  <2>3. QED  BY <1>1, <2>1, <2>2, NodesFetching, NodesStep
<1>4. ASSUME NEW l \in net.lists, NodeList!ListReturns(l) PROVE NodesInv'
  <2>1. l \in SUBSET Nodes
    BY <1>1 DEF NodesNet
  <2>2. ui' \in NodeList!Page /\ ui'.flows = ui.flows
    BY <1>1, <1>4, <2>1 DEF NodeList!ListReturns, NodeList!Page
  <2>3. net' \in NodesNet /\ net'.goroutines = net.goroutines
    BY <1>1, <1>4 DEF NodeList!ListReturns, NodesNet
  <2>4. srv' = srv
    BY <1>4 DEF NodeList!ListReturns
  <2>5. QED  BY <1>1, <2>2, <2>3, <2>4, NodesStep
<1>5. CASE NodeList!CloseModal \/ NodeList!AddTunnel
  <2>1. ui' = [ui EXCEPT !.modal = "none"] /\ net' = net /\ srv' = srv
    BY <1>5 DEF NodeList!CloseModal, NodeList!AddTunnel
  <2>2. ui' \in NodeList!Page /\ ui'.flows = ui.flows
    BY <1>1, <1>2, <2>1 DEF NodeList!Page
  <2>3. QED  BY <1>1, <2>1, <2>2, NodesStep
<1>6. ASSUME NEW n \in Nodes, NEW m \in NodeList!Modals \ {"none"},
             NodeList!OpenModal(n, m)
      PROVE  NodesInv'
  <2>1. ui' = [ui EXCEPT !.modal = m, !.sel = n] /\ net' = net /\ srv' = srv
    BY <1>6 DEF NodeList!OpenModal
  <2>2. ui' \in NodeList!Page /\ ui'.flows = ui.flows
    BY <1>1, <2>1 DEF NodeList!Page
  <2>3. QED  BY <1>1, <2>1, <2>2, NodesStep
\* Steps that also turn a node.
<1>7. ASSUME NEW modal \in NodeList!Modals,
             ui' = [ui EXCEPT !.modal = modal, !.loading = TRUE]
      PROVE  ui' \in NodeList!Page /\ ui'.flows = ui.flows
  BY <1>1, <1>7 DEF NodeList!Page
<1>8. CASE \/ NodeList!Rename
           \/ \E n \in Nodes : NodeList!Connect(n) \/ NodeList!Disconnect(n)
  <2>1. PICK n \in Nodes \cup {None}, who \in {None, User} :
            /\ srv' = [srv EXCEPT !.off[n] = who]
            /\ net' = NodeList!Fetching
    BY <1>2, <1>8 DEF NodeList!Rename, NodeList!Connect, NodeList!Disconnect
  <2>2. PICK modal \in NodeList!Modals :
            ui' = [ui EXCEPT !.modal = modal, !.loading = TRUE]
    <3>1. CASE NodeList!Rename
      BY <1>2, <3>1 DEF NodeList!Rename
    <3>2. CASE \E m \in Nodes : NodeList!Connect(m) \/ NodeList!Disconnect(m)
      <4>1. ui' = [ui EXCEPT !.loading = TRUE]
        BY <3>2 DEF NodeList!Connect, NodeList!Disconnect
      <4>2. ui' = [ui EXCEPT !.modal = ui.modal, !.loading = TRUE]
        BY <1>1, <4>1 DEF NodeList!Page
      <4>3. QED  BY <1>2, <4>2
    <3>3. QED  BY <1>8, <3>1, <3>2
  <2>3. ui' \in NodeList!Page /\ ui'.flows = ui.flows
    BY <1>7, <2>2
  <2>4. net' \in NodesNet /\ net'.goroutines = net.goroutines
    BY <1>1, <2>1, NodesFetching
  <2>5. /\ srv' \in NodesServer
        /\ \A m \in Nodes : srv'.off[m] \in {srv.off[m], None, User}
    BY <1>1, <2>1, NodesTurned
  <2>6. QED  BY <2>3, <2>4, <2>5, NodesStep
<1>9. CASE NodeList!Delete
  <2>1. ui' \in NodeList!Page /\ ui'.flows = ui.flows
    BY <1>2, <1>7, <1>9 DEF NodeList!Delete
  <2>2. srv' \in NodesServer /\ srv'.off = srv.off
    BY <1>1, <1>9 DEF NodeList!Delete, NodesServer
  <2>3. net.lists \cup {srv'.nodes} \in SUBSET (SUBSET Nodes)
    BY <1>1, <2>2 DEF NodesNet, NodesServer
  <2>4. net' = [net EXCEPT !.lists = net.lists \cup {srv'.nodes}]
    BY <1>1, <1>9 DEF NodeList!Delete, NodesNet
  <2>5. net' \in NodesNet /\ net'.goroutines = net.goroutines
    BY <1>1, <2>3, <2>4 DEF NodesNet
  <2>6. QED  BY <2>1, <2>2, <2>5, NodesStep
\* Leaving cuts the flows that wait.
<1>10. CASE NodeList!Leave
  <2> DEFINE cut == [f \in ListFlows |->
                       IF ui.flows[f].pc = "wait"
                       THEN [ui.flows[f] EXCEPT !.pc = "cut"] ELSE ui.flows[f]]
  <2>1. \A f \in ListFlows :
            /\ cut[f] \in NodeList!Flow
            /\ \/ cut[f] = ui.flows[f]
               \/ cut[f].pc = "cut" /\ cut[f].node = ui.flows[f].node
    BY <1>2 DEF NodeList!Flow
  <2>2. cut \in [ListFlows -> NodeList!Flow]
    BY <2>1
  <2>3. ui' = [ui EXCEPT !.here = FALSE, !.modal = "none", !.flows = cut]
    BY <1>1, <1>10 DEF NodeList!Leave, NodeList!Page
  <2>4. net' = net /\ srv' = srv
    BY <1>10 DEF NodeList!Leave
  <2> HIDE DEF cut
  <2>5. ui' \in NodeList!Page /\ ui'.flows = cut
    BY <1>1, <1>2, <2>2, <2>3 DEF NodeList!Page
  <2>6. ASSUME NEW f \in ListFlows
        PROVE  NodesFlowOK(f, cut[f], net.goroutines, srv.off)
    <3>1. NodesFlowOK(f, ui.flows[f], net.goroutines, srv.off)
      BY DEF NodesInv
    <3>2. CASE cut[f] = ui.flows[f]
      BY <3>1, <3>2
    <3>3. CASE cut[f].pc = "cut" /\ cut[f].node = ui.flows[f].node
      BY <3>1, <3>3 DEF NodesFlowOK
    <3>4. QED  BY <2>1, <3>2, <3>3
  <2>7. NodeList!TypeOK'
    BY <1>1, <2>4, <2>5 DEF NodeList!TypeOK, NodesNet, NodesServer
  <2>8. QED  BY <2>4, <2>5, <2>6, <2>7 DEF NodesInv
\* A flow is begun.
<1>11. ASSUME NEW f \in ListFlows, ui.flows[f].pc = "idle",
              NEW modal \in NodeList!Modals,
              NEW pc \in {"disconnect", "rewrite"},
              ui' = [ui EXCEPT !.modal = modal,
                               !.flows[f] = [node |-> ui.sel, pc |-> pc]],
              net' = net, srv' = srv
       PROVE  NodesInv'
  <2> DEFINE flow == [node |-> ui.sel, pc |-> pc]
  <2>1. flow \in NodeList!Flow /\ flow.pc = pc
    BY <1>2, NodesNoFlow
  <2>2. ui' = [ui EXCEPT !.flows[f] = flow, !.loading = ui.loading,
                         !.modal = modal]
    BY <1>1, <1>11 DEF NodeList!Page
  <2> HIDE DEF flow
  <2>3. /\ ui' \in NodeList!Page
        /\ ui'.flows = [ui.flows EXCEPT ![f] = flow]
    BY <1>1, <1>2, <2>1, <2>2, NodesPage
  <2>4. NodesFlowOK(f, flow, net'.goroutines, srv'.off)
    BY <1>11, <2>1 DEF NodesInv, NodesFlowOK
  <2>5. QED  BY <1>1, <1>11, <2>1, <2>3, <2>4, NodesFlow
<1>12. ASSUME NEW f \in ListFlows, NodeList!EditKey(f) PROVE NodesInv'
  <2>1. /\ ui.flows[f].pc = "idle" /\ net' = net /\ srv' = srv
        /\ ui' = [ui EXCEPT !.flows[f] = [node |-> ui.sel, pc |-> "disconnect"]]
    BY <1>12 DEF NodeList!EditKey
  <2>2. ui' = [ui EXCEPT !.modal = ui.modal,
                  !.flows[f] = [node |-> ui.sel, pc |-> "disconnect"]]
    BY <1>1, <2>1 DEF NodeList!Page
  <2>3. QED  BY <1>2, <1>11, <2>1, <2>2
<1>13. ASSUME NEW f \in ListFlows, NodeList!EditConfig(f) PROVE NodesInv'
  BY <1>2, <1>11, <1>13 DEF NodeList!EditConfig
\* A flow comes to its next step.
<1>14. ASSUME NEW f \in ListFlows,
              NEW pc \in {"write", "wait", "connect", "done", "failed", "cut"},
              NEW loading \in BOOLEAN, NEW modal \in NodeList!Modals,
              ui' = [ui EXCEPT !.flows[f].pc = pc, !.loading = loading,
                               !.modal = modal],
              net' \in NodesNet,
              net'.goroutines \in {net.goroutines,
                                   net.goroutines \cup {<<"off", f>>}},
              srv' \in NodesServer,
              \A n \in Nodes : srv'.off[n] \in {srv.off[n], None},
              pc \in {"connect", "done"}
              => <<"off", f>> \notin net'.goroutines,
              pc = "done" => \A n \in Nodes : srv'.off[n] # f
       PROVE  NodesInv'
  <2> DEFINE flow == [ui.flows[f] EXCEPT !.pc = pc]
  <2>1. /\ flow \in NodeList!Flow /\ flow.node = ui.flows[f].node
        /\ flow.pc = pc
    BY <1>2 DEF NodeList!Flow
  <2>2. ui' = [ui EXCEPT !.flows[f] = flow, !.loading = loading,
                         !.modal = modal]
    BY <1>14
  <2> HIDE DEF flow
  <2>3. /\ ui' \in NodeList!Page
        /\ ui'.flows = [ui.flows EXCEPT ![f] = flow]
    BY <1>1, <2>1, <2>2, NodesPage
  <2>4. \A n \in Nodes : srv'.off[n] = f => n = flow.node
    BY <1>14, <2>1, NodesFacts DEF NodesInv, NodesFlowOK
  <2>5. NodesFlowOK(f, flow, net'.goroutines, srv'.off)
    BY <1>14, <2>1, <2>4 DEF NodesFlowOK
  <2>6. QED  BY <1>14, <2>1, <2>3, <2>5, NodesFlow
<1>15. \A f \in ListFlows : \A pc :
          NodeList!Goes(f, pc) =>
             ui' = [ui EXCEPT !.flows[f].pc = pc, !.loading = ui.loading,
                              !.modal = ui.modal]
  BY <1>1 DEF NodeList!Goes, NodeList!Page
<1>16. ASSUME NEW f \in ListFlows, NodeList!Disconnecting(f)
       PROVE  NodesInv'
  <2>1. ui' = [ui EXCEPT !.flows[f].pc = "write", !.loading = ui.loading,
                         !.modal = ui.modal]
    BY <1>15, <1>16 DEF NodeList!Disconnecting
  <2>2. <<"off", f>> \in {"off", "on"} \X ListFlows
    OBVIOUS
  <2>3. /\ net' \in NodesNet
        /\ net'.goroutines \in {net.goroutines,
                                net.goroutines \cup {<<"off", f>>}}
    <3>1. CASE net' = net
      BY <1>1, <3>1
    <3>2. CASE net' = [net EXCEPT !.goroutines = @ \cup {<<"off", f>>}]
      <4> DEFINE gs == net.goroutines \cup {<<"off", f>>}
      <4>1. gs \in SUBSET ({"off", "on"} \X ListFlows)
        BY <1>1, <2>2 DEF NodesNet
      <4>2. net' = [net EXCEPT !.goroutines = gs]
        BY <1>1, <3>2 DEF NodesNet
      <4> HIDE DEF gs
      <4>3. net' \in NodesNet /\ net'.goroutines = gs
        BY <1>1, <4>1, <4>2 DEF NodesNet
      <4>4. QED  BY <4>3 DEF gs
    <3>3. QED  BY <1>16, <3>1, <3>2 DEF NodeList!Disconnecting
  <2>4. srv' = srv
    BY <1>16 DEF NodeList!Disconnecting
  <2>5. QED  BY <1>1, <1>2, <1>14, <2>1, <2>3, <2>4
<1>17. ASSUME NEW f \in ListFlows, NodeList!Goes(f, "failed"),
              net' = net, srv' = srv
       PROVE  NodesInv'
  <2>1. ui' = [ui EXCEPT !.flows[f].pc = "failed", !.loading = ui.loading,
                         !.modal = ui.modal]
    BY <1>15, <1>17
  <2>2. QED  BY <1>1, <1>2, <1>14, <1>17, <2>1
<1>18. ASSUME NEW f \in ListFlows, NodeList!Write(f) PROVE NodesInv'
  <2>1. CASE NodeList!Goes(f, "failed") /\ UNCHANGED <<net, srv>>
    BY <1>17, <2>1
  <2>2. CASE ~(NodeList!Goes(f, "failed") /\ UNCHANGED <<net, srv>>)
    <3> DEFINE n == ui.flows[f].node
               pc == CASE ui.flows[f].pc = "rewrite" -> "done"
                       [] ui.flows[f].pc = "write" /\ ui.here -> "wait"
                       [] OTHER -> "cut"
               modal == IF ui.modal = "key" THEN "none" ELSE ui.modal
    <3>1. /\ net' = NodeList!Fetching
          /\ srv' = [srv EXCEPT !.off[n] = None]
          /\ ui.flows[f].pc \in {"write", "rewrite"}
      BY <1>18, <2>2 DEF NodeList!Write, NodeList!NodeOf
    <3>2. ui' = [ui EXCEPT !.flows[f].pc = pc, !.loading = TRUE,
                           !.modal = modal]
      BY <1>1, <1>18, <2>2 DEF NodeList!Write, NodeList!Page
    <3>3. /\ pc \in {"done", "wait", "cut"} /\ modal \in NodeList!Modals
          /\ pc = "done" => ui.flows[f].pc = "rewrite"
      BY <1>2, <3>1
    <3> HIDE DEF n, pc, modal
    <3>4. net' \in NodesNet /\ net'.goroutines = net.goroutines
      BY <1>1, <3>1, NodesFetching
    <3>5. /\ srv' \in NodesServer
          /\ \A m \in Nodes : srv'.off[m] \in {srv.off[m], None}
      BY <1>1, <3>1, NodesTurned
    <3>6. pc = "done" => /\ <<"off", f>> \notin net'.goroutines
                         /\ \A m \in Nodes : srv'.off[m] # f
      BY <3>3, <3>4, <3>5, NodesFacts DEF NodesInv, NodesFlowOK
    <3>7. /\ pc \in {"write", "wait", "connect", "done", "failed", "cut"}
          /\ pc \in {"connect", "done"} => <<"off", f>> \notin net'.goroutines
          /\ pc = "done" => \A m \in Nodes : srv'.off[m] # f
      BY <3>3, <3>6
    <3>8. QED  BY <1>14, <3>2, <3>3, <3>4, <3>5, <3>7
  <2>3. QED  BY <2>1, <2>2
<1>19. ASSUME NEW f \in ListFlows, NodeList!Wait(f) PROVE NodesInv'
  <2>1. /\ NodeList!Goes(f, "connect") /\ net' = net /\ srv' = srv
        /\ <<"off", f>> \notin net.goroutines
    BY <1>19 DEF NodeList!Wait
  <2>2. ui' = [ui EXCEPT !.flows[f].pc = "connect", !.loading = ui.loading,
                         !.modal = ui.modal]
    BY <1>15, <2>1
  <2>3. QED  BY <1>1, <1>2, <1>14, <2>1, <2>2
<1>20. ASSUME NEW f \in ListFlows, NodeList!Connecting(f) PROVE NodesInv'
  <2>1. CASE NodeList!Goes(f, "failed") /\ UNCHANGED <<net, srv>>
    BY <1>17, <2>1
  <2>2. CASE ~(NodeList!Goes(f, "failed") /\ UNCHANGED <<net, srv>>)
    <3> DEFINE n == ui.flows[f].node
    <3>1. /\ net' = NodeList!Fetching
          /\ srv' = [srv EXCEPT !.off[n] = None]
          /\ ui.flows[f].pc = "connect"
          /\ ui' = [ui EXCEPT !.flows[f].pc = "done", !.loading = TRUE]
      BY <1>20, <2>2 DEF NodeList!Connecting, NodeList!NodeOf
    <3>2. ui' = [ui EXCEPT !.flows[f].pc = "done", !.loading = TRUE,
                           !.modal = ui.modal]
      BY <1>1, <3>1 DEF NodeList!Page
    <3>3. /\ net' \in NodesNet /\ net'.goroutines = net.goroutines
          /\ <<"off", f>> \notin net'.goroutines
      BY <1>1, <3>1, NodesFetching DEF NodesInv, NodesFlowOK
    <3>4. \A m \in Nodes : srv.off[m] = f => m = n
      BY DEF NodesInv, NodesFlowOK
    <3> HIDE DEF n
    <3>5. /\ srv' \in NodesServer
          /\ \A m \in Nodes : srv'.off[m] \in {srv.off[m], None}
          /\ n \in Nodes => srv'.off[n] = None
      BY <1>1, <3>1, NodesTurned
    <3>6. \A m \in Nodes : srv'.off[m] # f
      BY <3>4, <3>5, NodesFacts
    <3>7. QED  BY <1>2, <1>14, <3>2, <3>3, <3>5, <3>6
  <2>3. QED  BY <2>1, <2>2
<1>21. ASSUME NEW g \in net.goroutines, NodeList!Run(g) PROVE NodesInv'
  <2>1. PICK f \in ListFlows : g = <<"off", f>>
    BY <1>1 DEF NodesNet, NodesInv
  <2> DEFINE n == ui.flows[f].node
             off == [srv.off EXCEPT ![n] = f]
             gs == net.goroutines \ {g}
  <2>2. /\ ui' = ui /\ net' = [net EXCEPT !.goroutines = gs]
        /\ srv' = [srv EXCEPT !.off = off]
    BY <1>1, <1>21, <2>1 DEF NodeList!Run, NodesNet, NodesServer
  <2>3. /\ off \in [Nodes -> ListFlows \cup {None, User}]
        /\ \A m \in Nodes : off[m] = IF m = n THEN f ELSE srv.off[m]
    BY <1>1 DEF NodesServer
  <2>4. gs \in SUBSET ({"off", "on"} \X ListFlows) /\ gs \subseteq net.goroutines
    BY <1>1 DEF NodesNet
  <2>5. ui.flows[f].pc
        \notin {"idle", "disconnect", "rewrite", "connect", "done"}
    BY <2>1 DEF NodesInv, NodesFlowOK
  <2>6. ASSUME NEW h \in ListFlows
        PROVE  NodesFlowOK(h, ui.flows[h], gs, off)
    <3>1. NodesFlowOK(h, ui.flows[h], net.goroutines, srv.off)
      BY DEF NodesInv
    <3> HIDE DEF gs, off
    <3>2. CASE h = f
      BY <2>3, <2>4, <2>5, <3>1, <3>2 DEF NodesFlowOK
    <3>3. CASE h # f
      BY <2>3, <2>4, <3>1, <3>3 DEF NodesFlowOK
    <3>4. QED  BY <3>2, <3>3
  <2> HIDE DEF gs, off
  <2>7. /\ net' \in NodesNet /\ net'.goroutines = gs
        /\ srv' \in NodesServer /\ srv'.off = off
    BY <1>1, <2>2, <2>3, <2>4 DEF NodesNet, NodesServer
  <2>8. NodeList!TypeOK'
    BY <1>1, <2>2, <2>7 DEF NodeList!TypeOK, NodesNet, NodesServer
  <2>9. QED  BY <2>2, <2>4, <2>6, <2>7, <2>8 DEF NodesInv
<1>22. QED
  BY <1>3, <1>4, <1>5, <1>6, <1>8, <1>9, <1>10, <1>12, <1>13, <1>16, <1>18,
     <1>19, <1>20, <1>21 DEF NodeList!Next

-----------------------------------------------------------------------------
(* WebUpdate: the server is asked about what it is to do when the process   *)
(* that was loaded from still runs; no answer outlives a restart.           *)

SaysPending(chip, card) ==
    \/ chip.state \in {"update-complete", "restarting"}
    \/ card.pending \/ chip.timer # None

UpdateInv ==
    /\ Update!TypeOK /\ ui.loaded <= srv.run
    /\ SaysPending(ui.chip, ui.card) /\ srv.run = ui.loaded => srv.pending
    /\ \A r \in net :
          r.op = "current" /\ r.answer # None /\ r.answer = "yes"
          /\ srv.run = ui.loaded => srv.pending
    /\ \A r \in net : r.op = "update" => r.by \in UpdateFlows

UpdateFlow == [of : Update!Views,
               step : {"none", "asked", "waiting", "polling", "over"}]
UpdateServer == [run : 0 .. 1, up : BOOLEAN, pending : BOOLEAN,
                 exiting : BOOLEAN, updates : SUBSET UpdateFlows]
UpdateOps == {"current", "releases", "update", "restart"}
UpdateAskers == {"mount", "check", "card", "probe", "chip"} \cup UpdateFlows

\* A step asks for one thing at most.
UpdateAsks ==
    \E op \in UpdateOps, by \in UpdateAskers :
       /\ op = "update" => by \in UpdateFlows
       /\ net' \subseteq net \cup {Update!Asks(op, by)}

LEMMA UpdateFacts ==
    /\ None \notin Nat /\ Countdown \in Nat \ {0}
    /\ Update!TypeOK <=> /\ ui \in Update!Page /\ net \subseteq Update!Request
                         /\ srv \in UpdateServer
BY PagesAssumption
   DEF Update!UpdateAssumption, Update!TypeOK, UpdateServer

LEMMA UpdateTimers ==
    /\ None \in Update!Timer /\ Countdown \in Update!Timer
    /\ \A t \in Update!Timer \ {None, 0} : t - 1 \in Update!Timer
BY UpdateFacts DEF Update!Timer

LEMMA UpdateBlank ==
    /\ Update!NoChip \in Update!Chip /\ Update!NoCard \in Update!Card
    /\ Update!NoFlow \in UpdateFlow
    /\ ~SaysPending(Update!NoChip, Update!NoCard)
BY UpdateTimers
   DEF Update!NoChip, Update!NoCard, Update!NoFlow, Update!Chip, Update!Card,
       UpdateFlow, Update!Views, SaysPending

LEMMA UpdateAsked ==
    \A op \in UpdateOps, by \in UpdateAskers :
       /\ Update!Asks(op, by) \in Update!Request
       /\ Update!Asks(op, by).answer = None
       /\ Update!Asks(op, by).op = op /\ Update!Asks(op, by).by = by
BY DEF Update!Asks, Update!Request, UpdateOps, UpdateAskers

LEMMA UpdateInit == Update!Init => UpdateInv
<1> SUFFICES ASSUME Update!Init PROVE UpdateInv
  OBVIOUS
<1>1. [f \in UpdateFlows |-> Update!NoFlow] \in [UpdateFlows -> UpdateFlow]
  BY UpdateBlank
<1>2. /\ ui \in Update!Page /\ ui.loaded = 0
      /\ ui.chip = Update!NoChip /\ ui.card = Update!NoCard
  BY <1>1, UpdateBlank DEF Update!Init, Update!Page, UpdateFlow
<1>3. net \subseteq Update!Request /\ \A r \in net : r.answer = None /\ r.op # "update"
  BY UpdateAsked DEF Update!Init, UpdateOps, UpdateAskers
<1>4. srv \in UpdateServer /\ srv.run = 0
  BY DEF Update!Init, UpdateServer
<1>5. QED  BY <1>2, <1>3, <1>4, UpdateFacts, UpdateBlank DEF UpdateInv

UpdateIs(chip, card, flow) ==
    [ui EXCEPT !.chip = chip, !.card = card, !.flow = flow]

\* The page is what its chip, its card and its flows are.
LEMMA UpdatePage ==
    ASSUME ui \in Update!Page,
           NEW chip \in Update!Chip, NEW card \in Update!Card,
           NEW flow \in [UpdateFlows -> UpdateFlow],
           ui' = UpdateIs(chip, card, flow)
    PROVE  /\ ui' \in Update!Page /\ ui'.loaded = ui.loaded
           /\ ui'.chip = chip /\ ui'.card = card
BY DEF Update!Page, UpdateFlow, UpdateIs

LEMMA UpdateParts ==
    ASSUME ui \in Update!Page
    PROVE  /\ ui.chip \in Update!Chip /\ ui.card \in Update!Card
           /\ ui.flow \in [UpdateFlows -> UpdateFlow]
           /\ ui = UpdateIs(ui.chip, ui.card, ui.flow)
BY DEF Update!Page, UpdateFlow, UpdateIs

\* Steps of the page, which asks and is answered.
LEMMA UpdateStep ==
    ASSUME UpdateInv,
           NEW chip \in Update!Chip, NEW card \in Update!Card,
           NEW flow \in [UpdateFlows -> UpdateFlow],
           ui' = UpdateIs(chip, card, flow),
           SaysPending(chip, card) /\ srv.run = ui.loaded =>
              SaysPending(ui.chip, ui.card) \/ srv.pending,
           UpdateAsks, srv' = srv
    PROVE  UpdateInv'
<1>1. /\ ui \in Update!Page /\ net \subseteq Update!Request
      /\ srv \in UpdateServer
  BY UpdateFacts DEF UpdateInv
<1>2. /\ ui' \in Update!Page /\ ui'.loaded = ui.loaded
      /\ ui'.chip = chip /\ ui'.card = card
  BY <1>1, UpdatePage
<1>3. /\ net' \subseteq Update!Request /\ \A r \in net' \ net : r.answer = None
      /\ \A r \in net' \ net : r.op = "update" => r.by \in UpdateFlows
  BY <1>1, UpdateAsked DEF UpdateAsks
<1>4. Update!TypeOK'
  BY <1>1, <1>2, <1>3 DEF Update!TypeOK, UpdateServer
<1>5. QED  BY <1>2, <1>3, <1>4 DEF UpdateInv

\* Steps of the process that runs.
LEMMA UpdateServed ==
    ASSUME UpdateInv, ui' = ui, net' \subseteq Update!Request,
           srv' \in UpdateServer, srv'.run = srv.run,
           srv.pending => srv'.pending,
           \A r \in net' \ net :
              /\ r.op = "current" /\ r.answer = "yes" => srv.pending
              /\ r.op = "update" => r.by \in UpdateFlows
    PROVE  UpdateInv'
<1>1. Update!TypeOK'
  BY UpdateFacts DEF UpdateInv, Update!TypeOK, UpdateServer
<1>2. QED  BY <1>1 DEF UpdateInv

LEMMA UpdateReload == UpdateInv /\ Update!Reload => UpdateInv'
<1> SUFFICES ASSUME UpdateInv, Update!Reload PROVE UpdateInv'
  OBVIOUS
<1>1. ui \in Update!Page /\ srv \in UpdateServer
  BY UpdateFacts DEF UpdateInv
<1> DEFINE chip == [Update!NoChip EXCEPT !.auto = ui.chip.auto]
           flow == [f \in UpdateFlows |->
                      IF ui.flow[f].step = "none" THEN Update!NoFlow
                      ELSE [ui.flow[f] EXCEPT !.step = "over"]]
<1>2. chip \in Update!Chip /\ ~SaysPending(chip, Update!NoCard)
  BY <1>1, UpdateParts, UpdateBlank
     DEF Update!NoChip, Update!NoCard, Update!Chip, SaysPending
<1>3. flow \in [UpdateFlows -> UpdateFlow]
  BY <1>1, UpdateParts, UpdateBlank DEF UpdateFlow
<1>4. ui' = [ui EXCEPT !.chip = chip, !.card = Update!NoCard,
                       !.loaded = srv.run, !.flow = flow]
  BY <1>1 DEF Update!Reload, Update!Page
<1>5. net' = {Update!Asks("current", "mount")} /\ srv' = srv
  BY DEF Update!Reload
<1> HIDE DEF chip, flow
<1>6. srv.run \in 0 .. 1
  BY <1>1 DEF UpdateServer
<1>7. /\ ui' \in Update!Page /\ ui'.loaded = srv.run
      /\ ui'.chip = chip /\ ui'.card = Update!NoCard
  BY <1>1, <1>2, <1>3, <1>4, <1>6, UpdateBlank DEF Update!Page, UpdateFlow
<1>8. /\ net' \subseteq Update!Request
      /\ \A r \in net' : r.answer = None /\ r.op # "update"
  BY <1>5, UpdateAsked DEF UpdateOps, UpdateAskers
<1>9. Update!TypeOK'
  BY <1>1, <1>5, <1>7, <1>8 DEF Update!TypeOK, UpdateServer
<1>10. QED  BY <1>2, <1>5, <1>6, <1>7, <1>8, <1>9 DEF UpdateInv

\* What the page shows of the update itself.
LEMMA UpdateViews ==
    ASSUME ui \in Update!Page, NEW v,
           NEW flow \in [UpdateFlows -> UpdateFlow]
    PROVE  LET u == UpdateIs(ui.chip, ui.card, flow)
           IN  /\ \E chip \in Update!Chip, card \in Update!Card :
                     /\ Update!Updating(u, v) = UpdateIs(chip, card, flow)
                     /\ SaysPending(chip, card) => SaysPending(ui.chip, ui.card)
               /\ \E chip \in Update!Chip, card \in Update!Card :
                     /\ Update!Failed(u, v) = UpdateIs(chip, card, flow)
                     /\ SaysPending(chip, card) => SaysPending(ui.chip, ui.card)
               /\ \E chip \in Update!Chip, card \in Update!Card :
                     Update!Complete(u, v) = UpdateIs(chip, card, flow)
<1> DEFINE u == UpdateIs(ui.chip, ui.card, flow)
<1>1. /\ ui.chip \in Update!Chip /\ ui.card \in Update!Card
      /\ ui.card.pending \in BOOLEAN
  BY UpdateParts DEF Update!Card
<1>2. u \in Update!Page /\ u.chip = ui.chip /\ u.card = ui.card
  BY DEF Update!Page, UpdateFlow, UpdateIs
<1>3. /\ \A chip : [u EXCEPT !.chip = chip] = UpdateIs(chip, ui.card, flow)
      /\ \A card : [u EXCEPT !.card = card] = UpdateIs(ui.chip, card, flow)
  BY DEF Update!Page, UpdateIs
<1> HIDE DEF u
<1>4. ASSUME NEW state \in {"updating", "error", "update-complete"}
      PROVE  \E chip \in Update!Chip :
                /\ [u EXCEPT !.chip.state = state]
                   = UpdateIs(chip, ui.card, flow)
                /\ state # "update-complete" /\ SaysPending(chip, ui.card)
                   => SaysPending(ui.chip, ui.card)
  <2> DEFINE chip == [ui.chip EXCEPT !.state = state]
  <2>1. /\ chip \in Update!Chip
        /\ chip.state = state /\ chip.timer = ui.chip.timer
    BY <1>1 DEF Update!Chip
  <2>2. [u EXCEPT !.chip.state = state] = [u EXCEPT !.chip = chip]
    BY <1>2
  <2> HIDE DEF chip
  <2>3. [u EXCEPT !.chip.state = state] = UpdateIs(chip, ui.card, flow)
    BY <1>3, <2>2
  <2>4. state # "update-complete" /\ SaysPending(chip, ui.card)
        => SaysPending(ui.chip, ui.card)
    BY <1>4, <2>1 DEF SaysPending
  <2>5. QED  BY <2>1, <2>3, <2>4
<1>5. ASSUME NEW updating \in BOOLEAN
      PROVE  \E card \in Update!Card :
                /\ [u EXCEPT !.card.updating = updating]
                   = UpdateIs(ui.chip, card, flow)
                /\ SaysPending(ui.chip, card) => SaysPending(ui.chip, ui.card)
  <2> DEFINE card == [ui.card EXCEPT !.updating = updating]
  <2>1. card \in Update!Card /\ card.pending = ui.card.pending
    BY <1>1 DEF Update!Card
  <2>2. [u EXCEPT !.card.updating = updating] = [u EXCEPT !.card = card]
    BY <1>2
  <2> HIDE DEF card
  <2>3. [u EXCEPT !.card.updating = updating] = UpdateIs(ui.chip, card, flow)
    BY <1>3, <2>2
  <2>4. SaysPending(ui.chip, card) => SaysPending(ui.chip, ui.card)
    BY <2>1 DEF SaysPending
  <2>5. QED  BY <2>1, <2>3, <2>4
<1>6. \E card \in Update!Card :
         [u EXCEPT !.card.updating = FALSE, !.card.pending = TRUE]
         = UpdateIs(ui.chip, card, flow)
  <2> DEFINE card == [ui.card EXCEPT !.updating = FALSE, !.pending = TRUE]
  <2>1. card \in Update!Card
    BY <1>1 DEF Update!Card
  <2>2. [u EXCEPT !.card.updating = FALSE, !.card.pending = TRUE]
        = [u EXCEPT !.card = card]
    BY <1>1, <1>2 DEF Update!Page, Update!Card
  <2> HIDE DEF card
  <2>3. QED  BY <1>3, <2>1, <2>2
<1>7. CASE v = "chip"
  <2>1. /\ Update!Updating(u, v) = [u EXCEPT !.chip.state = "updating"]
        /\ Update!Failed(u, v) = [u EXCEPT !.chip.state = "error"]
        /\ Update!Complete(u, v) = [u EXCEPT !.chip.state = "update-complete"]
    BY <1>7 DEF Update!Updating, Update!Failed, Update!Complete
  <2>2. PICK chip \in Update!Chip :
            /\ Update!Updating(u, v) = UpdateIs(chip, ui.card, flow)
            /\ SaysPending(chip, ui.card) => SaysPending(ui.chip, ui.card)
    BY <1>4, <2>1
  <2>3. PICK failed \in Update!Chip :
            /\ Update!Failed(u, v) = UpdateIs(failed, ui.card, flow)
            /\ SaysPending(failed, ui.card) => SaysPending(ui.chip, ui.card)
    BY <1>4, <2>1
  <2>4. PICK complete \in Update!Chip :
            Update!Complete(u, v) = UpdateIs(complete, ui.card, flow)
    BY <1>4, <2>1
  <2>5. QED  BY ONLY <1>1, <2>2, <2>3, <2>4 DEF u
<1>8. CASE v # "chip"
  <2>1. /\ Update!Updating(u, v) = [u EXCEPT !.card.updating = TRUE]
        /\ Update!Failed(u, v) = [u EXCEPT !.card.updating = FALSE]
        /\ Update!Complete(u, v) = [u EXCEPT !.card.updating = FALSE,
                                             !.card.pending = TRUE]
    BY <1>8 DEF Update!Updating, Update!Failed, Update!Complete
  <2>2. PICK card \in Update!Card :
            /\ Update!Updating(u, v) = UpdateIs(ui.chip, card, flow)
            /\ SaysPending(ui.chip, card) => SaysPending(ui.chip, ui.card)
    BY <1>5, <2>1
  <2>3. PICK failed \in Update!Card :
            /\ Update!Failed(u, v) = UpdateIs(ui.chip, failed, flow)
            /\ SaysPending(ui.chip, failed) => SaysPending(ui.chip, ui.card)
    BY <1>5, <2>1
  <2>4. PICK complete \in Update!Card :
            Update!Complete(u, v) = UpdateIs(ui.chip, complete, flow)
    BY <1>6, <2>1
  <2>5. QED  BY ONLY <1>1, <2>2, <2>3, <2>4 DEF u
<1>9. QED  BY <1>7, <1>8

\* Steps of one flow.
LEMMA UpdateFlowStep ==
    ASSUME ui \in Update!Page, NEW f,
           NEW step \in {"waiting", "polling", "over"}
    PROVE  [ui.flow EXCEPT ![f].step = step] \in [UpdateFlows -> UpdateFlow]
<1>1. ui.flow \in [UpdateFlows -> UpdateFlow]
  BY UpdateParts
<1>2. f \in UpdateFlows => [ui.flow[f] EXCEPT !.step = step] \in UpdateFlow
  BY <1>1 DEF UpdateFlow
<1>3. QED  BY <1>1, <1>2

LEMMA UpdateNext == UpdateInv /\ Update!Next => UpdateInv'
<1> SUFFICES ASSUME UpdateInv, Update!Acts PROVE UpdateInv'
  BY DEF Update!Next
<1>1. /\ ui \in Update!Page /\ net \subseteq Update!Request
      /\ srv \in UpdateServer
  BY UpdateFacts DEF UpdateInv
<1>2. /\ ui.chip \in Update!Chip /\ ui.card \in Update!Card
      /\ ui.flow \in [UpdateFlows -> UpdateFlow]
      /\ ui = UpdateIs(ui.chip, ui.card, ui.flow)
  BY <1>1, UpdateParts
<1>3. ASSUME NEW r \in net, r.op = "current", r.answer # None, r.answer = "yes",
             srv.run = ui.loaded
      PROVE  srv.pending
  BY <1>3 DEF UpdateInv
\* What a step asks for.
<1>4. /\ net' = net => UpdateAsks
      /\ \A r \in net : net' = net \ {r} => UpdateAsks
      /\ \A op \in UpdateOps, by \in UpdateAskers :
            (op = "update" => by \in UpdateFlows) =>
            /\ net' = net \cup {Update!Asks(op, by)} => UpdateAsks
            /\ \A r \in net : net' = (net \ {r}) \cup {Update!Asks(op, by)}
                              => UpdateAsks
  BY DEF UpdateAsks, UpdateOps, UpdateAskers
\* Steps of the chip alone, of the card alone, of neither.
<1>5. ASSUME NEW chip \in Update!Chip, ui' = [ui EXCEPT !.chip = chip],
             SaysPending(chip, ui.card) /\ srv.run = ui.loaded =>
                SaysPending(ui.chip, ui.card) \/ srv.pending,
             UpdateAsks, srv' = srv
      PROVE  UpdateInv'
  <2>1. ui' = UpdateIs(chip, ui.card, ui.flow)
    BY <1>1, <1>5 DEF Update!Page, UpdateIs
  <2>2. QED  BY <1>2, <1>5, <2>1, UpdateStep
<1>6. ASSUME NEW card \in Update!Card, ui' = [ui EXCEPT !.card = card],
             SaysPending(ui.chip, card) /\ srv.run = ui.loaded =>
                SaysPending(ui.chip, ui.card) \/ srv.pending,
             UpdateAsks, srv' = srv
      PROVE  UpdateInv'
  <2>1. ui' = UpdateIs(ui.chip, card, ui.flow)
    BY <1>1, <1>6 DEF Update!Page, UpdateIs
  <2>2. QED  BY <1>2, <1>6, <2>1, UpdateStep
<1>7. ASSUME ui' = ui, UpdateAsks, srv' = srv PROVE UpdateInv'
  BY <1>2, <1>7, UpdateStep
<1>8. /\ ui.chip.checking \in BOOLEAN /\ ui.chip.auto \in BOOLEAN
      /\ ui.chip.here \in BOOLEAN /\ ui.chip.timer \in Update!Timer
      /\ ui.chip.state \in {"idle", "has-update", "updating",
                            "update-complete", "restarting", "error"}
      /\ ui.card.here \in BOOLEAN /\ ui.card.newer \in BOOLEAN
      /\ ui.card.checking \in BOOLEAN /\ ui.card.updating \in BOOLEAN
      /\ ui.card.pending \in BOOLEAN /\ ui.card.timer \in Update!Timer
  BY <1>2 DEF Update!Chip, Update!Card
<1>9. ASSUME NEW chip \in Update!Chip, ui' = [ui EXCEPT !.chip = chip],
             \/ srv.pending \/ srv.run # ui.loaded
             \/ chip.state \notin {"update-complete", "restarting"}
                /\ chip.timer = ui.chip.timer
             \/ chip.state = ui.chip.state /\ chip.timer = ui.chip.timer,
             UpdateAsks, srv' = srv
      PROVE  UpdateInv'
  <2>1. SaysPending(chip, ui.card) /\ srv.run = ui.loaded =>
           SaysPending(ui.chip, ui.card) \/ srv.pending
    BY <1>9 DEF SaysPending
  <2>2. QED  BY <1>5, <1>9, <2>1
\* The chip.
<1>11. ASSUME NEW r \in net, Update!MountReturns(r) PROVE UpdateInv'
  <2>1. r.op = "current" /\ r.answer # None /\ srv' = srv
    BY <1>11 DEF Update!MountReturns
  <2>2. UpdateAsks
    BY <1>4, <1>11
       DEF Update!MountReturns, UpdateOps, UpdateAskers
  <2>3. CASE ui' = ui
    BY <1>7, <2>1, <2>2, <2>3
  <2>4. ASSUME NEW state \in {"idle", "has-update", "update-complete"},
               ui' = [ui EXCEPT !.chip = [ui.chip EXCEPT !.state = state]],
               state = "update-complete" => r.answer = "yes"
        PROVE  UpdateInv'
    <3> DEFINE chip == [ui.chip EXCEPT !.state = state]
    <3>1. /\ chip \in Update!Chip /\ chip.state = state
          /\ chip.timer = ui.chip.timer /\ ui' = [ui EXCEPT !.chip = chip]
      BY <1>2, <2>4 DEF Update!Chip
    <3> HIDE DEF chip
    <3>2. state = "update-complete" => srv.pending \/ srv.run # ui.loaded
      BY <1>3, <2>1, <2>4
    <3>3. QED  BY <1>9, <2>1, <2>2, <2>4, <3>1, <3>2
  <2>5. QED
    BY <1>11, <2>3, <2>4 DEF Update!MountReturns, Update!ChipIs
<1>12. ASSUME NEW r \in net,
              Update!MountFound(r) \/ Update!CheckReturns(r)
                \/ Update!CheckFound(r)
       PROVE  UpdateInv'
  <2>1. srv' = srv /\ r.answer # None
    BY <1>12 DEF Update!MountFound, Update!CheckReturns, Update!CheckFound
  <2>2. UpdateAsks
    BY <1>4, <1>12 DEF Update!MountFound, Update!CheckReturns,
                       Update!CheckFound, UpdateOps, UpdateAskers
  <2>3. CASE ui' = ui
    BY <1>7, <2>1, <2>2, <2>3
  <2>4. ASSUME NEW state \in {"idle", "has-update", "update-complete"},
               NEW checking \in BOOLEAN,
               ui' = [ui EXCEPT !.chip = [ui.chip EXCEPT !.state = state,
                                              !.checking = checking]],
               state = "update-complete" =>
                  r.op = "current" /\ r.answer = "yes"
        PROVE  UpdateInv'
    <3> DEFINE chip == [ui.chip EXCEPT !.state = state,
                                       !.checking = checking]
    <3>1. /\ chip \in Update!Chip /\ chip.state = state
          /\ chip.timer = ui.chip.timer /\ ui' = [ui EXCEPT !.chip = chip]
      BY <1>2, <2>4 DEF Update!Chip
    <3> HIDE DEF chip
    <3>2. state = "update-complete" => srv.pending \/ srv.run # ui.loaded
      BY <1>3, <2>1, <2>4
    <3>3. QED  BY <1>9, <2>1, <2>2, <2>4, <3>1, <3>2
  <2>5. CASE Update!MountFound(r)
    <3>1. ASSUME NEW state \in {"idle", "has-update"},
                 ui' = [ui EXCEPT !.chip.state = state]
          PROVE  UpdateInv'
      <4>1. ui' = [ui EXCEPT !.chip = [ui.chip EXCEPT !.state = state,
                                        !.checking = ui.chip.checking]]
        BY <1>1, <1>2, <3>1 DEF Update!Page, Update!Chip
      <4>2. QED  BY <1>8, <2>4, <4>1
    <3>2. QED
      BY <2>3, <2>5, <3>1 DEF Update!MountFound, Update!Found
  <2>6. CASE Update!CheckReturns(r)
    BY <2>3, <2>4, <2>6 DEF Update!CheckReturns, Update!ChipIs
  <2>7. CASE Update!CheckFound(r)
    <3>1. CASE ui' = [ui EXCEPT !.chip.checking = FALSE]
      <4> DEFINE chip == [ui.chip EXCEPT !.checking = FALSE]
      <4>1. /\ chip \in Update!Chip /\ chip.state = ui.chip.state
            /\ chip.timer = ui.chip.timer
        BY <1>2 DEF Update!Chip
      <4>2. ui' = [ui EXCEPT !.chip = chip]
        BY <1>1, <3>1 DEF Update!Page
      <4> HIDE DEF chip
      <4>3. QED  BY <1>9, <2>1, <2>2, <4>1, <4>2
    <3>2. ASSUME NEW state \in {"idle", "has-update"},
                 ui' = [ui EXCEPT !.chip.checking = FALSE, !.chip.state = state]
          PROVE  UpdateInv'
      <4>1. ui' = [ui EXCEPT !.chip = [ui.chip EXCEPT !.state = state,
                                                      !.checking = FALSE]]
        BY <1>1, <1>2, <3>2 DEF Update!Page, Update!Chip
      <4>2. QED  BY <2>4, <4>1
    <3>3. QED
      BY <2>7, <3>1, <3>2 DEF Update!CheckFound, Update!Found
  <2>8. QED  BY <1>12, <2>5, <2>6, <2>7
<1>13. CASE Update!RunCheck
  <2>1. /\ srv' = srv /\ net' = net \cup {Update!Asks("current", "check")}
        /\ ui' = [ui EXCEPT !.chip = [ui.chip EXCEPT !.checking = TRUE]]
    BY <1>13 DEF Update!RunCheck, Update!ChipIs
  <2>2. UpdateAsks
    BY <1>4, <2>1 DEF UpdateOps, UpdateAskers
  <2> DEFINE chip == [ui.chip EXCEPT !.checking = TRUE]
  <2>3. /\ chip \in Update!Chip /\ chip.state = ui.chip.state
        /\ chip.timer = ui.chip.timer /\ ui' = [ui EXCEPT !.chip = chip]
    BY <1>2, <2>1 DEF Update!Chip
  <2> HIDE DEF chip
  <2>4. QED  BY <1>9, <2>1, <2>2, <2>3
<1>14. CASE Update!ToggleAuto
  <2>1. UpdateAsks
    BY <1>14 DEF Update!ToggleAuto, UpdateAsks, UpdateOps, UpdateAskers
  <2>2. /\ srv' = srv
        /\ ui' = [ui EXCEPT !.chip = [ui.chip EXCEPT !.auto = ~ui.chip.auto]]
    BY <1>2, <1>14 DEF Update!ToggleAuto, Update!ChipIs, Update!Chip
  <2> DEFINE chip == [ui.chip EXCEPT !.auto = ~ui.chip.auto]
  <2>3. /\ chip \in Update!Chip /\ chip.state = ui.chip.state
        /\ chip.timer = ui.chip.timer /\ ui' = [ui EXCEPT !.chip = chip]
    BY <1>2, <2>2 DEF Update!Chip
  <2> HIDE DEF chip
  <2>4. QED  BY <1>9, <2>1, <2>2, <2>3
\* Flows that a view takes with it when it goes.
<1>15. ASSUME NEW v \in Update!Views
       PROVE  [f \in UpdateFlows |->
                  IF ui.flow[f].of = v /\ ui.flow[f].step # "none"
                  THEN [ui.flow[f] EXCEPT !.step = "over"] ELSE ui.flow[f]]
              \in [UpdateFlows -> UpdateFlow]
  BY <1>2 DEF UpdateFlow
<1>16. CASE Update!ToggleChip
  <2>1. UpdateAsks
    BY <1>16 DEF Update!ToggleChip, UpdateAsks, UpdateOps, UpdateAskers
  <2>2. CASE ~ui.chip.here
    <3>1. /\ srv' = srv
          /\ ui' = [ui EXCEPT !.chip = [ui.chip EXCEPT !.here = TRUE]]
      BY <1>16, <2>2 DEF Update!ToggleChip, Update!ChipIs
    <3> DEFINE chip == [ui.chip EXCEPT !.here = TRUE]
    <3>2. /\ chip \in Update!Chip /\ chip.state = ui.chip.state
          /\ chip.timer = ui.chip.timer /\ ui' = [ui EXCEPT !.chip = chip]
      BY <1>2, <3>1 DEF Update!Chip
    <3> HIDE DEF chip
    <3>3. QED  BY <1>9, <2>1, <3>1, <3>2
  <2>3. CASE ui.chip.here
    <3> DEFINE chip == [Update!NoChip EXCEPT !.here = FALSE,
                                             !.auto = ui.chip.auto]
               flow == [f \in UpdateFlows |->
                  IF ui.flow[f].of = "chip" /\ ui.flow[f].step # "none"
                  THEN [ui.flow[f] EXCEPT !.step = "over"] ELSE ui.flow[f]]
    <3>1. chip \in Update!Chip /\ chip.state = "idle" /\ chip.timer = None
      BY <1>8, UpdateBlank DEF Update!NoChip, Update!Chip
    <3>2. flow \in [UpdateFlows -> UpdateFlow]
      BY <1>15 DEF Update!Views
    <3>3. ui' = UpdateIs(chip, ui.card, flow)
      BY <1>1, <1>16, <2>3 DEF Update!ToggleChip, Update!Page, UpdateIs
    <3>4. srv' = srv
      BY <1>16 DEF Update!ToggleChip
    <3> HIDE DEF chip, flow
    <3>5. SaysPending(chip, ui.card) => SaysPending(ui.chip, ui.card)
      BY <3>1 DEF SaysPending
    <3>6. QED  BY <1>2, <2>1, <3>1, <3>2, <3>3, <3>4, <3>5, UpdateStep
  <2>4. QED  BY <2>2, <2>3
\* The card.
<1>17. CASE Update!OpenCard \/ Update!CheckUpdate
  <2>1. UpdateAsks /\ srv' = srv
    BY <1>4, <1>17
       DEF Update!OpenCard, Update!CheckUpdate, UpdateOps, UpdateAskers
  <2>2. ASSUME NEW card \in Update!Card, card.pending = ui.card.pending,
               ui' = [ui EXCEPT !.card = card]
        PROVE  UpdateInv'
    <3>1. SaysPending(ui.chip, card) => SaysPending(ui.chip, ui.card)
      BY <2>2 DEF SaysPending
    <3>2. QED  BY <1>6, <2>1, <2>2, <3>1
  <2>3. CASE ui' = [ui EXCEPT !.card.here = TRUE]
    <3> DEFINE card == [ui.card EXCEPT !.here = TRUE]
    <3>1. card \in Update!Card /\ card.pending = ui.card.pending
      BY <1>2 DEF Update!Card
    <3>2. ui' = [ui EXCEPT !.card = card]
      BY <1>1, <2>3 DEF Update!Page
    <3> HIDE DEF card
    <3>3. QED  BY <2>2, <3>1, <3>2
  <2>4. CASE ui' = [ui EXCEPT !.card.checking = TRUE]
    <3> DEFINE card == [ui.card EXCEPT !.checking = TRUE]
    <3>1. card \in Update!Card /\ card.pending = ui.card.pending
      BY <1>2 DEF Update!Card
    <3>2. ui' = [ui EXCEPT !.card = card]
      BY <1>1, <2>4 DEF Update!Page
    <3> HIDE DEF card
    <3>3. QED  BY <2>2, <3>1, <3>2
  <2>5. QED
    BY <1>17, <2>3, <2>4 DEF Update!OpenCard, Update!CheckUpdate
<1>18. CASE Update!LeaveCard
  <2> DEFINE flow == [f \in UpdateFlows |->
                IF ui.flow[f].of = "card" /\ ui.flow[f].step # "none"
                THEN [ui.flow[f] EXCEPT !.step = "over"] ELSE ui.flow[f]]
  <2>1. flow \in [UpdateFlows -> UpdateFlow]
    BY <1>15 DEF Update!Views
  <2>2. ui' = UpdateIs(ui.chip, Update!NoCard, flow)
    BY <1>1, <1>18 DEF Update!LeaveCard, Update!Page, UpdateIs
  <2>3. UpdateAsks /\ srv' = srv
    BY <1>18 DEF Update!LeaveCard, UpdateAsks, UpdateOps, UpdateAskers
  <2> HIDE DEF flow
  <2>4. SaysPending(ui.chip, Update!NoCard) => SaysPending(ui.chip, ui.card)
    BY DEF SaysPending, Update!NoCard
  <2>5. QED  BY <1>2, <2>1, <2>2, <2>3, <2>4, UpdateBlank, UpdateStep
<1>19. ASSUME NEW r \in net, Update!CardReturns(r) PROVE UpdateInv'
  <2>1. UpdateAsks /\ srv' = srv /\ r.answer # None
    BY <1>4, <1>19 DEF Update!CardReturns
  <2>2. CASE r.op = "current"
    <3> DEFINE pending == ui.card.pending \/ r.answer = "yes"
               card == [ui.card EXCEPT !.pending = pending]
    <3>1. card \in Update!Card /\ (card.pending <=> pending)
      BY <1>2 DEF Update!Card
    <3>2. ui' = [ui EXCEPT !.card = card]
      BY <1>1, <1>19, <2>2 DEF Update!CardReturns, Update!Page
    <3> HIDE DEF card
    <3>3. SaysPending(ui.chip, card) /\ srv.run = ui.loaded =>
             SaysPending(ui.chip, ui.card) \/ srv.pending
      BY <1>3, <2>1, <2>2, <3>1 DEF SaysPending
    <3>4. QED  BY <1>6, <2>1, <3>1, <3>2, <3>3
  <2>3. CASE r.op # "current"
    <3> DEFINE newer == IF r.answer = "failed" THEN ui.card.newer
                        ELSE r.answer = "yes"
               card == [ui.card EXCEPT !.checking = FALSE, !.newer = newer]
    <3>1. newer \in BOOLEAN
      BY <1>8
    <3>2. ui' = [ui EXCEPT !.card = card]
      BY <1>1, <1>19, <2>3 DEF Update!CardReturns, Update!Page
    <3> HIDE DEF newer
    <3>3. card \in Update!Card /\ card.pending = ui.card.pending
      BY <1>2, <3>1 DEF Update!Card
    <3> HIDE DEF card
    <3>4. SaysPending(ui.chip, card) => SaysPending(ui.chip, ui.card)
      BY <3>3 DEF SaysPending
    <3>5. QED  BY <1>6, <2>1, <3>2, <3>3, <3>4
  <2>4. QED  BY <2>2, <2>3
\* The restart.
<1>20. ASSUME NEW v \in Update!Views, Update!StartCountdown(v)
       PROVE  UpdateInv'
  <2>1. UpdateAsks /\ srv' = srv
    BY <1>4, <1>20 DEF Update!StartCountdown
  <2>2. CASE /\ ui.chip.state = "update-complete"
             /\ ui' = [ui EXCEPT !.chip = [ui.chip EXCEPT
                           !.state = "restarting", !.timer = Countdown]]
    <3>1. [ui.chip EXCEPT !.state = "restarting", !.timer = Countdown]
          \in Update!Chip
      BY <1>2, UpdateTimers DEF Update!Chip
    <3>2. SaysPending(ui.chip, ui.card)
      BY <2>2 DEF SaysPending
    <3>3. QED  BY <1>5, <2>1, <2>2, <3>1, <3>2
  <2>3. CASE ui.card.pending /\ ui' = [ui EXCEPT !.card.timer = Countdown]
    <3>1. [ui.card EXCEPT !.timer = Countdown] \in Update!Card
      BY <1>2, UpdateTimers DEF Update!Card
    <3>2. ui' = [ui EXCEPT !.card = [ui.card EXCEPT !.timer = Countdown]]
      BY <1>1, <2>3 DEF Update!Page
    <3>3. SaysPending(ui.chip, ui.card)
      BY <2>3 DEF SaysPending
    <3>4. QED  BY <1>6, <2>1, <3>1, <3>2, <3>3
  <2>4. QED
    BY <1>20, <2>2, <2>3 DEF Update!StartCountdown, Update!ChipIs
<1>21. ASSUME NEW v \in Update!Views, Update!Tick(v) PROVE UpdateInv'
  <2>1. v \in UpdateAskers
    BY DEF Update!Views, UpdateAskers
  <2>2. UpdateAsks /\ srv' = srv
    BY <1>4, <1>21, <2>1 DEF Update!Tick, UpdateOps
  <2>3. CASE v = "chip"
    <3>1. /\ ui.chip.timer \notin {None, 0}
          /\ ui' = [ui EXCEPT !["chip"].timer = ui.chip.timer - 1]
      BY <1>1, <1>21, <2>3 DEF Update!Tick, Update!Page
    <3>2. ui.chip.timer - 1 \in Update!Timer
      BY <1>8, <3>1, UpdateTimers
    <3> DEFINE chip == [ui.chip EXCEPT !.timer = ui.chip.timer - 1]
    <3>3. chip \in Update!Chip
      BY <1>2, <3>2 DEF Update!Chip
    <3>4. ui' = [ui EXCEPT !.chip = chip]
      BY <1>1, <3>1 DEF Update!Page
    <3> HIDE DEF chip
    <3>5. SaysPending(ui.chip, ui.card)
      BY <3>1 DEF SaysPending
    <3>6. QED  BY <1>5, <2>2, <3>3, <3>4, <3>5
  <2>4. CASE v = "card"
    <3>1. /\ ui.card.timer \notin {None, 0}
          /\ ui' = [ui EXCEPT !["card"].timer = ui.card.timer - 1]
      BY <1>1, <1>21, <2>4 DEF Update!Tick, Update!Page
    <3>2. ui.card.timer - 1 \in Update!Timer
      BY <1>8, <3>1, UpdateTimers
    <3> DEFINE card == [ui.card EXCEPT !.timer = ui.card.timer - 1]
    <3>3. card \in Update!Card /\ card.pending = ui.card.pending
      BY <1>2, <3>2 DEF Update!Card
    <3>4. ui' = [ui EXCEPT !.card = card]
      BY <1>1, <3>1 DEF Update!Page
    <3> HIDE DEF card
    <3>5. SaysPending(ui.chip, card) => SaysPending(ui.chip, ui.card)
      BY <3>3 DEF SaysPending
    <3>6. QED  BY <1>6, <2>2, <3>3, <3>4, <3>5
  <2>5. QED  BY <2>3, <2>4 DEF Update!Views
\* The flows.
<1>22. ASSUME NEW chip \in Update!Chip, NEW card \in Update!Card, NEW u,
              u = UpdateIs(chip, card, ui.flow),
              NEW f, NEW step \in {"waiting", "polling", "over"},
              Update!Step(f, u, step),
              \/ SaysPending(chip, card) => SaysPending(ui.chip, ui.card)
              \/ srv.pending \/ srv.run # ui.loaded,
              UpdateAsks, srv' = srv
       PROVE  UpdateInv'
  <2>1. CASE ui' = ui
    BY <1>7, <1>22, <2>1
  <2>2. CASE ui' = [u EXCEPT !.flow[f].step = step]
    <3> DEFINE flow == [ui.flow EXCEPT ![f].step = step]
    <3>1. flow \in [UpdateFlows -> UpdateFlow]
      BY <1>1, UpdateFlowStep
    <3>2. u.flow = ui.flow
      BY <1>1, <1>22 DEF Update!Page, UpdateIs
    <3>3. ui' = [u EXCEPT !.flow = flow]
      BY <2>2, <3>2
    <3> HIDE DEF flow
    <3>4. ui' = UpdateIs(chip, card, flow)
      BY <1>1, <1>22, <3>3 DEF Update!Page, UpdateIs
    <3>5. SaysPending(chip, card) /\ srv.run = ui.loaded =>
             SaysPending(ui.chip, ui.card) \/ srv.pending
      BY <1>22
    <3>6. QED  BY <1>22, <3>1, <3>4, <3>5, UpdateStep
  <2>3. QED  BY <1>22, <2>1, <2>2 DEF Update!Step
<1>23. ASSUME NEW v, NEW f,
              Update!Step(f, Update!Failed(ui, v), "over"),
              UpdateAsks, srv' = srv
       PROVE  UpdateInv'
  <2>1. ui = UpdateIs(ui.chip, ui.card, ui.flow)
    BY <1>2
  <2>2. PICK chip \in Update!Chip, card \in Update!Card :
            /\ Update!Failed(ui, v)
               = UpdateIs(chip, card, ui.flow)
            /\ SaysPending(chip, card) => SaysPending(ui.chip, ui.card)
    BY <1>1, <1>2, <2>1, UpdateViews
  <2>3. QED  BY <1>22, <1>23, <2>2
<1>24. ASSUME NEW v, NEW f,
              Update!Step(f, Update!Complete(ui, v), "over"),
              srv.pending \/ srv.run # ui.loaded,
              UpdateAsks, srv' = srv
       PROVE  UpdateInv'
  <2>1. ui = UpdateIs(ui.chip, ui.card, ui.flow)
    BY <1>2
  <2>2. PICK chip \in Update!Chip, card \in Update!Card :
            Update!Complete(ui, v)
            = UpdateIs(chip, card, ui.flow)
    BY <1>1, <1>2, <2>1, UpdateViews
  <2>3. QED  BY <1>22, <1>24, <2>2
<1>25. ASSUME NEW f, Update!Step(f, ui, "waiting"), UpdateAsks, srv' = srv
       PROVE  UpdateInv'
  BY <1>2, <1>22, <1>25
<1>26. ASSUME NEW v \in Update!Views, NEW f \in UpdateFlows,
              Update!HandleUpdate(v, f)
       PROVE  UpdateInv'
  <2> DEFINE flow == [ui.flow EXCEPT ![f] = [of |-> v, step |-> "asked"]]
             u == UpdateIs(ui.chip, ui.card, flow)
  <2>1. flow \in [UpdateFlows -> UpdateFlow]
    BY <1>2 DEF UpdateFlow
  <2>2. ui' = Update!Updating(u, v)
    <3>1. u = [ui EXCEPT !.flow[f] = [of |-> v, step |-> "asked"]]
      BY <1>1 DEF UpdateIs, Update!Page
    <3>2. QED  BY <1>26, <3>1 DEF Update!HandleUpdate
  <2>3. UpdateAsks /\ srv' = srv
    BY <1>4, <1>26 DEF Update!HandleUpdate, UpdateOps, UpdateAskers
  <2> HIDE DEF flow
  <2>4. PICK chip \in Update!Chip, card \in Update!Card :
            /\ ui' = UpdateIs(chip, card, flow)
            /\ SaysPending(chip, card) => SaysPending(ui.chip, ui.card)
    BY <1>1, <2>1, <2>2, UpdateViews
  <2>5. QED  BY <2>1, <2>3, <2>4, UpdateStep
<1>27. ASSUME NEW r \in net,
              Update!UpdateReturns(r) \/ Update!PollReturns(r)
                \/ Update!RestartReturns(r)
       PROVE  UpdateInv'
  <2>1. UpdateAsks /\ srv' = srv /\ r.answer # None
    BY <1>4, <1>27 DEF Update!UpdateReturns, Update!PollReturns,
                       Update!RestartReturns, UpdateOps, UpdateAskers
  <2>2. CASE Update!UpdateReturns(r)
    BY <1>23, <1>25, <2>1, <2>2 DEF Update!UpdateReturns
  <2>3. CASE Update!PollReturns(r)
    <3>1. r.answer = "yes" => srv.pending \/ srv.run # ui.loaded
      BY <1>3, <2>1, <2>3 DEF Update!PollReturns
    <3>2. QED
      BY <1>24, <1>25, <2>1, <2>3, <3>1 DEF Update!PollReturns
  <2>4. CASE Update!RestartReturns(r)
    BY <1>7, <2>1, <2>4 DEF Update!RestartReturns
  <2>5. QED  BY <1>27, <2>2, <2>3, <2>4
<1>28. ASSUME NEW f \in UpdateFlows, Update!Poll(f) \/ Update!GiveUp(f)
       PROVE  UpdateInv'
  <2>1. UpdateAsks /\ srv' = srv
    BY <1>4, <1>28 DEF Update!Poll, Update!GiveUp, UpdateOps, UpdateAskers
  <2>2. CASE Update!Poll(f)
    <3>1. Update!Step(f, ui, "polling")
      BY <2>2 DEF Update!Poll, Update!Step
    <3>2. QED  BY <1>2, <1>22, <2>1, <3>1
  <2>3. CASE Update!GiveUp(f)
    BY <1>23, <2>1, <2>3 DEF Update!GiveUp
  <2>4. QED  BY <1>28, <2>2, <2>3
<1>29. ASSUME NEW r \in net, Update!ProbeReturns(r) PROVE UpdateInv'
  <2>1. CASE Update!Reload
    BY <2>1, UpdateReload
  <2>2. CASE /\ net' = (net \ {r}) \cup {Update!Asks("current", "probe")}
             /\ UNCHANGED <<ui, srv>>
    <3>1. UpdateAsks
      BY <1>4, <2>2 DEF UpdateOps, UpdateAskers
    <3>2. QED  BY <1>7, <2>2, <3>1
  <2>3. QED  BY <1>29, <2>1, <2>2 DEF Update!ProbeReturns
\* The server.
<1>30. ASSUME NEW r \in net, NEW answer \in {"yes", "no", "failed"},
              net' = (net \ {r}) \cup {[r EXCEPT !.answer = answer]},
              r.op = "current" /\ answer = "yes" => srv.pending,
              ui' = ui, srv' \in UpdateServer, srv'.run = srv.run,
              srv.pending => srv'.pending
       PROVE  UpdateInv'
  <2>1. /\ [r EXCEPT !.answer = answer] \in Update!Request
        /\ [r EXCEPT !.answer = answer].op = r.op
        /\ [r EXCEPT !.answer = answer].by = r.by
        /\ [r EXCEPT !.answer = answer].answer = answer
    BY <1>1 DEF Update!Request
  <2>2. /\ net' \subseteq Update!Request
        /\ \A s \in net' \ net :
              /\ s.op = "current" /\ s.answer = "yes" => srv.pending
              /\ s.op = "update" => s.by \in UpdateFlows
    BY <1>1, <1>30, <2>1 DEF UpdateInv
  <2>3. QED  BY <1>30, <2>2, UpdateServed
<1>31. ASSUME NEW r \in net, Update!Serve(r) PROVE UpdateInv'
  <2>1. /\ Update!Answer(r) \in {"yes", "no", "failed"}
        /\ r.op = "current" /\ Update!Answer(r) = "yes" => srv.pending
    BY DEF Update!Answer, Update!YesNo
  <2>2. r.op = "update" => r.by \in UpdateFlows
    BY DEF UpdateInv
  <2>3. srv' \in UpdateServer /\ srv'.run = srv.run /\ srv'.pending = srv.pending
    BY <1>1, <1>31, <2>2 DEF Update!Serve, UpdateServer
  <2>4. QED  BY <1>30, <1>31, <2>1, <2>3 DEF Update!Serve
<1>32. ASSUME NEW r \in net, Update!Fails(r) PROVE UpdateInv'
  BY <1>1, <1>30, <1>32 DEF Update!Fails
<1>33. ASSUME ui' = ui, net' = net, srv' \in UpdateServer, srv'.run = srv.run,
              srv.pending => srv'.pending
       PROVE  UpdateInv'
  <2>1. net' \subseteq Update!Request /\ net' \ net = {}
    BY <1>1, <1>33
  <2>2. QED  BY <1>33, <2>1, UpdateServed
<1>34. ASSUME NEW f \in UpdateFlows, Update!UpdateEnds(f) PROVE UpdateInv'
  <2>1. PICK ok \in BOOLEAN :
            srv' = [srv EXCEPT !.updates = srv.updates \ {f},
                               !.pending = srv.pending \/ ok]
    BY <1>1, <1>34 DEF Update!UpdateEnds, UpdateServer
  <2>2. /\ srv' \in UpdateServer /\ srv'.run = srv.run
        /\ srv.pending => srv'.pending
    BY <1>1, <2>1 DEF UpdateServer
  <2>3. ui' = ui /\ net' = net
    BY <1>34 DEF Update!UpdateEnds
  <2>4. QED  BY <1>33, <2>2, <2>3
<1>35. CASE Update!UpdateElsewhere \/ Update!RestartElsewhere \/ Update!Exit
  <2>1. /\ srv' \in UpdateServer /\ srv'.run = srv.run
        /\ srv.pending => srv'.pending
    <3>1. CASE srv' = [srv EXCEPT !.pending = TRUE]
      BY <1>1, <3>1 DEF UpdateServer
    <3>2. CASE srv' = [srv EXCEPT !.exiting = TRUE]
      BY <1>1, <3>2 DEF UpdateServer
    <3>3. CASE srv' = [srv EXCEPT !.up = FALSE, !.updates = {}]
      BY <1>1, <3>3 DEF UpdateServer
    <3>4. QED
      BY <1>35, <3>1, <3>2, <3>3
         DEF Update!UpdateElsewhere, Update!RestartElsewhere, Update!Exit
  <2>2. ui' = ui /\ net' = net
    BY <1>35
       DEF Update!UpdateElsewhere, Update!RestartElsewhere, Update!Exit
  <2>3. QED  BY <1>33, <2>1, <2>2
\* What was loaded from the old process is not the new one's.
<1>36. CASE Update!Start
  <2>1. ui' = ui /\ net' = net /\ srv.run = 0
    BY <1>36 DEF Update!Start
  <2>2. srv' \in UpdateServer /\ srv'.run = 1
    BY <1>36 DEF Update!Start, UpdateServer
  <2>3. ui.loaded \in 0 .. 1
    BY <1>1 DEF Update!Page
  <2>4. ui'.loaded <= srv'.run /\ srv'.run # ui'.loaded
    BY <2>1, <2>2, <2>3 DEF UpdateInv
  <2>5. Update!TypeOK'
    BY <1>1, <2>1, <2>2 DEF Update!TypeOK, UpdateServer
  <2>6. QED  BY <2>1, <2>4, <2>5 DEF UpdateInv
<1>37. QED
  BY <1>11, <1>12, <1>13, <1>14, <1>16, <1>17, <1>18, <1>19, <1>20, <1>21,
     <1>26, <1>27, <1>28, <1>29, <1>31, <1>32, <1>34, <1>35, <1>36
     DEF Update!Acts

-----------------------------------------------------------------------------
(* WebTunnelDetails: what is shown was fetched since the last change that   *)
(* the page knows of, but for what it sets itself.                          *)

TunnelNet == [details : SUBSET Tunnel!Detail, done : SUBSET Tunnel!Kinds]
TunnelServer == [tunnel : Tunnel!Detail, gone : BOOLEAN]

\* A request that has been carried out is still to be answered.
TunnelSound ==
    ~ui.crossed =>
       /\ \A d \in net.details : d = srv.tunnel
       /\ "restart" \in net.done => ui.restart = srv.tunnel.restart
       /\ ui.here /\ net.details = {} /\ ui.detail # None =>
             /\ ui.detail \in Tunnel!Detail
             /\ "action" \notin net.done
                   => ui.detail.running = srv.tunnel.running
             /\ "restart" \notin net.done
                   => ui.detail.restart = srv.tunnel.restart

TunnelInv ==
    /\ Tunnel!TypeOK
    /\ net.done \subseteq ui.asked
    /\ TunnelSound

LEMMA TunnelRests == TunnelInv => Tunnel!RestsOnTunnel
<1> SUFFICES ASSUME TunnelInv, ui.here, ui.detail # None, net.details = {},
                    ui.asked = {}, ~ui.crossed
             PROVE  ui.detail = srv.tunnel
  BY DEF Tunnel!RestsOnTunnel
<1>1. "action" \notin net.done /\ "restart" \notin net.done
  BY DEF TunnelInv
<1>2. /\ ui.detail \in Tunnel!Detail /\ srv.tunnel \in Tunnel!Detail
      /\ ui.detail.running = srv.tunnel.running
      /\ ui.detail.restart = srv.tunnel.restart
  BY <1>1 DEF TunnelInv, TunnelSound, Tunnel!TypeOK
<1>3. QED  BY <1>2 DEF Tunnel!Detail

LEMMA TunnelInit == Tunnel!Init => TunnelInv
<1> SUFFICES ASSUME Tunnel!Init PROVE TunnelInv
  OBVIOUS
<1>1. /\ ui \in Tunnel!Page /\ ui.detail = None
      /\ ui.asked = {} /\ net.done = {}
  BY DEF Tunnel!Init, Tunnel!Page, Tunnel!Modals, Tunnel!Actions
<1>2. srv \in TunnelServer /\ srv.tunnel \in Tunnel!Detail
  BY DEF Tunnel!Init, TunnelServer
<1>3. net \in TunnelNet /\ net.details = {srv.tunnel}
  BY <1>2 DEF Tunnel!Init, TunnelNet
<1>4. QED
  BY <1>1, <1>2, <1>3
     DEF TunnelInv, TunnelSound, Tunnel!TypeOK, TunnelNet, TunnelServer

LEMMA TunnelNext == TunnelInv /\ Tunnel!Next => TunnelInv'
<1> SUFFICES ASSUME TunnelInv, Tunnel!Next PROVE TunnelInv'
  OBVIOUS
<1>1. /\ ui \in Tunnel!Page /\ net \in TunnelNet /\ srv \in TunnelServer
      /\ srv.tunnel \in Tunnel!Detail /\ net.done \subseteq ui.asked
      /\ TunnelSound
  BY DEF TunnelInv, Tunnel!TypeOK, TunnelNet, TunnelServer
<1>2. ASSUME ui' \in Tunnel!Page, net' \in TunnelNet, srv' \in TunnelServer,
             net'.done \subseteq ui'.asked, TunnelSound'
      PROVE  TunnelInv'
  BY <1>2 DEF TunnelInv, Tunnel!TypeOK, TunnelNet, TunnelServer
\* Steps that show and know what was shown and known.
<1>3. ASSUME ui' \in Tunnel!Page, UNCHANGED <<net, srv>>,
             ui'.here => ui.here, ui'.detail = ui.detail \/ ~ui'.here,
             ui'.crossed = ui.crossed,
             ui'.restart = ui.restart \/ "restart" \notin net.done,
             net.done \subseteq ui'.asked
      PROVE  TunnelInv'
  BY <1>1, <1>2, <1>3 DEF TunnelSound
<1> DEFINE Fresh == net.details \cup {srv.tunnel}
<1>4. /\ Fresh \in SUBSET Tunnel!Detail /\ Fresh # {}
      /\ net.details = {} => \A d \in Fresh : d = srv.tunnel
  BY <1>1 DEF TunnelNet
<1> HIDE DEF Fresh
<1>5. /\ ui.crossed \in BOOLEAN /\ ui.here \in BOOLEAN /\ ui.restart \in BOOLEAN
      /\ ui.asked \in SUBSET Tunnel!Kinds /\ ui.modal \in Tunnel!Modals
      /\ ui.action \in Tunnel!Actions /\ net.done \in SUBSET Tunnel!Kinds
  BY <1>1 DEF Tunnel!Page, TunnelNet
<1>6. CASE Tunnel!FetchQuietly
  <2> DEFINE c == ui.crossed /\ (net.details # {} \/ ui.asked # {})
  <2>1. ui' = [ui EXCEPT !.crossed = c]
    BY <1>6, Zenon DEF Tunnel!FetchQuietly, Tunnel!Fetched
  <2>2. c \in BOOLEAN
    OBVIOUS
  <2>3. ~c => ~ui.crossed \/ (net.details = {} /\ ui.asked = {})
    OBVIOUS
  <2> HIDE DEF c
  <2>4. /\ ui' \in Tunnel!Page /\ ui'.crossed = c /\ ui'.asked = ui.asked
        /\ ui'.restart = ui.restart
    BY <1>1, <2>1, <2>2 DEF Tunnel!Page
  <2>5. net' = [net EXCEPT !.details = Fresh] /\ srv' = srv
    BY <1>6 DEF Tunnel!FetchQuietly, Tunnel!FetchingDetail, Fresh
  <2>6. net' \in TunnelNet /\ net'.details = Fresh /\ net'.done = net.done
    BY <1>1, <1>4, <2>5 DEF TunnelNet
  <2>7. ASSUME ~c PROVE /\ \A d \in Fresh : d = srv.tunnel
                        /\ "restart" \in net.done
                              => ui.restart = srv.tunnel.restart
    BY <1>1, <1>4, <2>3, <2>7 DEF TunnelSound, Fresh
  <2>8. TunnelSound'
    BY <1>4, <2>4, <2>5, <2>6, <2>7 DEF TunnelSound
  <2>9. QED  BY <1>1, <1>2, <2>4, <2>5, <2>6, <2>8
<1>7. ASSUME NEW d \in net.details,
             Tunnel!DetailReturns(d) \/ Tunnel!DetailFails(d)
      PROVE  TunnelInv'
  <2>1. /\ net' \in TunnelNet /\ net'.details \subseteq net.details
        /\ net'.done = net.done /\ srv' = srv
    BY <1>1, <1>7 DEF Tunnel!DetailReturns, Tunnel!DetailFails, Tunnel!Brought,
                      TunnelNet
  <2>2. d \in Tunnel!Detail
    BY <1>1 DEF TunnelNet
  <2>3. CASE Tunnel!DetailReturns(d)
    <3>1. /\ ui' \in Tunnel!Page /\ ui'.here = ui.here
          /\ ui.here => ui'.detail = d
          /\ ui'.crossed = ui.crossed /\ ui'.asked = ui.asked
          /\ ui'.restart = ui.restart
      BY <1>1, <2>2, <2>3 DEF Tunnel!DetailReturns, Tunnel!Page
    <3>2. TunnelSound'
      BY <1>1, <2>1, <2>2, <3>1 DEF TunnelSound
    <3>3. QED  BY <1>1, <1>2, <2>1, <3>1, <3>2
  <2>4. CASE Tunnel!DetailFails(d)
    <3>1. ui' \in Tunnel!Page /\ ui'.crossed /\ ui'.asked = ui.asked
      BY <1>1, <2>4 DEF Tunnel!DetailFails, Tunnel!Page
    <3>2. TunnelSound'
      BY <3>1 DEF TunnelSound
    <3>3. QED  BY <1>1, <1>2, <2>1, <3>1, <3>2
  <2>5. QED  BY <1>7, <2>3, <2>4
<1>8. CASE Tunnel!CloseModal \/ \E m \in Tunnel!Modals : Tunnel!OpenModal(m)
  <2>1. PICK m \in Tunnel!Modals :
            ui' = [ui EXCEPT !.modal = m] /\ UNCHANGED <<net, srv>>
    BY <1>8 DEF Tunnel!CloseModal, Tunnel!OpenModal, Tunnel!Modals
  <2>2. /\ ui' \in Tunnel!Page /\ ui'.here = ui.here /\ ui'.detail = ui.detail
        /\ ui'.crossed = ui.crossed /\ ui'.restart = ui.restart
        /\ ui'.asked = ui.asked
    BY <1>1, <2>1 DEF Tunnel!Page
  <2>3. QED  BY <1>1, <1>3, <2>1, <2>2
<1>9. CASE Tunnel!Leave
  <2>1. ui' = [ui EXCEPT !.here = FALSE, !.modal = "none", !.detail = None]
        /\ UNCHANGED <<net, srv>>
    BY <1>9 DEF Tunnel!Leave, Tunnel!Left
  <2>2. /\ ui' \in Tunnel!Page /\ ~ui'.here /\ ui'.asked = ui.asked
        /\ ui'.crossed = ui.crossed /\ ui'.restart = ui.restart
    BY <1>1, <2>1 DEF Tunnel!Page, Tunnel!Modals
  <2>3. QED  BY <1>1, <1>3, <2>1, <2>2
<1>10. ASSUME NEW a \in Tunnel!Actions, Tunnel!RunAction(a) PROVE TunnelInv'
  <2>1. ui' = [ui EXCEPT !.asked = @ \cup {"action"}, !.action = a]
        /\ UNCHANGED <<net, srv>>
    BY <1>10 DEF Tunnel!RunAction
  <2>2. ui.asked \cup {"action"} \in SUBSET Tunnel!Kinds
    BY <1>5 DEF Tunnel!Kinds
  <2>3. /\ ui' \in Tunnel!Page /\ ui'.here = ui.here /\ ui'.detail = ui.detail
        /\ ui'.crossed = ui.crossed /\ ui'.restart = ui.restart
        /\ ui'.asked = ui.asked \cup {"action"}
    BY <1>1, <2>1, <2>2 DEF Tunnel!Page
  <2>4. QED  BY <1>1, <1>3, <2>1, <2>3
<1>11. CASE Tunnel!UpdateRestart
  <2> DEFINE b == ~ui.detail.restart
  <2>1. ui' = [ui EXCEPT !.asked = @ \cup {"restart"}, !.restart = b]
        /\ UNCHANGED <<net, srv>> /\ "restart" \notin ui.asked
    BY <1>11 DEF Tunnel!UpdateRestart, Tunnel!MayAsk
  <2>2. ui.asked \cup {"restart"} \in SUBSET Tunnel!Kinds /\ b \in BOOLEAN
    BY <1>5 DEF Tunnel!Kinds
  <2> HIDE DEF b
  <2>3. /\ ui' \in Tunnel!Page /\ ui'.here = ui.here /\ ui'.detail = ui.detail
        /\ ui'.crossed = ui.crossed
        /\ ui'.asked = ui.asked \cup {"restart"}
    BY <1>1, <2>1, <2>2 DEF Tunnel!Page
  <2>4. QED  BY <1>1, <1>3, <2>1, <2>3
<1>12. CASE Tunnel!ConfirmReset \/ Tunnel!ConfirmDelete
  <2>1. PICK k \in {"reset", "delete"} :
            ui' = [ui EXCEPT !.asked = @ \cup {k}] /\ UNCHANGED <<net, srv>>
    BY <1>12 DEF Tunnel!ConfirmReset, Tunnel!ConfirmDelete
  <2>2. ui.asked \cup {k} \in SUBSET Tunnel!Kinds
    BY <1>5 DEF Tunnel!Kinds
  <2>3. /\ ui' \in Tunnel!Page /\ ui'.here = ui.here /\ ui'.detail = ui.detail
        /\ ui'.crossed = ui.crossed /\ ui'.restart = ui.restart
        /\ ui'.asked = ui.asked \cup {k}
    BY <1>1, <2>1, <2>2 DEF Tunnel!Page
  <2>4. QED  BY <1>1, <1>3, <2>1, <2>3
<1>13. ASSUME NEW k \in Tunnel!Kinds, Tunnel!Carry(k) PROVE TunnelInv'
  <2> DEFINE c == ui.crossed \/ net.details # {}
             t == [running |-> IF k = "action" THEN ui.action # "stop"
                               ELSE srv.tunnel.running,
                   restart |-> IF k = "restart" THEN ui.restart
                               ELSE srv.tunnel.restart]
             g == k = "delete"
  <2>1. /\ ui' = [ui EXCEPT !.crossed = c]
        /\ net' = [net EXCEPT !.done = @ \cup {k}]
        /\ srv' = [tunnel |-> t, gone |-> g] /\ k \in ui.asked
    BY <1>13, Zenon DEF Tunnel!Carry
  <2>2. /\ c \in BOOLEAN /\ g \in BOOLEAN
        /\ ~c => ~ui.crossed /\ net.details = {}
    OBVIOUS
  <2>3. /\ t \in Tunnel!Detail
        /\ k # "action" => t.running = srv.tunnel.running
        /\ k = "restart" => t.restart = ui.restart
        /\ k # "restart" => t.restart = srv.tunnel.restart
    BY <1>1, <1>5 DEF Tunnel!Detail
  <2> HIDE DEF c, t, g
  <2>4. /\ ui' \in Tunnel!Page /\ ui'.crossed = c /\ ui'.asked = ui.asked
        /\ ui'.restart = ui.restart /\ ui'.here = ui.here
        /\ ui'.detail = ui.detail
    BY <1>1, <2>1, <2>2 DEF Tunnel!Page
  <2>5. /\ net' \in TunnelNet /\ net'.details = net.details
        /\ net'.done = net.done \cup {k}
    BY <1>1, <2>1 DEF TunnelNet
  <2>6. srv' \in TunnelServer /\ srv'.tunnel = t
    BY <2>1, <2>2, <2>3 DEF TunnelServer
  <2>7. TunnelSound'
    BY <1>1, <2>2, <2>3, <2>4, <2>5, <2>6 DEF TunnelSound
  <2>8. QED  BY <1>1, <1>2, <2>1, <2>4, <2>5, <2>6, <2>7
<1>14. CASE Tunnel!Elsewhere
  <2>1. /\ ui' = [ui EXCEPT !.crossed = TRUE] /\ net' = net
        /\ srv' \in TunnelServer
    BY <1>1, <1>14 DEF Tunnel!Elsewhere, TunnelServer
  <2>2. ui' \in Tunnel!Page /\ ui'.crossed /\ ui'.asked = ui.asked
    BY <1>1, <2>1 DEF Tunnel!Page
  <2>3. TunnelSound'
    BY <2>2 DEF TunnelSound
  <2>4. QED  BY <1>1, <1>2, <2>1, <2>2, <2>3
\* The end of a request.
<1>15. ASSUME NEW k \in Tunnel!Kinds
       PROVE  /\ Tunnel!Ended(k) \in Tunnel!Page
              /\ Tunnel!Ended(k).asked = ui.asked \ {k}
              /\ Tunnel!Ended(k).here = ui.here
              /\ Tunnel!Ended(k).detail = ui.detail
              /\ Tunnel!Ended(k).modal = ui.modal
              /\ Tunnel!Ended(k).crossed = ui.crossed
              /\ k # "restart" => Tunnel!Ended(k).restart = ui.restart
  <2> DEFINE b == ui.restart /\ k # "restart"
             a == IF k = "action" THEN "start" ELSE ui.action
  <2>1. Tunnel!Ended(k) =
            [ui EXCEPT !.asked = ui.asked \ {k}, !.action = a, !.restart = b]
    BY <1>1, Zenon DEF Tunnel!Ended, Tunnel!Page
  <2>2. /\ a \in Tunnel!Actions /\ b \in BOOLEAN
        /\ ui.asked \ {k} \in SUBSET Tunnel!Kinds
        /\ k # "restart" => b = ui.restart
    BY <1>5 DEF Tunnel!Actions
  <2> HIDE DEF a, b
  <2>3. QED  BY <1>1, <2>1, <2>2 DEF Tunnel!Page
<1>16. ASSUME NEW k \in Tunnel!Kinds, Tunnel!RequestFails(k) PROVE TunnelInv'
  <2> DEFINE c == ui.crossed \/ k \in net.done
  <2>1. /\ ui' = [Tunnel!Ended(k) EXCEPT !.crossed = c]
        /\ net' = [net EXCEPT !.done = @ \ {k}] /\ srv' = srv
    <3>1. Tunnel!Ended(k).crossed = ui.crossed
      BY <1>15
    <3>2. QED  BY <1>16, <3>1 DEF Tunnel!RequestFails
  <2>2. c \in BOOLEAN /\ (~c => ~ui.crossed /\ k \notin net.done)
    BY <1>5
  <2> HIDE DEF c
  <2>3. /\ ui' \in Tunnel!Page /\ ui'.crossed = c /\ ui'.asked = ui.asked \ {k}
        /\ ui'.here = ui.here /\ ui'.detail = ui.detail
        /\ k # "restart" => ui'.restart = ui.restart
    BY <1>15, <2>1, <2>2 DEF Tunnel!Page
  <2>4. /\ net' \in TunnelNet /\ net'.details = net.details
        /\ net'.done = net.done \ {k}
    BY <1>1, <2>1 DEF TunnelNet
  <2>5. TunnelSound'
    BY <1>1, <2>1, <2>2, <2>3, <2>4 DEF TunnelSound
  <2>6. QED  BY <1>1, <1>2, <2>1, <2>3, <2>4, <2>5
\* A request that is answered, the detail being fetched after it.
<1>17. ASSUME NEW k \in {"action", "reset"}, NEW m \in Tunnel!Modals,
              Tunnel!Answered(k, Fresh),
              ui' = Tunnel!Fetched([Tunnel!Ended(k) EXCEPT !.modal = m])
       PROVE  TunnelInv'
  <2> DEFINE e == [Tunnel!Ended(k) EXCEPT !.modal = m]
             c == e.crossed /\ (net.details # {} \/ e.asked # {})
  <2>1. k \in Tunnel!Kinds /\ k # "restart"
    BY DEF Tunnel!Kinds
  <2>2. /\ e \in Tunnel!Page /\ e.asked = ui.asked \ {k} /\ e.here = ui.here
        /\ e.detail = ui.detail /\ e.crossed = ui.crossed
        /\ e.restart = ui.restart
    BY <1>15, <2>1 DEF Tunnel!Page
  <2>3. ui' = [e EXCEPT !.crossed = c]
    BY <1>17, Zenon DEF Tunnel!Fetched
  <2> HIDE DEF e
  <2>4. /\ c \in BOOLEAN
        /\ ~c => ~ui.crossed \/ (net.details = {} /\ ui.asked \ {k} = {})
    BY <2>2
  <2> HIDE DEF c
  <2>5. /\ ui' \in Tunnel!Page /\ ui'.crossed = c /\ ui'.asked = ui.asked \ {k}
        /\ ui'.restart = ui.restart
    BY <2>2, <2>3, <2>4 DEF Tunnel!Page
  <2>6. /\ net' \in TunnelNet /\ net'.details = Fresh
        /\ net'.done = net.done \ {k} /\ srv' = srv
    BY <1>4, <1>5, <1>17 DEF Tunnel!Answered, TunnelNet
  <2>7. ASSUME ~c PROVE /\ \A d \in Fresh : d = srv.tunnel
                        /\ "restart" \in net.done
                              => ui.restart = srv.tunnel.restart
    BY <1>1, <1>4, <2>1, <2>4, <2>7 DEF TunnelSound, Fresh
  <2>8. TunnelSound'
    BY <1>4, <2>1, <2>5, <2>6, <2>7 DEF TunnelSound
  <2>9. QED  BY <1>1, <1>2, <2>5, <2>6, <2>8
<1>18. CASE Tunnel!ActionReturns
  <2>1. "action" \in Tunnel!Kinds
    BY DEF Tunnel!Kinds
  <2>2. Tunnel!Ended("action") =
            [Tunnel!Ended("action") EXCEPT !.modal = ui.modal]
    BY <1>15, <2>1 DEF Tunnel!Page
  <2>3. QED  BY <1>5, <1>17, <1>18, <2>2
             DEF Tunnel!ActionReturns, Tunnel!FetchingDetail, Fresh
<1>19. CASE Tunnel!ResetReturns
  <2> DEFINE m == IF ui.modal = "reset" THEN "none" ELSE ui.modal
  <2>1. "reset" \in Tunnel!Kinds /\ m \in Tunnel!Modals
    BY <1>5 DEF Tunnel!Kinds, Tunnel!Modals
  <2>2. ui' = Tunnel!Fetched([Tunnel!Ended("reset") EXCEPT !.modal = m])
    <3>1. Tunnel!Ended("reset").modal = ui.modal
      BY <1>15, <2>1
    <3>2. QED  BY <1>19, <3>1 DEF Tunnel!ResetReturns
  <2> HIDE DEF m
  <2>3. QED  BY <1>17, <1>19, <2>1, <2>2
             DEF Tunnel!ResetReturns, Tunnel!FetchingDetail, Fresh
<1>20. CASE Tunnel!RestartReturns
  <2> DEFINE d == IF ui.detail = None THEN None
                  ELSE [ui.detail EXCEPT !.restart = ui.restart]
             e == Tunnel!Ended("restart")
  <2>1. "restart" \in Tunnel!Kinds /\ "restart" \in net.done
    BY <1>20 DEF Tunnel!Kinds, Tunnel!RestartReturns, Tunnel!Answered
  <2>2. /\ e \in Tunnel!Page /\ e.asked = ui.asked \ {"restart"}
        /\ e.here = ui.here /\ e.detail = ui.detail /\ e.crossed = ui.crossed
    BY <1>15, <2>1
  <2>3. ui' = [e EXCEPT !.detail = d]
    BY <1>20, <2>2 DEF Tunnel!RestartReturns, Tunnel!Turned
  <2> HIDE DEF e
  <2>4. /\ d \in Tunnel!Detail \cup {None}
        /\ d # None => /\ ui.detail # None /\ ui.detail \in Tunnel!Detail
                       /\ d \in Tunnel!Detail
                       /\ d.running = ui.detail.running
                       /\ d.restart = ui.restart
    <3>1. CASE ui.detail = None
      BY <3>1
    <3>2. CASE ui.detail # None
      BY <1>1, <1>5, <3>2 DEF Tunnel!Page, Tunnel!Detail
    <3>3. QED  BY <3>1, <3>2
  <2> HIDE DEF d
  <2>5. /\ ui' \in Tunnel!Page /\ ui'.asked = ui.asked \ {"restart"}
        /\ ui'.here = ui.here /\ ui'.detail = d /\ ui'.crossed = ui.crossed
    BY <2>2, <2>3, <2>4 DEF Tunnel!Page
  <2>6. /\ net' \in TunnelNet /\ net'.details = net.details
        /\ net'.done = net.done \ {"restart"} /\ srv' = srv
    BY <1>1, <1>20 DEF Tunnel!RestartReturns, Tunnel!Answered, TunnelNet
  <2>7. TunnelSound'
    BY <1>1, <2>1, <2>4, <2>5, <2>6 DEF TunnelSound
  <2>8. QED  BY <1>1, <1>2, <2>5, <2>6, <2>7
<1>21. CASE Tunnel!DeleteReturns
  <2> DEFINE e == Tunnel!Ended("delete")
  <2>1. /\ e \in Tunnel!Page /\ e.asked = ui.asked \ {"delete"}
        /\ e.crossed = ui.crossed /\ e.restart = ui.restart
    BY <1>15 DEF Tunnel!Kinds
  <2>2. ui' = [e EXCEPT !.here = FALSE, !.modal = "none", !.detail = None]
    BY <1>21 DEF Tunnel!DeleteReturns, Tunnel!Left
  <2> HIDE DEF e
  <2>3. /\ ui' \in Tunnel!Page /\ ~ui'.here /\ ui'.crossed = ui.crossed
        /\ ui'.asked = ui.asked \ {"delete"} /\ ui'.restart = ui.restart
    BY <2>1, <2>2 DEF Tunnel!Page, Tunnel!Modals
  <2>4. /\ net' \in TunnelNet /\ net'.details = net.details
        /\ net'.done = net.done \ {"delete"} /\ srv' = srv
    BY <1>1, <1>21 DEF Tunnel!DeleteReturns, Tunnel!Answered, TunnelNet
  <2>5. TunnelSound'
    BY <1>1, <2>3, <2>4 DEF TunnelSound
  <2>6. QED  BY <1>1, <1>2, <2>3, <2>4, <2>5
<1>22. QED
  BY <1>6, <1>7, <1>8, <1>9, <1>10, <1>11, <1>12, <1>13, <1>14, <1>16, <1>18,
     <1>19, <1>20, <1>21 DEF Tunnel!Next

-----------------------------------------------------------------------------
(* WebGroups: what is renamed is the group whose name is edited, if one is. *)

GroupsInv ==
    /\ Grouping!TypeOK
    /\ ui.action.op = "rename" => ui.editing \in {None, ui.action.group}

LEMMA GroupsFacts ==
    /\ Grouping!Idle \in Grouping!Action /\ Grouping!Idle.op = "none"
    /\ None \in Groups \cup {None}
    /\ \A groups \in SUBSET Groups, after \in BOOLEAN :
          [groups |-> groups, after |-> after] \in Grouping!List
BY DEF Grouping!Idle, Grouping!Action, Grouping!List

LEMMA GroupsInit == Grouping!Init => GroupsInv
BY GroupsFacts DEF Grouping!Init, GroupsInv, Grouping!TypeOK, Grouping!Page

LEMMA GroupsNext ==
    GroupsInv /\ Grouping!Next => GroupsInv' /\ Grouping!AnswerKeepsOtherForms
<1> SUFFICES ASSUME GroupsInv, Grouping!Next
             PROVE  GroupsInv' /\ Grouping!AnswerKeepsOtherForms
  OBVIOUS
<1>1. /\ ui \in Grouping!Page /\ net \subseteq Grouping!List
      /\ srv \subseteq Groups
  BY DEF GroupsInv, Grouping!TypeOK
<1>2. /\ ui.action \in Grouping!Action /\ ui.editing \in Groups \cup {None}
      /\ ui.deleting \in Groups \cup {None}
  BY <1>1 DEF Grouping!Page
\* Steps under a request: the form stays, closes with the drawer, or is the
\* request's.
<1>3. ASSUME ui' \in Grouping!Page, net' \subseteq Grouping!List,
             srv' \subseteq Groups,
             ui'.action \in Grouping!Action,
             ui'.action = ui.action \/ ui'.action.op # "rename",
             \/ ui'.editing = ui.editing \/ ui.action = Grouping!Idle
             \/ ui'.editing = None /\ ~ui'.open
             \/ ui'.editing = None /\ ui.editing \in {None, ui.action.group}
      PROVE  GroupsInv' /\ Grouping!AnswerKeepsOtherForms
  <2>1. Grouping!TypeOK'
    BY <1>3 DEF Grouping!TypeOK
  <2>2. ui'.action.op = "rename" => ui'.editing \in {None, ui'.action.group}
    BY <1>3, GroupsFacts DEF GroupsInv
  <2>3. Grouping!AnswerKeepsOtherForms
    BY <1>3 DEF Grouping!AnswerKeepsOtherForms
  <2>4. QED  BY <2>1, <2>2, <2>3 DEF GroupsInv
<1>4. CASE Grouping!LoadGroups
  <2>1. /\ ui' \in Grouping!Page /\ ui'.action = ui.action
        /\ ui'.editing = ui.editing
    BY <1>1, <1>4 DEF Grouping!LoadGroups, Grouping!Page
  <2>2. /\ net' = net \cup {[groups |-> srv, after |-> FALSE]}
        /\ srv' = srv
    BY <1>4 DEF Grouping!LoadGroups
  <2>3. QED  BY <1>1, <1>2, <1>3, <2>1, <2>2, GroupsFacts
<1>5. CASE \E l \in net : Grouping!GroupsReturn(l)
  <2>1. PICK l \in net : Grouping!GroupsReturn(l)
    BY <1>5
  <2> DEFINE op == IF l.after THEN "saved" ELSE ui.action.op
             a == [ui.action EXCEPT !.op = op]
  <2>2. /\ a \in Grouping!Action
        /\ a = ui.action \/ a.op # "rename"
    BY <1>2 DEF Grouping!Action
  <2>3. PICK groups \in {l.groups, ui.groups} :
            ui' = [ui EXCEPT !.groups = groups, !.loading = FALSE,
                       !.action.op = IF l.after THEN "saved" ELSE @]
    BY <2>1 DEF Grouping!GroupsReturn
  <2>4. groups \in SUBSET Groups
    BY <1>1 DEF Grouping!Page, Grouping!List
  <2>5. ui' = [ui EXCEPT !.groups = groups, !.loading = FALSE, !.action = a]
    BY <1>1, <1>2, <2>3 DEF Grouping!Page, Grouping!Action
  <2> HIDE DEF op, a
  <2>6. /\ ui' \in Grouping!Page /\ ui'.action = a
        /\ ui'.editing = ui.editing
    BY <1>1, <2>2, <2>4, <2>5 DEF Grouping!Page
  <2>7. net' \subseteq net /\ srv' = srv
    BY <2>1 DEF Grouping!GroupsReturn
  <2>8. QED  BY <1>1, <1>3, <2>2, <2>6, <2>7
<1>6. CASE Grouping!HandleOpenChange
  <2>1. /\ ui' \in Grouping!Page /\ ui'.action = ui.action
        /\ ui'.editing = None /\ ~ui'.open
    BY <1>1, <1>6 DEF Grouping!HandleOpenChange, Grouping!Page
  <2>2. net' = net /\ srv' = srv
    BY <1>6 DEF Grouping!HandleOpenChange
  <2>3. QED  BY <1>1, <1>2, <1>3, <2>1, <2>2
\* The forms wait for the request.
<1>7. CASE \/ Grouping!ShowCreate \/ Grouping!CancelCreate
           \/ Grouping!CancelEditing \/ Grouping!CancelDelete
           \/ Grouping!SetNewName \/ Grouping!SetEditName
           \/ \E g \in Groups : Grouping!StartEditing(g) \/ Grouping!AskDelete(g)
  <2>1. ui.action = Grouping!Idle /\ net' = net /\ srv' = srv
    BY <1>7 DEF Grouping!ShowCreate, Grouping!CancelCreate,
                Grouping!CancelEditing, Grouping!CancelDelete,
                Grouping!SetNewName, Grouping!SetEditName,
                Grouping!StartEditing, Grouping!AskDelete,
                Grouping!CreateForm, Grouping!EditForm, Grouping!Busy
  <2>2. ui' \in Grouping!Page /\ ui'.action = ui.action
    <3>1. CASE Grouping!ShowCreate \/ Grouping!CancelCreate
               \/ Grouping!CancelEditing \/ Grouping!CancelDelete
      <4>1. CASE Grouping!ShowCreate
        BY <1>1, <4>1 DEF Grouping!ShowCreate, Grouping!Page
      <4>2. CASE Grouping!CancelCreate
        BY <1>1, <4>2 DEF Grouping!CancelCreate, Grouping!Page
      <4>3. CASE Grouping!CancelEditing
        BY <1>1, <4>3 DEF Grouping!CancelEditing, Grouping!Page
      <4>4. CASE Grouping!CancelDelete
        BY <1>1, <4>4 DEF Grouping!CancelDelete, Grouping!Page
      <4>5. QED  BY <3>1, <4>1, <4>2, <4>3, <4>4
    <3>2. CASE Grouping!SetNewName \/ Grouping!SetEditName
      BY <1>1, <3>2
         DEF Grouping!SetNewName, Grouping!SetEditName, Grouping!Page
    <3>3. CASE \E g \in Groups :
                  Grouping!StartEditing(g) \/ Grouping!AskDelete(g)
      <4>1. ASSUME NEW g \in Groups, Grouping!StartEditing(g)
            PROVE  ui' \in Grouping!Page /\ ui'.action = ui.action
        <5>1. ui' = [ui EXCEPT !.editing = g, !.editName = FALSE,
                               !.creating = FALSE, !.newName = FALSE]
          BY <4>1 DEF Grouping!StartEditing
        <5>2. QED  BY <1>1, <5>1 DEF Grouping!Page
      <4>2. ASSUME NEW g \in Groups, Grouping!AskDelete(g)
            PROVE  ui' \in Grouping!Page /\ ui'.action = ui.action
        BY <1>1, <4>2 DEF Grouping!AskDelete, Grouping!Page
      <4>3. QED  BY <3>3, <4>1, <4>2
    <3>4. QED  BY <1>7, <3>1, <3>2, <3>3
  <2>3. QED  BY <1>1, <1>2, <1>3, <2>1, <2>2
\* A request is made, for the form that is shown.
<1>8. ASSUME NEW op \in {"create", "rename", "delete"},
             NEW g \in Groups \cup {None}, Grouping!Sends(op, g),
             ~Grouping!Busy, op = "rename" => g = ui.editing
      PROVE  GroupsInv' /\ Grouping!AnswerKeepsOtherForms
  <2> DEFINE action == [op |-> op, group |-> g]
  <2>1. /\ action \in Grouping!Action
        /\ action.op = op /\ action.group = g
    BY DEF Grouping!Action
  <2>2. ui' = [ui EXCEPT !.action = action] /\ net' = net /\ srv' = srv
    BY <1>8 DEF Grouping!Sends
  <2> HIDE DEF action
  <2>3. /\ ui' \in Grouping!Page /\ ui'.action = action
        /\ ui'.editing = ui.editing
    BY <1>1, <2>1, <2>2 DEF Grouping!Page
  <2>4. Grouping!TypeOK'
    BY <1>1, <2>2, <2>3 DEF Grouping!TypeOK
  <2>5. QED
    BY <1>8, <2>1, <2>3, <2>4 DEF GroupsInv, Grouping!AnswerKeepsOtherForms
<1>9. CASE Grouping!CreateGroup \/ Grouping!RenameGroup \/ Grouping!DeleteGroup
  BY <1>2, <1>8, <1>9
     DEF Grouping!CreateGroup, Grouping!RenameGroup, Grouping!DeleteGroup,
         Grouping!CreateForm, Grouping!EditForm
\* It is answered.
<1>10. ASSUME NEW u \in Grouping!Page, NEW groups \in SUBSET Groups,
              Grouping!Succeeds(u, groups),
              \/ u.editing = ui.editing
              \/ u.editing = None /\ ui.editing \in {None, ui.action.group}
       PROVE  GroupsInv' /\ Grouping!AnswerKeepsOtherForms
  <2> DEFINE a == [op |-> "list", group |-> None]
  <2>1. a \in Grouping!Action /\ a.op = "list"
    BY DEF Grouping!Action
  <2>2. ui' = [u EXCEPT !.action = a, !.loading = TRUE]
    BY <1>10 DEF Grouping!Succeeds
  <2> HIDE DEF a
  <2>3. /\ ui' \in Grouping!Page /\ ui'.action = a
        /\ ui'.editing = u.editing
    BY <1>10, <2>1, <2>2 DEF Grouping!Page
  <2>4. net' \subseteq Grouping!List /\ srv' \subseteq Groups
    BY <1>1, <1>10, GroupsFacts DEF Grouping!Succeeds
  <2>5. QED  BY <1>3, <1>10, <2>1, <2>3, <2>4
<1>11. ASSUME NEW g \in Groups, Grouping!CreateReturns(g)
       PROVE  GroupsInv' /\ Grouping!AnswerKeepsOtherForms
  <2> DEFINE u == [ui EXCEPT !.creating = FALSE, !.newName = FALSE]
  <2>1. u \in Grouping!Page /\ u.editing = ui.editing
    BY <1>1 DEF Grouping!Page
  <2>2. Grouping!Succeeds(u, srv \cup {g}) /\ srv \cup {g} \in SUBSET Groups
    BY <1>1, <1>11 DEF Grouping!CreateReturns
  <2> HIDE DEF u
  <2>3. QED  BY <1>10, <2>1, <2>2
<1>12. CASE Grouping!RenameReturns
  <2> DEFINE u == [ui EXCEPT !.editing = None, !.editName = FALSE]
  <2>1. u \in Grouping!Page /\ u.editing = None
    BY <1>1 DEF Grouping!Page
  <2>2. Grouping!Succeeds(u, srv) /\ ui.action.op = "rename"
    BY <1>12 DEF Grouping!RenameReturns
  <2> HIDE DEF u
  <2>3. ui.editing \in {None, ui.action.group}
    BY <2>2 DEF GroupsInv
  <2>4. QED  BY <1>1, <1>10, <2>1, <2>2, <2>3
<1>13. CASE Grouping!DeleteReturns
  <2> DEFINE kept == [ui EXCEPT !.deleting = None]
             shut == [ui EXCEPT !.deleting = None, !.editing = None,
                                !.editName = FALSE]
             u == IF ui.editing = ui.action.group THEN shut ELSE kept
  <2>1. /\ kept \in Grouping!Page /\ kept.editing = ui.editing
        /\ shut \in Grouping!Page /\ shut.editing = None
    BY <1>1 DEF Grouping!Page
  <2>2. /\ Grouping!Succeeds(u, srv \ {ui.action.group})
        /\ srv \ {ui.action.group} \in SUBSET Groups
    BY <1>1, <1>13 DEF Grouping!DeleteReturns
  <2> HIDE DEF kept, shut
  <2>3. /\ u \in Grouping!Page
        /\ \/ u.editing = ui.editing
           \/ u.editing = None /\ ui.editing \in {None, ui.action.group}
    BY <2>1
  <2> HIDE DEF u
  <2>4. QED  BY <1>10, <2>2, <2>3
<1>14. CASE Grouping!ActionFails \/ Grouping!RefreshEnds
  <2>1. ui' = [ui EXCEPT !.action = Grouping!Idle] /\ UNCHANGED <<net, srv>>
    BY <1>14 DEF Grouping!ActionFails, Grouping!RefreshEnds
  <2>2. /\ ui' \in Grouping!Page /\ ui'.action = Grouping!Idle
        /\ ui'.editing = ui.editing
    BY <1>1, <2>1, GroupsFacts DEF Grouping!Page
  <2>3. QED  BY <1>1, <1>3, <2>1, <2>2, GroupsFacts
<1>15. QED
  BY <1>4, <1>5, <1>6, <1>7, <1>9, <1>11, <1>12, <1>13, <1>14
     DEF Grouping!Next

-----------------------------------------------------------------------------
(* WebTunnels: lists that come do not change what a modal is about.         *)

LEMMA TunnelsFacts ==
    /\ MaxTunnel \in Nat \ {0, 1} /\ PageSize \in Nat \ {0}
    /\ MaxLists \in Nat \ {0} /\ 1 \in TunnelList!Pages
    /\ TunnelList!All \in (SUBSET TunnelList!TunnelNumbers)
                           \cup {TunnelList!All}
<1>1. /\ MaxTunnel \in Nat \ {0, 1} /\ PageSize \in Nat \ {0}
      /\ MaxLists \in Nat \ {0}
  BY PagesAssumption DEF TunnelList!TunnelsAssumption
<1>2. 1 \in TunnelList!Pages
  BY <1>1 DEF TunnelList!Pages
<1>3. QED  BY <1>1, <1>2

\* What a quotient is.
LEMMA Quotient ==
    ASSUME NEW k \in Int, NEW m \in Nat \ {0}
    PROVE  /\ k \div m \in Int
           /\ (k \div m) * m <= k /\ k < (k \div m + 1) * m
OBVIOUS

\* The pages of n rows.
LEMMA PagesOf ==
    ASSUME NEW n \in 1 .. MaxTunnel
    PROVE  (n + PageSize - 1) \div PageSize \in TunnelList!Pages
<1> DEFINE q == (n + PageSize - 1) \div PageSize
<1>1. /\ q \in Int /\ q * PageSize <= n + PageSize - 1
      /\ n + PageSize - 1 < (q + 1) * PageSize
  <2>1. n + PageSize - 1 \in Int /\ PageSize \in Nat \ {0}
    BY TunnelsFacts
  <2>2. QED  BY <2>1, Quotient
<1> HIDE DEF q
<1>2. q >= 1
  <2>1. SUFFICES ASSUME q + 1 <= 1 PROVE FALSE
    BY <1>1
  <2>2. (q + 1) * PageSize <= 1 * PageSize
    BY <1>1, <2>1, TunnelsFacts
  <2>3. QED  BY <1>1, <2>2, TunnelsFacts
<1>3. q <= n
  <2>1. SUFFICES ASSUME q >= n + 1 PROVE FALSE
    BY <1>1
  <2>2. q * PageSize >= (n + 1) * PageSize
    BY <1>1, <2>1, TunnelsFacts
  <2>3. (n + 1) * PageSize >= n + PageSize
    BY TunnelsFacts
  <2>4. QED  BY <1>1, <2>2, <2>3, TunnelsFacts
<1>4. QED  BY <1>1, <1>2, <1>3, TunnelsFacts DEF TunnelList!Pages, q

LEMMA TunnelsCardinality ==
    \A s : TunnelList!Cardinality(s) = Cardinality(s)
BY Zenon DEF TunnelList!Cardinality, Cardinality

LEMMA ListTyped ==
    ASSUME NEW s \in SUBSET TunnelList!TunnelNumbers, NEW p
    PROVE  TunnelList!ListOf(s, p) \in TunnelList!List
<1>1. IsFiniteSet(TunnelList!TunnelNumbers)
      /\ Cardinality(TunnelList!TunnelNumbers) = MaxTunnel
  BY TunnelsFacts, FS_Interval DEF TunnelList!TunnelNumbers
<1>2. Cardinality(s) \in Nat /\ Cardinality(s) <= MaxTunnel
  BY <1>1, FS_Subset, FS_CardinalityType
<1> DEFINE n == (Cardinality(s) + PageSize - 1) \div PageSize
           rows == {t \in s : /\ TunnelList!Place(s, t) > (p - 1) * PageSize
                              /\ TunnelList!Place(s, t) <= p * PageSize}
           pages == IF n = 0 THEN 1 ELSE n
<1>3. pages \in TunnelList!Pages
  <2>1. CASE Cardinality(s) = 0
    <3>1. /\ n \in Int /\ n * PageSize <= PageSize - 1
          /\ PageSize - 1 < (n + 1) * PageSize
      <4>1. PageSize - 1 \in Int /\ PageSize \in Nat \ {0}
        BY TunnelsFacts
      <4>2. n = (PageSize - 1) \div PageSize
        BY <2>1, TunnelsFacts
      <4> HIDE DEF n
      <4>3. QED  BY <4>1, <4>2, Quotient
    <3> HIDE DEF n
    <3>2. ~(n >= 1)
      <4>1. SUFFICES ASSUME n >= 1 PROVE FALSE
        OBVIOUS
      <4>2. n * PageSize >= 1 * PageSize
        BY <3>1, <4>1, TunnelsFacts
      <4>3. QED  BY <3>1, <4>2, TunnelsFacts
    <3>3. ~(n + 1 <= 0)
      <4>1. SUFFICES ASSUME n + 1 <= 0 PROVE FALSE
        OBVIOUS
      <4>2. (n + 1) * PageSize <= 0
        BY <3>1, <4>1, TunnelsFacts
      <4>3. QED  BY <3>1, <4>2, TunnelsFacts
    <3>4. QED  BY <3>1, <3>2, <3>3, TunnelsFacts
  <2>2. CASE Cardinality(s) # 0
    <3>1. Cardinality(s) \in 1 .. MaxTunnel
      BY <1>2, <2>2, TunnelsFacts
    <3>2. n \in TunnelList!Pages
      BY <3>1, PagesOf
    <3> HIDE DEF n
    <3>3. QED  BY <3>2, TunnelsFacts
  <2>3. QED  BY <2>1, <2>2
<1>4. rows \in SUBSET TunnelList!TunnelNumbers
  OBVIOUS
<1>5. TunnelList!ListOf(s, p) = [rows |-> rows, pages |-> pages]
  BY ONLY TunnelsCardinality DEF TunnelList!ListOf
<1> HIDE DEF rows, pages
<1>6. QED  BY <1>3, <1>4, <1>5 DEF TunnelList!List

LEMMA TunnelsInit == TunnelList!Init => TunnelList!TypeOK
<1> SUFFICES ASSUME TunnelList!Init PROVE TunnelList!TypeOK
  OBVIOUS
<1>1. ui \in TunnelList!Page
  BY TunnelsFacts DEF TunnelList!Init, TunnelList!Page, TunnelList!Modals
<1>2. QED  BY <1>1 DEF TunnelList!Init, TunnelList!TypeOK

LEMMA TunnelsNext ==
    TunnelList!TypeOK /\ TunnelList!Next
    => TunnelList!TypeOK' /\ TunnelList!ConfirmedStays
<1> SUFFICES ASSUME TunnelList!TypeOK, TunnelList!Next
             PROVE  TunnelList!TypeOK' /\ TunnelList!ConfirmedStays
  OBVIOUS
<1>1. /\ ui \in TunnelList!Page /\ net \subseteq TunnelList!List
      /\ srv \subseteq TunnelList!TunnelNumbers
  BY DEF TunnelList!TypeOK
<1>2. /\ ui.picked \in (SUBSET TunnelList!TunnelNumbers)
                        \cup {TunnelList!All}
      /\ ui.rows \subseteq TunnelList!TunnelNumbers
      /\ ui.deleting \subseteq TunnelList!TunnelNumbers
      /\ ui.page \in TunnelList!Pages /\ ui.modal \in TunnelList!Modals
      /\ ui.target \in TunnelList!TunnelNumbers \cup {0}
      /\ "none" \in TunnelList!Modals
      /\ {} \in (SUBSET TunnelList!TunnelNumbers) \cup {TunnelList!All}
  BY <1>1 DEF TunnelList!Page, TunnelList!Modals
<1>3. /\ TunnelList!SelectedIds \in SUBSET TunnelList!TunnelNumbers
      /\ TunnelList!DeleteTargets \in SUBSET TunnelList!TunnelNumbers
  BY <1>2 DEF TunnelList!SelectedIds, TunnelList!DeleteTargets
<1>4. \A s \in SUBSET TunnelList!TunnelNumbers : \A p :
          TunnelList!Fetching(s, p) \subseteq TunnelList!List
  BY <1>1, ListTyped DEF TunnelList!Fetching
\* What is picked, the target and the modal stay; or no question is open, or
\* it is answered.
<1>5. ASSUME ui' \in TunnelList!Page, net' \subseteq TunnelList!List,
             srv' \subseteq TunnelList!TunnelNumbers,
             \/ ui.modal \notin {"one", "batch"} \/ ui'.modal # ui.modal
             \/ ui'.picked = ui.picked /\ ui'.target = ui.target
      PROVE  TunnelList!TypeOK' /\ TunnelList!ConfirmedStays
  BY <1>5
     DEF TunnelList!TypeOK, TunnelList!ConfirmedStays, TunnelList!DeleteModal,
         TunnelList!DeleteTargets, TunnelList!SelectedIds
<1>6. CASE TunnelList!FetchTunnels
  <2>1. ui' = ui /\ srv' = srv /\ net' = TunnelList!Fetching(srv, ui.page)
    BY <1>6 DEF TunnelList!FetchTunnels
  <2>2. QED  BY <1>1, <1>4, <1>5, <2>1
<1>7. CASE \E l \in net : TunnelList!ListReturns(l)
  <2>1. PICK l \in net : TunnelList!ListReturns(l)
    BY <1>7
  <2>2. l.rows \in SUBSET TunnelList!TunnelNumbers /\ l.pages \in TunnelList!Pages
    BY <1>1 DEF TunnelList!List
  <2>3. /\ ui' = [ui EXCEPT !.rows = l.rows, !.pages = l.pages]
        /\ net' \subseteq net /\ srv' = srv
    BY <2>1 DEF TunnelList!ListReturns, TunnelList!Shows
  <2>4. /\ ui' \in TunnelList!Page
        /\ ui'.picked = ui.picked /\ ui'.target = ui.target
    BY <1>1, <2>2, <2>3 DEF TunnelList!Page
  <2>5. QED  BY <1>1, <1>5, <2>3, <2>4
<1>8. ASSUME NEW p \in TunnelList!Pages, ui' = [ui EXCEPT !.page = p],
             net' = TunnelList!Fetching(srv, p), srv' = srv
      PROVE  TunnelList!TypeOK' /\ TunnelList!ConfirmedStays
  <2>1. /\ ui' \in TunnelList!Page
        /\ ui'.picked = ui.picked /\ ui'.target = ui.target
    BY <1>1, <1>8 DEF TunnelList!Page
  <2>2. QED  BY <1>1, <1>4, <1>5, <1>8, <2>1
<1>9. CASE TunnelList!ResetFilters
           \/ \E p \in TunnelList!Pages : TunnelList!SetPage(p)
  BY <1>8, <1>9, TunnelsFacts DEF TunnelList!ResetFilters, TunnelList!SetPage
\* No question is open.
<1>10. ASSUME NEW picked \in (SUBSET TunnelList!TunnelNumbers)
                              \cup {TunnelList!All},
              ui' = [ui EXCEPT !.picked = picked], ui.modal = "none",
              net' = net, srv' = srv
       PROVE  TunnelList!TypeOK' /\ TunnelList!ConfirmedStays
  <2>1. ui' \in TunnelList!Page
    BY <1>1, <1>10 DEF TunnelList!Page
  <2>2. QED  BY <1>1, <1>5, <1>10, <2>1
<1>11. CASE TunnelList!TableSelectsAll
  <2> DEFINE picked == IF ui.picked = TunnelList!All THEN {}
                       ELSE TunnelList!All
  <2>1. ui' = [ui EXCEPT !.picked = picked]
    BY <1>1, <1>11 DEF TunnelList!TableSelectsAll, TunnelList!Page
  <2>2. picked \in (SUBSET TunnelList!TunnelNumbers) \cup {TunnelList!All}
    BY <1>2
  <2>3. QED  BY <1>10, <1>11, <2>1, <2>2 DEF TunnelList!TableSelectsAll
<1>12. CASE \E t \in TunnelList!TunnelNumbers : TunnelList!TableSelects(t)
  <2>1. PICK t \in TunnelList!TunnelNumbers : TunnelList!TableSelects(t)
    BY <1>12
  <2> DEFINE picked == IF t \in TunnelList!SelectedIds
                       THEN TunnelList!SelectedIds \ {t}
                       ELSE TunnelList!SelectedIds \cup {t}
  <2>2. picked \in (SUBSET TunnelList!TunnelNumbers) \cup {TunnelList!All}
    BY <1>3
  <2>3. /\ ui' = [ui EXCEPT !.picked = picked] /\ ui.modal = "none"
        /\ net' = net /\ srv' = srv
    BY <2>1 DEF TunnelList!TableSelects
  <2> HIDE DEF picked
  <2>4. QED  BY <1>10, <2>2, <2>3
<1>13. ASSUME NEW modal \in TunnelList!Modals,
              NEW target \in TunnelList!TunnelNumbers \cup {0},
              ui' = [ui EXCEPT !.modal = modal, !.target = target],
              modal # ui.modal,
              net' \subseteq TunnelList!List,
              srv' \subseteq TunnelList!TunnelNumbers
       PROVE  TunnelList!TypeOK' /\ TunnelList!ConfirmedStays
  <2>1. ui' \in TunnelList!Page /\ ui'.modal = modal
    BY <1>1, <1>13 DEF TunnelList!Page
  <2>2. QED  BY <1>5, <1>13, <2>1
<1>14. CASE \E m \in TunnelList!Modals, t \in TunnelList!TunnelNumbers \cup {0} :
               TunnelList!OpenModal(m, t)
  <2>1. PICK m \in TunnelList!Modals, t \in TunnelList!TunnelNumbers \cup {0} :
            TunnelList!OpenModal(m, t)
    BY <1>14
  <2> DEFINE target == IF m = "one" THEN t ELSE 0
  <2>2. target \in TunnelList!TunnelNumbers \cup {0}
    OBVIOUS
  <2>3. /\ ui' = [ui EXCEPT !.modal = m, !.target = target]
        /\ m # ui.modal /\ net' = net /\ srv' = srv
    BY <2>1 DEF TunnelList!OpenModal
  <2> HIDE DEF target
  <2>4. QED  BY <1>1, <1>13, <2>2, <2>3
<1>15. CASE TunnelList!CloseModal
  <2>1. /\ ui' = [ui EXCEPT !.modal = "none", !.target = 0]
        /\ ui.modal # "none" /\ net' = net /\ srv' = srv
    BY <1>15 DEF TunnelList!CloseModal
  <2>2. QED  BY <1>1, <1>2, <1>13, <2>1
<1>16. ASSUME NEW p \in TunnelList!Pages \cup {0},
              ui' = [ui EXCEPT !.creating = p], net' = net,
              srv' \subseteq TunnelList!TunnelNumbers
       PROVE  TunnelList!TypeOK' /\ TunnelList!ConfirmedStays
  <2>1. /\ ui' \in TunnelList!Page
        /\ ui'.picked = ui.picked /\ ui'.target = ui.target
    BY <1>1, <1>16 DEF TunnelList!Page
  <2>2. QED  BY <1>1, <1>5, <1>16, <2>1
<1>17. CASE TunnelList!SubmitUrlCreate \/ TunnelList!UrlFails
  <2>1. srv \cup {MaxTunnel} \subseteq TunnelList!TunnelNumbers
    BY <1>1, TunnelsFacts DEF TunnelList!TunnelNumbers
  <2>2. QED
    BY <1>1, <1>2, <1>16, <1>17, <2>1
       DEF TunnelList!SubmitUrlCreate, TunnelList!UrlFails
<1>18. CASE TunnelList!UrlReturns
  <2> DEFINE modal == IF ui.modal = "url" THEN "none" ELSE ui.modal
  <2>1. /\ ui' = [ui EXCEPT !.modal = modal, !.creating = 0]
        /\ srv' = srv \cup {MaxTunnel}
        /\ net' = TunnelList!Fetching(srv', ui.creating)
    BY <1>1, <1>18 DEF TunnelList!UrlReturns, TunnelList!Page
  <2>2. modal \in TunnelList!Modals
    BY <1>2
  <2> HIDE DEF modal
  <2>3. /\ ui' \in TunnelList!Page
        /\ ui'.picked = ui.picked /\ ui'.target = ui.target
    BY <1>1, <2>1, <2>2 DEF TunnelList!Page
  <2>4. srv' \in SUBSET TunnelList!TunnelNumbers
    BY <1>1, <2>1, TunnelsFacts DEF TunnelList!TunnelNumbers
  <2>5. net' \subseteq TunnelList!List
    BY <1>4, <2>1, <2>4
  <2>6. QED  BY <1>5, <2>3, <2>4, <2>5
\* The question is answered.
<1>19. CASE TunnelList!ConfirmDelete
  <2> DEFINE to == IF TunnelList!Cardinality(TunnelList!DeleteTargets)
                      = TunnelList!Cardinality(ui.rows)
                   THEN ui.page - 1 ELSE 0
  <2>1. /\ ui' = [ui EXCEPT !.deleting = TunnelList!DeleteTargets,
                     !.deletesOne = ui.target # 0, !.from = ui.page,
                     !.to = to]
        /\ net' = net /\ srv' = srv
    BY <1>19 DEF TunnelList!ConfirmDelete
  <2>2. to \in TunnelList!Pages \cup {0}
    BY <1>2, TunnelsFacts DEF TunnelList!Pages
  <2> HIDE DEF to
  <2>3. ui' \in TunnelList!Page
    BY <1>1, <1>2, <1>3, <2>1, <2>2 DEF TunnelList!Page
  <2>4. ui'.picked = ui.picked /\ ui'.target = ui.target
    BY <1>1, <2>1 DEF TunnelList!Page
  <2>5. QED  BY <1>1, <1>5, <2>1, <2>3, <2>4
<1>20. ASSUME NEW u \in TunnelList!Page
       PROVE  /\ TunnelList!Deleted(u) \in TunnelList!Page
              /\ TunnelList!Deleted(u).picked = u.picked
              /\ TunnelList!Deleted(u).target = u.target
              /\ TunnelList!Deleted(u).modal = u.modal
  BY <1>20, TunnelsFacts DEF TunnelList!Deleted, TunnelList!Page
<1>21. CASE TunnelList!DeleteFails
  <2>1. ui' = TunnelList!Deleted(ui) /\ net' = net /\ srv' \subseteq srv
    BY <1>21 DEF TunnelList!DeleteFails
  <2>2. QED  BY <1>1, <1>5, <1>20, <2>1
<1>22. CASE TunnelList!DeleteReturns
  <2> DEFINE p == IF ui.to # 0 THEN ui.to ELSE ui.page
             picked == IF ui.deletesOne THEN ui.picked ELSE {}
             modal == IF ui.modal \in {"one", "batch"} THEN "none" ELSE ui.modal
             u == [ui EXCEPT !.page = p, !.target = 0, !.picked = picked,
                             !.modal = modal]
  <2>1. /\ ui' = TunnelList!Deleted(u)
        /\ srv' = srv \ ui.deleting
        /\ \/ net' = net
           \/ net' = TunnelList!Fetching(srv', p)
           \/ net' = TunnelList!Fetching(srv', ui.from)
    BY <1>1, <1>22 DEF TunnelList!DeleteReturns, TunnelList!Page
  <2>2. /\ p \in TunnelList!Pages /\ modal \in TunnelList!Modals
        /\ picked \in (SUBSET TunnelList!TunnelNumbers)
                       \cup {TunnelList!All}
    BY <1>1, <1>2 DEF TunnelList!Page
  <2>3. ui.modal \in {"one", "batch"} => modal = "none"
    OBVIOUS
  <2> HIDE DEF p, picked, modal
  <2>4. u \in TunnelList!Page /\ u.modal = modal
    BY <1>1, <2>2 DEF TunnelList!Page
  <2> HIDE DEF u
  <2>5. ui' \in TunnelList!Page /\ ui'.modal = modal
    BY <1>20, <2>1, <2>4
  <2>6. srv' \in SUBSET TunnelList!TunnelNumbers
    BY <1>1, <2>1
  <2>7. net' \subseteq TunnelList!List
    BY <1>1, <1>4, <2>1, <2>6
  <2>8. ui.modal \in {"one", "batch"} => ui'.modal # ui.modal
    BY <2>3, <2>5
  <2>9. QED  BY <1>5, <2>5, <2>6, <2>7, <2>8
<1>23. QED
  BY <1>6, <1>7, <1>9, <1>11, <1>12, <1>14, <1>15, <1>17, <1>18, <1>19,
     <1>21, <1>22
     DEF TunnelList!Next

-----------------------------------------------------------------------------
(* WebTrend: one request is on its way at a time, and what the server has   *)
(* answered to it is no older than what is shown.                           *)

TrendVersions == 0 .. MaxVersion

TrendInv ==
    /\ Trend!TypeOK
    /\ ui.timer => ui.inst # None
    /\ \A r, q \in net : r = q
    /\ ui.data # None => ui.data.version <= srv
    /\ \A r \in net : r.answer # None =>
          /\ r.answer <= srv
          /\ ui.data # None => r.answer >= ui.data.version

LEMMA TrendTypes ==
    /\ None \notin Insts /\ MaxVersion \in Nat
    /\ Trend!TypeOK <=> /\ ui \in Trend!Page /\ net \subseteq Trend!Request
                        /\ srv \in TrendVersions
BY PagesAssumption DEF Trend!TrendAssumption, Trend!TypeOK, TrendVersions

LEMMA TrendInit == Trend!Init => TrendInv
<1> SUFFICES ASSUME Trend!Init PROVE TrendInv
  OBVIOUS
<1>1. ui \in Trend!Page /\ ui.timer = FALSE /\ ui.data = None
  BY DEF Trend!Init, Trend!Page
<1>2. net = {} /\ srv \in TrendVersions
  BY TrendTypes DEF Trend!Init, TrendVersions
<1>3. QED  BY <1>1, <1>2, TrendTypes DEF TrendInv

\* A request takes the place of the one before it.
LEMMA TrendFetch ==
    ASSUME TrendInv, NEW inst \in Insts, NEW quiet \in BOOLEAN,
           Trend!Fetch(inst, quiet)
    PROVE  TrendInv' /\ Trend!NeverOlder
<1>1. /\ ui \in Trend!Page /\ net \subseteq Trend!Request
      /\ srv \in TrendVersions
  BY TrendTypes DEF TrendInv
<1> DEFINE r == [inst |-> inst, quiet |-> quiet, answer |-> None]
           loading == Trend!Loading(quiet)
<1>2. r \in Trend!Request /\ r.answer = None
  BY DEF Trend!Request
<1>3. loading \in BOOLEAN
  BY <1>1 DEF Trend!Loading, Trend!Page
<1>4. /\ net' = {r} /\ srv' = srv
      /\ ui' = [ui EXCEPT !.inst = inst, !.timer = TRUE, !.error = FALSE,
                          !.loading = loading]
  BY DEF Trend!Fetch, Trend!Aborted
<1> HIDE DEF r, loading
<1>5. ui' \in Trend!Page /\ ui'.inst = inst /\ ui'.data = ui.data
  BY <1>1, <1>3, <1>4 DEF Trend!Page
<1>6. Trend!TypeOK'
  BY <1>1, <1>2, <1>4, <1>5 DEF Trend!TypeOK, TrendVersions
<1>7. TrendInv'
  BY <1>2, <1>4, <1>5, <1>6, TrendTypes DEF TrendInv
<1>8. Trend!NeverOlder
  <2>1. ui.data # None => ui.data.version \in TrendVersions
    BY <1>1 DEF Trend!Page, Trend!Series, TrendVersions
  <2>2. QED  BY <1>5, <2>1 DEF Trend!NeverOlder, TrendVersions
<1>9. QED  BY <1>7, <1>8

LEMMA TrendNext == TrendInv /\ Trend!Next => TrendInv' /\ Trend!NeverOlder
<1> SUFFICES ASSUME TrendInv, Trend!Next PROVE TrendInv' /\ Trend!NeverOlder
  OBVIOUS
<1>1. /\ ui \in Trend!Page /\ net \subseteq Trend!Request
      /\ srv \in TrendVersions
  BY TrendTypes DEF TrendInv
<1>2. /\ ui.inst \in Insts \cup {None} /\ ui.data \in Trend!Series \cup {None}
      /\ ui.data # None => ui.data.version \in TrendVersions
      /\ ui.loading \in BOOLEAN
  BY <1>1 DEF Trend!Page, Trend!Series, TrendVersions
<1>3. CASE Trend!Refresh \/ Trend!Poll \/ \E i \in Insts : Trend!Show(i)
  <2>1. PICK inst \in Insts, quiet \in BOOLEAN : Trend!Fetch(inst, quiet)
    BY <1>2, <1>3 DEF Trend!Refresh, Trend!Poll, Trend!Show, TrendInv
  <2>2. QED  BY <2>1, TrendFetch
<1>4. CASE Trend!ShowNothing
  <2>1. ui' \in Trend!Page /\ ui'.data = None /\ ui'.timer = FALSE
    BY <1>1, <1>4 DEF Trend!ShowNothing, Trend!Page
  <2>2. net' = net /\ srv' = srv
    BY <1>4 DEF Trend!ShowNothing
  <2>3. Trend!TypeOK'
    BY <1>1, <2>1, <2>2 DEF Trend!TypeOK, TrendVersions
  <2>4. TrendInv'
    BY <2>1, <2>2, <2>3 DEF TrendInv
  <2>5. QED  BY <2>1, <2>4 DEF Trend!NeverOlder
<1>5. CASE Trend!Unmount
  <2>1. /\ ui' \in Trend!Page /\ ui'.data = ui.data /\ ui'.inst = ui.inst
        /\ ui'.timer = FALSE
    BY <1>1, <1>5 DEF Trend!Unmount, Trend!Page
  <2>2. net' = {} /\ srv' = srv
    BY <1>5 DEF Trend!Unmount, Trend!Aborted
  <2>3. Trend!TypeOK'
    BY <1>1, <2>1, <2>2 DEF Trend!TypeOK, TrendVersions
  <2>4. TrendInv'
    BY <2>1, <2>2, <2>3 DEF TrendInv
  <2>5. QED  BY <1>2, <2>1, <2>4 DEF Trend!NeverOlder, TrendVersions
<1>6. CASE Trend!Sample
  <2>1. ui' = ui /\ net' = net /\ srv' \in TrendVersions /\ srv' > srv
    BY <1>1, <1>6, TrendTypes DEF Trend!Sample, TrendVersions
  <2>2. Trend!TypeOK'
    BY <1>1, <2>1 DEF Trend!TypeOK, TrendVersions
  <2>3. \A r \in net : r.answer # None => r.answer \in TrendVersions
    BY <1>1 DEF Trend!Request, TrendVersions
  <2>4. TrendInv'
    BY <1>1, <1>2, <2>1, <2>2, <2>3 DEF TrendInv, TrendVersions
  <2>5. QED  BY <1>2, <2>1, <2>4 DEF Trend!NeverOlder, TrendVersions
<1>7. ASSUME NEW r \in net, Trend!Serve(r)
      PROVE  TrendInv' /\ Trend!NeverOlder
  <2> DEFINE s == [r EXCEPT !.answer = srv]
  <2>1. s \in Trend!Request /\ s.answer = srv
    BY <1>1 DEF Trend!Request, TrendVersions
  <2>2. net' = {s} /\ ui' = ui /\ srv' = srv
    BY <1>7 DEF Trend!Serve, TrendInv
  <2> HIDE DEF s
  <2>3. Trend!TypeOK'
    BY <1>1, <2>1, <2>2 DEF Trend!TypeOK, TrendVersions
  <2>4. TrendInv'
    BY <1>1, <1>2, <2>1, <2>2, <2>3 DEF TrendInv, TrendVersions
  <2>5. QED  BY <1>2, <2>2, <2>4 DEF Trend!NeverOlder, TrendVersions
\* The answer is the only one.
<1>8. ASSUME NEW r \in net, NEW u \in Trend!Page, Trend!Returned(r, u),
             u.timer = ui.timer, u.inst = ui.inst,
             \/ u.data = ui.data
             \/ r.answer # None /\ u.data.version = r.answer
      PROVE  TrendInv' /\ Trend!NeverOlder
  <2>1. net' = {} /\ srv' = srv
    BY <1>8 DEF Trend!Returned, TrendInv
  <2>2. /\ ui' \in Trend!Page /\ ui'.timer = ui.timer /\ ui'.inst = ui.inst
        /\ ui'.data \in {ui.data, u.data}
    <3>1. CASE ui' = ui
      BY <1>1, <3>1
    <3>2. CASE ui' = [u EXCEPT !.loading = u.loading /\ r.quiet]
      <4>1. (u.loading /\ r.quiet) \in BOOLEAN
        OBVIOUS
      <4>2. QED  BY <1>8, <3>2, <4>1 DEF Trend!Page
    <3>3. QED  BY <1>8, <3>1, <3>2 DEF Trend!Returned
  <2>3. Trend!TypeOK'
    BY <1>1, <2>1, <2>2 DEF Trend!TypeOK, TrendVersions
  <2>4. r.answer # None =>
            /\ r.answer \in TrendVersions /\ r.answer <= srv
            /\ ui.data # None => r.answer >= ui.data.version
    BY <1>1 DEF TrendInv, Trend!Request, TrendVersions
  <2>5. ui'.data # None => ui'.data.version <= srv
    BY <1>8, <2>2, <2>4 DEF TrendInv
  <2>6. TrendInv'
    BY <2>1, <2>2, <2>3, <2>5 DEF TrendInv
  <2>7. ui.data # None /\ ui'.data # None
        => ui'.data.version >= ui.data.version
    BY <1>2, <1>8, <2>2, <2>4 DEF TrendVersions
  <2>8. QED  BY <2>6, <2>7 DEF Trend!NeverOlder
<1>9. ASSUME NEW r \in net, Trend!Returns(r)
      PROVE  TrendInv' /\ Trend!NeverOlder
  <2> DEFINE data == [inst |-> r.inst, version |-> r.answer]
             u == [ui EXCEPT !.data = data]
  <2>1. r.answer # None /\ r \in Trend!Request /\ Trend!Returned(r, u)
    BY <1>1, <1>9 DEF Trend!Returns
  <2>2. data \in Trend!Series /\ data.version = r.answer
    BY <2>1 DEF Trend!Series, Trend!Request
  <2> HIDE DEF data
  <2>3. u \in Trend!Page /\ u.timer = ui.timer /\ u.inst = ui.inst
        /\ u.data = data
    BY <1>1, <2>2 DEF Trend!Page
  <2> HIDE DEF u
  <2>4. QED  BY <1>8, <2>1, <2>2, <2>3
<1>10. ASSUME NEW r \in net, Trend!Fails(r)
       PROVE  TrendInv' /\ Trend!NeverOlder
  <2> DEFINE u == [ui EXCEPT !.error = TRUE]
  <2>1. u \in Trend!Page /\ u.timer = ui.timer /\ u.inst = ui.inst
        /\ u.data = ui.data
    BY <1>1 DEF Trend!Page
  <2>2. Trend!Returned(r, u)
    BY <1>10 DEF Trend!Fails
  <2> HIDE DEF u
  <2>3. QED  BY <1>8, <2>1, <2>2
<1>11. QED
  BY <1>3, <1>4, <1>5, <1>6, <1>7, <1>9, <1>10 DEF Trend!Next

-----------------------------------------------------------------------------
(* WebApp: what the page that is shown has begun.                           *)

BegunInv ==
    /\ Shows("setup") => SetupInv
    /\ Shows("details") => DetailsInv
    /\ Shows("nodes") => NodesInv
    /\ Shows("actions") => ActionsInv
    /\ Shows("cleanup") => CleanupInv
    /\ Shows("update") => UpdateInv
    /\ Shows("log") => LogInv
    /\ Shows("tunnel") => TunnelInv
    /\ Shows("charts") => ChartsInv
    /\ Shows("debug") => DebugInv

LEMMA CleanupStays == CleanupInv /\ UNCHANGED <<ui, net, srv>> => CleanupInv'
BY DEF CleanupInv, Cleanup!TypeOK

LEMMA ChartsStay == ChartsInv /\ UNCHANGED <<ui, net, srv>> => ChartsInv'
BY DEF ChartsInv, Charts!TypeOK, Charts!HoldsItsSocket, Charts!Live

LEMMA BegunInit == AppInit => BegunInv
BY SetupInit, DetailsInit, NodesInit, ActionsInit, CleanupInit, UpdateInit,
   LogInit, TunnelInit, ChartsInit, DebugInit DEF AppInit, BegunInv, Shows

LEMMA BegunStay == BegunInv /\ UNCHANGED appVars => BegunInv'
<1> SUFFICES ASSUME BegunInv, UNCHANGED <<page, ui, net, srv>>
             PROVE  BegunInv'
  BY DEF appVars
<1>1. SetupInv => SetupInv'
  BY DEF SetupInv, Setup!TypeOK, Setup!LeavesInitialized
<1>2. DetailsInv => DetailsInv'
  BY DEF DetailsInv, Details!TypeOK, Details!EditReconnects
<1>3. NodesInv => NodesInv'
  BY DEF NodesInv, NodeList!TypeOK
<1>4. ActionsInv => ActionsInv'
  BY DEF ActionsInv, Actions!TypeOK, Actions!BusyEnds
<1>5. CleanupInv => CleanupInv'
  BY CleanupStays
<1>6. UpdateInv => UpdateInv'
  BY DEF UpdateInv, Update!TypeOK
<1>7. LogInv => LogInv'
  BY DEF LogInv, Log!TypeOK, Log!RestsOnFile
<1>8. ChartsInv => ChartsInv'
  BY ChartsStay
<1>9. DebugInv => DebugInv'
  BY DEF DebugInv, Debug!TypeOK, Debug!HoldsItsSource
<1>10. TunnelInv => TunnelInv'
  BY DEF TunnelInv, TunnelSound, Tunnel!TypeOK
<1>11. QED
  BY <1>1, <1>2, <1>3, <1>4, <1>5, <1>6, <1>7, <1>8, <1>9, <1>10
     DEF BegunInv, Shows

LEMMA BegunNext == BegunInv /\ [AppNext]_appVars => BegunInv'
<1> SUFFICES ASSUME BegunInv, AppNext PROVE BegunInv'
  BY BegunStay
<1>1. page' = page
  BY DEF AppNext
<1>2. QED
  BY <1>1, SetupNext, DetailsNext, NodesNext, ActionsNext, CleanupNext,
     UpdateNext, LogNext, TunnelNext, ChartsNext, DebugNext
     DEF AppNext, BegunInv, Shows

LEMMA BegunIsFinished == BegunInv => WhatIsBegunIsFinished
<1>1. SetupInv => Setup!LeavesInitialized
  BY DEF SetupInv
<1>2. DetailsInv => Details!EditReconnects
  BY DEF DetailsInv
<1>3. NodesInv => NodeList!EditReconnects
  BY DEF NodesInv, NodeList!EditReconnects, NodesFlowOK
<1>4. ActionsInv => Actions!BusyEnds
  BY DEF ActionsInv
<1>5. CleanupInv => Cleanup!OwnRunKeepsBusy
  BY DEF CleanupInv, Cleanup!OwnRunKeepsBusy, Cleanup!IsBusy
<1>6. UpdateInv => Update!PendingIsSeen
  BY DEF UpdateInv, Update!PendingIsSeen, Update!PendingRestart, SaysPending
<1>7. LogInv => Log!RestsOnFile
  BY DEF LogInv
<1>8. ChartsInv => Charts!HoldsItsSocket
  BY DEF ChartsInv
<1>9. DebugInv => Debug!HoldsItsSource
  BY DEF DebugInv
<1>10. QED
  BY <1>1, <1>2, <1>3, <1>4, <1>5, <1>6, <1>7, <1>8, <1>9, TunnelRests
     DEF BegunInv, WhatIsBegunIsFinished

\* For every set of nodes, tunnels, dates, instances and versions, and every
\* order of clicks, timers, answers, failures and restarts: what a page has
\* begun is not left half done (the wizard goes on to the login of a
\* server that is set up as it says, an edit that came to its end leaves no
\* node cut off, no row stays busy without an action, the page's own clean-up
\* keeps its buttons disabled, a restart is offered only when the update is
\* in place, the log rests on the day that is chosen and the page of a tunnel
\* on what it is, where no answers crossed, and no socket or source is open
\* but the one that is held).  Of a flow given up at a write that failed
\* nothing is said: it does leave the node disconnected.
THEOREM WhatIsBegunEnds == AppSpec => []WhatIsBegunIsFinished
<1>1. QED  BY BegunInit, BegunNext, BegunIsFinished, PTL DEF AppSpec

-----------------------------------------------------------------------------
(* WebApp: answers that come late.                                          *)

LateInv ==
    /\ Shows("groups") => GroupsInv
    /\ Shows("tunnels") => TunnelList!TypeOK
    /\ Shows("trend") => TrendInv
    /\ Shows("charts") => ChartsInv
    /\ Shows("cleanup") => CleanupInv

LEMMA LateInit == AppInit => LateInv
BY GroupsInit, TunnelsInit, TrendInit, ChartsInit, CleanupInit
   DEF AppInit, LateInv, Shows

LEMMA LateStay == LateInv /\ UNCHANGED appVars => LateInv'
<1> SUFFICES ASSUME LateInv, UNCHANGED <<page, ui, net, srv>>
             PROVE  LateInv'
  BY DEF appVars
<1>2. GroupsInv => GroupsInv'
  BY DEF GroupsInv, Grouping!TypeOK
<1>3. TunnelList!TypeOK => TunnelList!TypeOK'
  BY DEF TunnelList!TypeOK
<1>4. TrendInv => TrendInv'
  BY DEF TrendInv, Trend!TypeOK
<1>5. QED
  BY <1>2, <1>3, <1>4, ChartsStay, CleanupStays
     DEF LateInv, Shows

LEMMA LateNext == LateInv /\ [AppNext]_appVars => LateInv'
<1> SUFFICES ASSUME LateInv, AppNext PROVE LateInv'
  BY LateStay
<1>1. page' = page
  BY DEF AppNext
<1>2. QED
  BY <1>1, GroupsNext, TunnelsNext, TrendNext, ChartsNext,
     CleanupNext DEF AppNext, LateInv, Shows

NoHarm ==
    /\ Shows("groups") => Grouping!AnswerKeepsOtherForms
    /\ Shows("tunnels") => TunnelList!ConfirmedStays
    /\ Shows("trend") => Trend!NeverOlder
    /\ Shows("charts") => Charts!RatesOfOneSocket
    /\ Shows("cleanup") => Cleanup!CompletedIsOver

LEMMA LateStep == LateInv /\ [AppNext]_appVars => [NoHarm]_appVars
BY GroupsNext, TunnelsNext, TrendNext, ChartsNext, CleanupNext
   DEF AppNext, LateInv, NoHarm, Shows

\* For every set of tunnels, groups, pages, buckets, samples and runs, and
\* every order of polls, edits and answers: an answer that comes late changes
\* only what it was asked for (an answer
\* leaves the names that are edited for other groups alone, a list does not
\* change which tunnels a modal asks to delete, unless all rows are picked,
\* the charts of an instance are not replaced by older ones, rates are taken
\* between readings of one socket, and a clean-up is called completed only
\* when it has ended).
THEOREM LateAnswersAreHarmless == AppSpec => LateAnswersDoNoHarm
<1>1. QED
  BY LateInit, LateNext, LateStep, PTL
     DEF AppSpec, LateAnswersDoNoHarm, NoHarm
-----------------------------------------------------------------------------
(* WebApp: the page that is shown keeps its types.                          *)

TypesInv ==
    /\ FormsInv /\ BegunInv /\ LateInv
    /\ Shows("import") => ImportTyped

LEMMA TypesInit == AppInit => TypesInv
BY FormsInit, BegunInit, LateInit, ImportTypedInit
   DEF AppInit, TypesInv, Shows

LEMMA TypesNext == TypesInv /\ [AppNext]_appVars => TypesInv'
<1>1. FormsInv /\ BegunInv /\ LateInv /\ [AppNext]_appVars
      => FormsInv' /\ BegunInv' /\ LateInv'
  BY FormsNext, BegunNext, LateNext
<1>2. ASSUME Shows("import") => ImportTyped, AppNext
      PROVE  Shows("import")' => ImportTyped'
  BY <1>2, ImportTypedNext DEF AppNext, Shows
<1>3. ASSUME Shows("import") => ImportTyped, FormsInv', UNCHANGED appVars
      PROVE  Shows("import")' => ImportTyped'
  <2>1. Shows("import")' => ImportInv' /\ Shows("import")
    BY <1>3 DEF FormsInv, appVars, Shows
  <2>2. Import!TypeOK => Import!TypeOK'
    BY <1>3 DEF appVars, Import!TypeOK
  <2>3. ui' = ui
    BY <1>3 DEF appVars
  <2>4. QED  BY <1>3, <2>1, <2>2, <2>3 DEF ImportTyped
<1>4. QED  BY <1>1, <1>2, <1>3 DEF TypesInv

LEMMA TypesOfPages == TypesInv => PagesTypeOK
<1>1. /\ SetupInv => Setup!TypeOK
      /\ DetailsInv => Details!TypeOK
      /\ NodesInv => NodeList!TypeOK
      /\ ActionsInv => Actions!TypeOK
      /\ CleanupInv => Cleanup!TypeOK
      /\ UpdateInv => Update!TypeOK
      /\ LogInv => Log!TypeOK
      /\ TunnelInv => Tunnel!TypeOK
      /\ ChartsInv => Charts!TypeOK
      /\ DebugInv => Debug!TypeOK
  BY DEF SetupInv, DetailsInv, NodesInv, ActionsInv, CleanupInv, UpdateInv,
         LogInv, TunnelInv, ChartsInv, DebugInv
<1>2. /\ GroupsInv => Grouping!TypeOK
      /\ TrendInv => Trend!TypeOK
      /\ AddInv => NodeAdd!TypeOK
      /\ ImportTyped => Import!TypeOK
      /\ FormInv => Form!TypeOK
      /\ TagsInv => Tags!TypeOK
      /\ PlansInv => PlanList!TypeOK
  BY PlansTyped DEF GroupsInv, TrendInv, AddInv, ImportTyped, FormInv, TagsInv
<1>3. IconInv => Icon!TypeOK
  BY DEF IconInv, Icon!TypeOK
<1>4. QED
  BY <1>1, <1>2, <1>3, DataTyped, PlanTyped
     DEF TypesInv, FormsInv, BegunInv, LateInv, PagesTypeOK

\* For all values of the constants and every order of steps, each page, its
\* requests and what the server keeps for it have their types: no list of a
\* form grows beyond what there is to put in it, no request is sent without
\* what it is about, and no flow leaves its states.
THEOREM PagesTypeCorrect == AppSpec => []PagesTypeOK
<1>1. QED  BY TypesInit, TypesNext, TypesOfPages, PTL DEF AppSpec
=============================================================================
