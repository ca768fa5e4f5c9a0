------------------------- MODULE RegistrationTokens -------------------------
(***************************************************************************)
(* One-time installer tokens: internal/endpoint/registration.go with the   *)
(* two handlers that call it (api/endpoint_registration.go) and the rows   *)
(* CreateEndpoint writes under two unique indexes (endpoint/service.go).   *)
(*                                                                         *)
(* Use reserves a token under the lock, runs CreateEndpoint without it,    *)
(* and settles the token under the lock again; calls, purges, the clock    *)
(* and other writers of the endpoint table move in between.  Every call    *)
(* reads the clock before it waits for the lock.                           *)
(*                                                                         *)
(* A token is drawn from 2^256 values, so one is never issued twice, not   *)
(* even by the next process.                                               *)
(***************************************************************************)
EXTENDS Naturals, FiniteSets

CONSTANTS
    Tokens, Names, Urls,
    Calls,          \* HTTP requests in progress at once
    NoToken, NoName, NoUrl,
    MaxTokens,      \* maxRegistrationTokens
    TTL,            \* endpointRegistrationTokenTTL
    MaxTime         \* bound of the model's clock

ASSUME TokenAssumption ==
    /\ NoToken \notin Tokens /\ NoName \notin Names /\ NoUrl \notin Urls
    /\ MaxTokens \in Nat \ {0} /\ TTL \in Nat \ {0} /\ MaxTime \in Nat

VARIABLES
    now,            \* the clock
    tokens,         \* s.tokens: a map from tokens to their entries
    issued,         \* every token ever handed out
    endpoints,      \* the rows of the endpoint table
    calls,          \* what each request does
    spent           \* how many endpoints a token has registered

vars == <<now, tokens, issued, endpoints, calls, spent>>

Entry == [name : Names, expires : Nat, inUse : BOOLEAN]
Row == [name : Names, url : Urls]
\* "check", "insert", "ok" and "fail" are inside the callback of Use.
Running == {"check", "insert", "ok", "fail"}
Call == [pc : {"idle", "issue", "use"} \cup Running, read : Nat,
         token : Tokens \cup {NoToken}, name : Names \cup {NoName},
         url : Urls \cup {NoUrl}]
Idle == [pc |-> "idle", read |-> 0, token |-> NoToken, name |-> NoName,
         url |-> NoUrl]

TypeOK ==
    /\ now \in Nat
    /\ DOMAIN tokens \subseteq Tokens
    /\ \A t \in DOMAIN tokens : tokens[t] \in Entry
    /\ issued \subseteq Tokens
    /\ endpoints \subseteq Row
    /\ calls \in [Calls -> Call]
    /\ spent \in [Tokens -> Nat]

Init ==
    /\ now = 0 /\ tokens = [t \in {} |-> {}] /\ issued = {} /\ endpoints = {}
    /\ calls = [p \in Calls |-> Idle]
    /\ spent = [t \in Tokens |-> 0]

-----------------------------------------------------------------------------
Without(t) == [u \in DOMAIN tokens \ {t} |-> tokens[u]]
Unexpired(time) == {t \in DOMAIN tokens : time < tokens[t].expires}
Purged(time) == [t \in Unexpired(time) |-> tokens[t]]
Become(p, call) == calls' = [calls EXCEPT ![p] = call]
Step(p, pc) == calls' = [calls EXCEPT ![p].pc = pc]

NameTaken(n) == \E r \in endpoints : r.name = n
UrlTaken(u) == \E r \in endpoints : r.url = u

\* A signed-in user asks for a token: the name is checked, the clock is read.
IssueArrive(p, n) ==
    /\ calls[p].pc = "idle" /\ ~NameTaken(n)
    /\ Become(p, [Idle EXCEPT !.pc = "issue", !.read = now, !.name = n])
    /\ UNCHANGED <<now, tokens, issued, endpoints, spent>>

\* Mutant: the cap is noticed one token late.
IssueOverCap(p) ==
    /\ calls[p].pc = "issue"
    /\ LET live == Purged(calls[p].read) IN
       \E t \in Tokens \ issued :
            /\ Cardinality(DOMAIN live) <= MaxTokens
            /\ tokens' = [u \in DOMAIN live \cup {t} |->
                            IF u = t THEN [name |-> calls[p].name, inUse |-> FALSE,
                                           expires |-> calls[p].read + TTL]
                            ELSE live[u]]
            /\ issued' = issued \cup {t}
    /\ Become(p, Idle)
    /\ UNCHANGED <<now, endpoints, spent>>

\* Under the lock: purge, look at the cap, draw a new token.
IssueStore(p) ==
    /\ calls[p].pc = "issue"
    /\ LET live == Purged(calls[p].read) IN
       \/ /\ Cardinality(DOMAIN live) >= MaxTokens
          /\ tokens' = live /\ UNCHANGED issued
       \/ \E t \in Tokens \ issued :
            /\ Cardinality(DOMAIN live) < MaxTokens
            /\ tokens' = [u \in DOMAIN live \cup {t} |->
                            IF u = t THEN [name |-> calls[p].name, inUse |-> FALSE,
                                           expires |-> calls[p].read + TTL]
                            ELSE live[u]]
            /\ issued' = issued \cup {t}
    /\ Become(p, Idle)
    /\ UNCHANGED <<now, endpoints, spent>>

\* An installer calls back with its token and the address of its OpenCtrl;
\* it may do so again, before or after the first call has been answered.
UseArrive(p, t, u) ==
    /\ calls[p].pc = "idle" /\ t \in issued
    /\ Become(p, [Idle EXCEPT !.pc = "use", !.read = now, !.token = t,
                              !.url = u])
    /\ UNCHANGED <<now, tokens, issued, endpoints, spent>>

\* Mutant: a token in use is not turned away.
UseReserveBusy(p) ==
    /\ calls[p].pc = "use"
    /\ LET live == Purged(calls[p].read)
           t == calls[p].token IN
       /\ t \in DOMAIN live
       /\ tokens' = [live EXCEPT ![t].inUse = TRUE]
       /\ Become(p, [calls[p] EXCEPT !.pc = "check", !.name = live[t].name])
    /\ UNCHANGED <<now, issued, endpoints, spent>>

\* Mutant: the callback is not given the name the token was issued for.
UseReserveNameless(p) ==
    /\ calls[p].pc = "use"
    /\ LET live == Purged(calls[p].read)
           t == calls[p].token IN
       \/ /\ t \in DOMAIN live => live[t].inUse
          /\ tokens' = live
          /\ Become(p, Idle)
       \/ /\ t \in DOMAIN live /\ ~live[t].inUse
          /\ tokens' = [live EXCEPT ![t].inUse = TRUE]
          /\ Step(p, "check")
    /\ UNCHANGED <<now, issued, endpoints, spent>>

\* Under the lock: purge, then reserve the token, or turn the call away.
UseReserve(p) ==
    /\ calls[p].pc = "use"
    /\ LET live == Purged(calls[p].read)
           t == calls[p].token IN
       \/ /\ t \in DOMAIN live => live[t].inUse
          /\ tokens' = live
          /\ Become(p, Idle)
       \/ /\ t \in DOMAIN live /\ ~live[t].inUse
          /\ tokens' = [live EXCEPT ![t].inUse = TRUE]
          /\ Become(p, [calls[p] EXCEPT !.pc = "check", !.name = live[t].name])
    /\ UNCHANGED <<now, issued, endpoints, spent>>

\* CreateEndpoint looks for the name and the URL; a query may fail.
CreateCheck(p) ==
    /\ calls[p].pc = "check"
    /\ \/ ~NameTaken(calls[p].name) /\ ~UrlTaken(calls[p].url) /\ Step(p, "insert")
       \/ Step(p, "fail")
    /\ UNCHANGED <<now, tokens, issued, endpoints, spent>>

\* The insert, which fails when an index is violated, and may fail anyway.
CreateInsert(p) ==
    /\ calls[p].pc = "insert"
    /\ \/ /\ ~NameTaken(calls[p].name) /\ ~UrlTaken(calls[p].url)
          /\ endpoints' = endpoints \cup
                {[name |-> calls[p].name, url |-> calls[p].url]}
          /\ spent' = [spent EXCEPT ![calls[p].token] = @ + 1]
          /\ Step(p, "ok")
       \/ Step(p, "fail") /\ UNCHANGED <<endpoints, spent>>
    /\ UNCHANGED <<now, tokens, issued>>

\* Mutant: a failed callback keeps its reservation until the token expires.
UseFinishKeeps(p) ==
    /\ calls[p].pc \in {"ok", "fail"}
    /\ LET t == calls[p].token IN
       tokens' = IF t \in DOMAIN tokens
                    /\ (calls[p].pc = "ok" \/ now >= tokens[t].expires)
                 THEN Without(t) ELSE tokens
    /\ Become(p, Idle)
    /\ UNCHANGED <<now, issued, endpoints, spent>>

\* Under the lock again: success and expiry consume the token, any other
\* failure releases it; a purge may have consumed it in between.
UseFinish(p) ==
    /\ calls[p].pc \in {"ok", "fail"}
    /\ LET t == calls[p].token IN
       tokens' = IF t \notin DOMAIN tokens THEN tokens
                 ELSE IF calls[p].pc = "ok" \/ now >= tokens[t].expires
                 THEN Without(t)
                 ELSE [tokens EXCEPT ![t].inUse = FALSE]
    /\ Become(p, Idle)
    /\ UNCHANGED <<now, issued, endpoints, spent>>

-----------------------------------------------------------------------------
(* The rest of the world. *)

\* Endpoints made, renamed and deleted by hand: what matters is the table.
UserChanges ==
    /\ \/ \E r \in Row :
             /\ ~NameTaken(r.name) /\ ~UrlTaken(r.url)
             /\ endpoints' = endpoints \cup {r}
       \/ \E r \in endpoints : endpoints' = endpoints \ {r}
    /\ UNCHANGED <<now, tokens, issued, calls, spent>>

Tick ==
    /\ now < MaxTime /\ now' = now + 1
    /\ UNCHANGED <<tokens, issued, endpoints, calls, spent>>

\* The store lives in memory: a new process knows no token.
Restart ==
    /\ tokens' = [t \in {} |-> {}] /\ calls' = [p \in Calls |-> Idle]
    /\ UNCHANGED <<now, issued, endpoints, spent>>

CallStep(p) ==
    \/ IssueStore(p) \/ UseReserve(p) \/ CreateCheck(p) \/ CreateInsert(p)
    \/ UseFinish(p)

Next ==
    \/ \E p \in Calls : CallStep(p)
    \/ \E p \in Calls, n \in Names : IssueArrive(p, n)
    \/ \E p \in Calls, t \in Tokens, u \in Urls : UseArrive(p, t, u)
    \/ UserChanges \/ Tick \/ Restart

\* A request in progress is run to its end; IssueStore waits for nothing
\* either, but the model may have run out of tokens.
Fairness == \A p \in Calls :
                WF_vars(UseReserve(p) \/ CreateCheck(p) \/ CreateInsert(p)
                        \/ UseFinish(p))

Spec == Init /\ [][Next]_vars
FairSpec == Spec /\ Fairness

-----------------------------------------------------------------------------
(* Properties *)

\* registration.go: consumed after one successful use.  However calls,
\* retries, expiry, purges and restarts fall, a token registers one endpoint.
SpentOnce == \A t \in Tokens : spent[t] <= 1

\* A reservation belongs to exactly one call that is inside its callback,
\* and a token that is not reserved has no callback running: a failure has
\* released it, so the installer can try again.
UsesToken(p, t) == calls[p].pc \in Running /\ calls[p].token = t

ReservationHeld ==
    \A t \in DOMAIN tokens :
        IF tokens[t].inUse
        THEN \E p \in Calls : /\ UsesToken(p, t)
                              /\ \A q \in Calls : UsesToken(q, t) => q = p
        ELSE \A p \in Calls : ~UsesToken(p, t)

\* The store never holds more than maxRegistrationTokens entries.
WithinCap == Cardinality(DOMAIN tokens) <= MaxTokens

\* No token stays busy: each reservation is settled or purged.
Reserved(t) == t \in DOMAIN tokens /\ tokens[t].inUse
BusyEnds == \A t \in Tokens : Reserved(t) ~> ~Reserved(t)
=============================================================================
