---------------------------- MODULE Subscription ----------------------------
(***************************************************************************)
(* A Portal subscription (internal/subscription/service.go): what its      *)
(* users are charged for, and when its Portals are stopped.  Every request *)
(* is a row of short transactions on the same rows, between which the      *)
(* other requests, the minutely enforcer, OpenCtrl's events and the user   *)
(* of the tunnel list go on.                                               *)
(*                                                                         *)
(* One subscription; the four counters of a tunnel are one; MaxInt64 is    *)
(* Cap.  Names, icons, external nodes, the token and the rendering are     *)
(* left out: no transaction modelled here depends on them.                 *)
(***************************************************************************)
EXTENDS Naturals, Sequences, FiniteSetsExt

CONSTANTS
    Tunnels,        \* ids of Portal tunnels
    Enforcer,       \* the EntitlementEnforcer's goroutine
    Requests,       \* concurrent API requests and event handlers
    Limits,         \* traffic limits an administrator may set, 0 for none
    Cap,            \* math.MaxInt64
    Nil,
    MaxCount,       \* bound on a tunnel's counter
    MaxShown,       \* bound on the traffic the rows show
    MaxTime         \* bound on the clock

ASSUME SubscriptionAssumption ==
    /\ Enforcer \notin Requests
    /\ Cap \in Nat /\ MaxCount \in 1 .. Cap /\ MaxShown \in Nat
    /\ MaxTime \in Nat /\ IsFiniteSet(Tunnels) /\ Limits \subseteq Nat
    /\ Nil \notin Nat /\ Nil \notin Tunnels
    /\ Nil \notin [used : 0 .. Cap, limit : Limits, over : BOOLEAN,
                   expires : (0 .. MaxTime) \cup {Nil}]
    /\ Nil \notin [count : 0 .. Cap, running : BOOLEAN]

VARIABLES
    now,
    sub,            \* the portal_subscriptions row, or Nil
    links,          \* portal_subscription_tunnels: tunnel -> row or Nil
    rows,           \* tunnels: counter and status, or Nil
    portal,         \* whether OpenCtrl runs the instance
    proc,           \* goroutines: the phases still to come, the tunnels still
                    \* to be stopped, the one stopped last, the one to remove
    shown           \* what the rows of linked tunnels have shown to be carried
                    \* since the subscription began or was reset

vars == <<now, sub, links, rows, portal, proc, shown>>

Goroutines == {Enforcer} \cup Requests
Phases == {"account", "enforce", "list", "stop", "update", "reset", "create",
           "delete", "remove"}
Bytes == 0 .. Cap
Idle == [plan |-> << >>, todo |-> {}, stopped |-> Nil, tunnel |-> Nil]

TypeOK ==
    /\ now \in 0 .. MaxTime
    /\ sub = Nil \/ sub \in [used : Bytes, limit : Limits, over : BOOLEAN,
                             expires : (0 .. MaxTime) \cup {Nil}]
    /\ \A t \in Tunnels :
          /\ links[t] = Nil \/ links[t] \in [last : Bytes, accounted : Bytes]
          /\ rows[t] = Nil \/ rows[t] \in [count : Bytes, running : BOOLEAN]
    /\ portal \in [Tunnels -> BOOLEAN]
    /\ proc \in [Goroutines -> [plan : Seq(Phases), todo : SUBSET Tunnels,
                                stopped : Tunnels \cup {Nil},
                                tunnel : Tunnels \cup {Nil}]]
    /\ shown \in 0 .. MaxShown

Init ==
    /\ now = 0 /\ sub = Nil
    /\ links = [t \in Tunnels |-> Nil]
    /\ rows = [t \in Tunnels |-> Nil]
    /\ portal = [t \in Tunnels |-> FALSE]
    /\ proc = [p \in Goroutines |-> Idle]
    /\ shown = 0

Linked == {t \in Tunnels : links[t] # Nil}

\* Mutant: the sum is not cut off.
AddPlain(a, b) == a + b

\* saturatingAdd
Add(a, b) == Min({a + b, Cap})

\* isOverLimit
IsOver(used, limit) == limit > 0 /\ used >= limit

\* entitlementReason
Expired == sub.expires # Nil /\ now >= sub.expires
Entitled == ~Expired /\ ~sub.over /\ ~IsOver(sub.used, sub.limit)

-----------------------------------------------------------------------------
(* What the requests do, phase by phase. *)

Plan(op) ==
    CASE op = "look"   -> <<"account", "enforce">>
      [] op = "create" -> <<"create", "enforce", "account", "enforce">>
      [] op = "update" -> <<"account", "enforce", "update", "enforce",
                            "account", "enforce">>
      [] op = "reset"  -> <<"reset", "account", "enforce">>
      [] op = "delete" -> <<"delete">>

Begin(p, plan, t) ==
    /\ proc[p] = Idle
    /\ proc' = [proc EXCEPT ![p] = [Idle EXCEPT !.plan = plan, !.tunnel = t]]
    /\ UNCHANGED <<now, sub, links, rows, portal, shown>>

\* List, Get, Preview, RenderPublic, Create, Update, ResetTraffic, Delete.
Request(p, op) == p \in Requests /\ Begin(p, Plan(op), Nil)

\* A Portal is deleted by hand, by an event or by a refresh: AccountTunnels
\* settles its subscriptions first.
RequestRemove(p, t) ==
    /\ p \in Requests /\ rows[t] # Nil
    /\ Begin(p, IF links[t] = Nil THEN <<"remove">>
                ELSE <<"account", "remove">>, t)

\* EnforceAllEntitlements, once a minute.
EnforceAll == Begin(Enforcer, Plan("look"), Nil)

At(p, phase) == proc[p].plan # << >> /\ Head(proc[p].plan) = phase

Advance(p) ==
    LET rest == Tail(proc[p].plan) IN
    proc' = [proc EXCEPT ![p] =
                IF rest = << >> THEN Idle
                ELSE [@ EXCEPT !.plan = rest, !.todo = {}, !.stopped = Nil]]

Become(p, phase, todo) ==
    proc' = [proc EXCEPT ![p].plan = <<phase>> \o Tail(@), ![p].todo = todo,
                         ![p].stopped = Nil]

Abort(p) == proc' = [proc EXCEPT ![p] = Idle]

\* A statement fails, the transaction is rolled back: the request ends, except
\* that enforcement is best effort.
Fails(p) ==
    /\ proc[p].plan # << >>
    /\ \/ Head(proc[p].plan) \in {"enforce", "list"} /\ Advance(p)
       \/ Head(proc[p].plan) \notin {"enforce", "list", "stop"} /\ Abort(p)
    /\ UNCHANGED <<now, sub, links, rows, portal, shown>>

\* The part of a counter that is new; a smaller counter is a new epoch.
Delta(t) ==
    IF rows[t].count > links[t].last THEN rows[t].count - links[t].last ELSE 0

\* Mutant: the account is the counter itself.
ObserveCounter(t) == [last |-> rows[t].count, accounted |-> rows[t].count]

Observe(t) ==
    [last |-> rows[t].count, accounted |-> Add(links[t].accounted, Delta(t))]

\* AccountTraffic: the subscription and its links are locked, the tunnels read.
Account(p) ==
    /\ At(p, "account")
    /\ \/ /\ sub # Nil
          /\ LET used == Add(sub.used, MapThenSumSet(Delta, Linked)) IN
                sub' = [sub EXCEPT !.used = used,
                                   !.over = IsOver(used, sub.limit)]
          /\ links' = [t \in Tunnels |-> IF t \in Linked THEN Observe(t)
                                         ELSE Nil]
          /\ Advance(p)
       \/ /\ sub = Nil
          /\ IF proc[p].tunnel # Nil THEN Advance(p) ELSE Abort(p)
          /\ UNCHANGED <<sub, links>>
    /\ UNCHANGED <<now, rows, portal, shown>>

\* Mutant: an over-limit subscription is stopped, an expired one is not.
JudgeLimitOnly(p) ==
    /\ At(p, "enforce")
    /\ IF sub # Nil /\ (sub.over \/ IsOver(sub.used, sub.limit))
       THEN Become(p, "list", {}) ELSE Advance(p)
    /\ UNCHANGED <<now, sub, links, rows, portal, shown>>

\* EnforceEntitlement: the subscription is read ...
Judge(p) ==
    /\ At(p, "enforce")
    /\ IF sub # Nil /\ ~Entitled THEN Become(p, "list", {}) ELSE Advance(p)
    /\ UNCHANGED <<now, sub, links, rows, portal, shown>>

\* ... then its running tunnels, which may have changed meanwhile.
List(p) ==
    /\ At(p, "list")
    /\ LET running == {t \in Linked : rows[t].running} IN
          IF running = {} THEN Advance(p) ELSE Become(p, "stop", running)
    /\ UNCHANGED <<now, sub, links, rows, portal, shown>>

Done(p, t) ==
    IF proc[p].todo = {t} THEN Advance(p)
    ELSE proc' = [proc EXCEPT ![p].todo = @ \ {t}, ![p].stopped = Nil]

\* controlInstance
StopInstance(p, t) ==
    /\ At(p, "stop") /\ proc[p].stopped = Nil /\ t \in proc[p].todo
    /\ portal' = [portal EXCEPT ![t] = FALSE]
    /\ proc' = [proc EXCEPT ![p].stopped = t]
    /\ UNCHANGED <<now, sub, links, rows, shown>>

\* Or it answers with an error: the next one is tried.
StopFails(p, t) ==
    /\ At(p, "stop") /\ proc[p].stopped = Nil /\ t \in proc[p].todo
    /\ Done(p, t)
    /\ UNCHANGED <<now, sub, links, rows, portal, shown>>

\* The row is told, if it is still there and the update does not fail.
MarkStopped(p) ==
    /\ At(p, "stop") /\ proc[p].stopped # Nil
    /\ LET t == proc[p].stopped IN
       /\ \/ rows' = rows
          \/ rows[t] # Nil /\ rows' = [rows EXCEPT ![t].running = FALSE]
       /\ Done(p, t)
    /\ UNCHANGED <<now, sub, links, portal, shown>>

\* A new link observes what the tunnel has carried so far.
NewLink(t) == [last |-> rows[t].count, accounted |-> 0]

\* Mutant: a new link starts at zero.
ReplaceFromZero(wanted) ==
    links' = [t \in Tunnels |->
                 CASE t \notin wanted -> Nil
                   [] t \in wanted \cap Linked -> links[t]
                   [] t \in wanted \ Linked -> [last |-> 0, accounted |-> 0]]

\* replaceTunnelLinks: the links that stay keep their account.
Replace(wanted) ==
    links' = [t \in Tunnels |->
                 CASE t \notin wanted -> Nil
                   [] t \in wanted \cap Linked -> links[t]
                   [] t \in wanted \ Linked -> NewLink(t)]

Existing == {t \in Tunnels : rows[t] # Nil}
Expiries == (0 .. MaxTime) \cup {Nil}

Create(p) ==
    /\ At(p, "create") /\ sub = Nil
    /\ \E limit \in Limits, expires \in Expiries, ids \in SUBSET Existing :
       /\ sub' = [used |-> 0, limit |-> limit, over |-> FALSE,
                  expires |-> expires]
       /\ Replace(ids)
    /\ shown' = 0
    /\ Advance(p)
    /\ UNCHANGED <<now, rows, portal>>

\* Mutant: over_limit stays what it was.
UpdateKeepsOver(p) ==
    /\ At(p, "update") /\ sub # Nil
    /\ \E limit \in Limits, expires \in Expiries, ids \in SUBSET Existing :
       /\ sub' = [sub EXCEPT !.limit = limit, !.expires = expires]
       /\ Replace(ids)
    /\ Advance(p)
    /\ UNCHANGED <<now, rows, portal, shown>>

Update(p) ==
    /\ At(p, "update") /\ sub # Nil
    /\ \E limit \in Limits, expires \in Expiries, ids \in SUBSET Existing :
       /\ sub' = [sub EXCEPT !.limit = limit, !.expires = expires,
                             !.over = IsOver(sub.used, limit)]
       /\ Replace(ids)
    /\ Advance(p)
    /\ UNCHANGED <<now, rows, portal, shown>>

\* Mutant: what the links have accounted is kept.
ResetKeepsLinks(p) ==
    /\ At(p, "reset") /\ sub # Nil
    /\ sub' = [sub EXCEPT !.used = 0, !.over = FALSE]
    /\ shown' = 0
    /\ Advance(p)
    /\ UNCHANGED <<now, links, rows, portal>>

Reset(p) ==
    /\ At(p, "reset") /\ sub # Nil
    /\ sub' = [sub EXCEPT !.used = 0, !.over = FALSE]
    /\ links' = [t \in Tunnels |-> IF t \in Linked THEN NewLink(t) ELSE Nil]
    /\ shown' = 0
    /\ Advance(p)
    /\ UNCHANGED <<now, rows, portal>>

Delete(p) ==
    /\ At(p, "delete") /\ sub # Nil
    /\ sub' = Nil /\ links' = [t \in Tunnels |-> Nil] /\ shown' = 0
    /\ Advance(p)
    /\ UNCHANGED <<now, rows, portal>>

\* The tunnel's links go in the same transaction.
Remove(p) ==
    /\ At(p, "remove")
    /\ LET t == proc[p].tunnel IN
       /\ rows' = [rows EXCEPT ![t] = Nil]
       /\ links' = [links EXCEPT ![t] = Nil]
       /\ portal' = [portal EXCEPT ![t] = FALSE]
    /\ Advance(p)
    /\ UNCHANGED <<now, sub, shown>>

-----------------------------------------------------------------------------
(* Everything else that writes tunnels. *)

Outside == UNCHANGED <<sub, links, proc>>

\* A new tunnel, with what its instance has counted so far.
Appear(t) ==
    /\ rows[t] = Nil
    /\ \E running \in BOOLEAN, count \in {0, 1} :
       /\ rows' = [rows EXCEPT ![t] = [count |-> count, running |-> running]]
       /\ portal' = [portal EXCEPT ![t] = running]
    /\ Outside /\ UNCHANGED <<now, shown>>

Carry(t) ==
    /\ rows[t] # Nil /\ rows[t].count < MaxCount
    /\ t \in Linked => shown < MaxShown
    /\ rows' = [rows EXCEPT ![t].count = @ + 1]
    /\ shown' = IF t \in Linked THEN shown + 1 ELSE shown
    /\ Outside /\ UNCHANGED <<now, portal>>

InstanceRestarts(t) ==
    /\ rows[t] # Nil /\ rows' = [rows EXCEPT ![t].count = 0]
    /\ Outside /\ UNCHANGED <<now, portal, shown>>

\* Somebody starts the instance, here or at OpenCtrl.
InstanceStarts(t) ==
    /\ rows[t] # Nil /\ portal' = [portal EXCEPT ![t] = TRUE]
    /\ Outside /\ UNCHANGED <<now, rows, shown>>

\* An event brings the status.
Told(t) ==
    /\ rows[t] # Nil /\ rows[t].running # portal[t]
    /\ rows' = [rows EXCEPT ![t].running = portal[t]]
    /\ Outside /\ UNCHANGED <<now, portal, shown>>

Tick ==
    /\ now < MaxTime /\ now' = now + 1
    /\ Outside /\ UNCHANGED <<rows, portal, shown>>

Ops == {"look", "create", "update", "reset", "delete"}

Change(p) ==
    \/ Create(p) \/ Update(p) \/ Reset(p) \/ Delete(p) \/ Remove(p)

Next ==
    \/ EnforceAll \/ Tick
    \/ \E p \in Goroutines :
          \/ Account(p) \/ Judge(p) \/ List(p) \/ MarkStopped(p)
          \/ Change(p) \/ Fails(p)
          \/ \E op \in Ops : Request(p, op)
          \/ \E t \in Tunnels :
                RequestRemove(p, t) \/ StopInstance(p, t) \/ StopFails(p, t)
    \/ \E t \in Tunnels :
          \/ Appear(t) \/ Carry(t) \/ InstanceRestarts(t)
          \/ InstanceStarts(t) \/ Told(t)

Spec == Init /\ [][Next]_vars

\* The enforcer's ticker fires; what fails does not fail every time; the
\* status of an instance arrives.
Fairness ==
    /\ WF_vars(EnforceAll)
    /\ SF_vars(Account(Enforcer)) /\ SF_vars(Judge(Enforcer))
    /\ SF_vars(List(Enforcer)) /\ WF_vars(MarkStopped(Enforcer))
    /\ \A t \in Tunnels : SF_vars(StopInstance(Enforcer, t)) /\ WF_vars(Told(t))

FairSpec == Spec /\ Fairness

-----------------------------------------------------------------------------
(* Properties *)

\* Nobody is charged for what was carried before a tunnel was selected or the
\* usage was reset, nor twice, whatever the transactions' order and however
\* often counters start again.
NeverOvercharged == sub # Nil => sub.used <= shown

\* Two tables, one account: the links never hold more than the subscription,
\* also after links went and came, and after a reset.
UsedCoversLinks ==
    sub # Nil =>
        sub.used >= Min({Cap, MapThenSumSet(LAMBDA t : links[t].accounted,
                                            Linked)})

\* over_limit is never stale, whoever wrote the usage or the limit last.
OverIsCurrent == sub # Nil => sub.over = IsOver(sub.used, sub.limit)

\* models/subscription.go:31: a link's account does not shrink when the
\* Portal's counter is reset; only a reset of the subscription empties it.
AccountNeverShrinks ==
    [][\A t \in Tunnels :
          links[t] # Nil /\ links'[t] # Nil
          => \/ links'[t].accounted >= links[t].accounted
             \/ sub'.used = 0 /\ links'[t] = NewLink(t)]_vars

\* A subscription that has expired or is over its limit does not keep its
\* Portals running: each of them is stopped some time, although events and
\* users start them again and single stops fail.
Denied(t) == sub # Nil /\ ~Entitled /\ links[t] # Nil /\ portal[t]

DeniedIsStopped == \A t \in Tunnels : Denied(t) ~> ~Denied(t)
=============================================================================
