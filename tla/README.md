# NowhereDash in TLA+

NowhereDash is a dashboard for OpenCtrl servers: a Go process (Gin, GORM over
SQLite or PostgreSQL) that keeps an event stream open to every OpenCtrl
endpoint, mirrors the endpoint's Portal instances as tunnel rows, adds up their
traffic, and sells it on as subscriptions; a React client (`src/web`) operates
it. This directory models the parts of the Go server in which goroutines, rows
and the network meet, and the pages of the client, in which requests under way,
polls, timers and other tabs do; it checks them with TLC, and proves the central
facts with TLAPS.

`PROJECT.json` lists the components, runs, mutants, findings, hazards and
theorems, and for every definition the source lines it models. Every module
`M` whose checks need more than its constants has a module `MCM` for TLC;
proofs are in `MProofs`.

## 1. The system

| component | source | state it keeps | operations | hard part |
|---|---|---|---|---|
| SSE connection manager | `internal/sse/manager.go`, `model.go` | `m.connections`, one `EndpointConnection` per endpoint (two flags, `Cancel`), a worker and a queue per endpoint, `endpoints.status` | connect, disconnect, delete, the listener, its subscription, the reconnect daemon, `Close`, `InitializeSystem` | a listener outlives its replacement and writes the flags of the shared object; the daemon decides without the lock |
| event processing | `internal/sse/service.go` | tunnel rows | initial, create, update, delete, log and shutdown events | events against API calls on the same rows, several transactions per event, failures between them |
| endpoint traffic account | `internal/endpointtraffic`, `models/endpoint_traffic.go` | totals and period usage in the endpoint row, one cursor per instance | `Observe`, `SyncEndpoint`, `SyncAll`, `UpdatePlan` | late and repeated samples, restarted counters, saturation, boundaries missed for months |
| registration tokens | `internal/endpoint/registration.go`, `api/endpoint_registration.go` | an in-memory map | `Issue`, `Use`, purge | the callback of `Use` runs without the lock |
| endpoint service and API | `internal/endpoint/service.go`, `api/endpoint.go` | `endpoints` rows | create, update, connect, delete, `refreshTunnels` | unique names and URLs, lists fetched before the transaction that applies them |
| tunnel service | `internal/tunnel/service.go` | `tunnels` rows, OpenCtrl's instances | create, update, control, reset, rename, delete | OpenCtrl first, database second; either may fail |
| Portal subscriptions | `internal/subscription/service.go` | `portal_subscriptions` and their links | CRUD, accounting, enforcement every minute, rendering | chains of short transactions that interleave; counters that restart |
| WebSocket hub and monitors | `internal/websocket/hub.go`, `service.go` | four channels, two client maps, two worker maps | the Hub's loop, two pumps per client, the checker, `Stop` | channels without an order between them, a loop that sends to itself |
| service history | `internal/sse/history_worker.go` | batches in memory, history rows | collect, aggregate, flush | goroutines that aggregate in any order |
| web: session and routing | `web/src/components/auth`, `components/setup`, `lib/fetch-interceptor.ts`, `pages/login`, `internal/auth` | React state of a tab, the browser's `localStorage`, the server's current JWT id | login, logout, OAuth, the gate, the guard, the interceptor | four places navigate, on timers; tabs share the storage |
| web: pages, modals and hooks | `web/src/pages`, `components`, `lib/hooks` | React state, requests under way, sockets, timers | forms, flows of several requests, polls, selections, live charts | late, reordered and failed answers; the page is edited, closed or left meanwhile |
| self-update, history clean-up | `api/version.go`, `dashboard/cleanup_service.go` | flags in memory, the binary, old rows | start, end, status, restart | unguarded overlap with what several views believe |
| dashboard statistics, groups, database, file logs, OpenCtrl client | see `PROJECT.json` | plain rows, caches, files | queries and I/O | little concurrency of their own |

How they interact. `cmd/server/main.go` calls `InitializeSystem` (one
`ConnectEndpoint` per endpoint that is not marked FAIL or DISCONNECT), starts
HTTP, and after two seconds the daemon, the subscription enforcer and the
traffic scheduler. An event goes from the r3labs subscription to `listenSSE`,
into the endpoint's queue, and from there to `ProcessEvent`, which first
accounts the counters (`endpointtraffic.Observe`) and then writes the row.
API handlers call OpenCtrl, account what it answers and write rows themselves.
The scheduler calls `SyncAll`; subscriptions read the counters in the tunnel
rows. Everything else is shared through the database: whoever loses a race
there loses an update. Shutdown goes `trafficScheduler.Stop`,
`wsService.Stop`, `sseManager.Close`, `sseService.Close`, HTTP.

What makes each part correct, in words (the properties of section 4 are the
formal ones):

- manager: whatever runs can be stopped, a flag that says "connected" is true,
  what is not connected is tried again, a disconnect by hand holds, `Close` ends;
- tokens: one endpoint per token, a failure gives the token back, the cap holds;
- account: no byte twice, no byte lost with a row, totals never shrink,
  cursors never rewind, one reset per boundary, at the right instant;
- events: an older event never overwrites a newer state;
- hub: no closed channel is used, no client is forgotten untold, queries run
  exactly while somebody watches;
- subscriptions: nobody pays for what came before or pays twice, the limit's
  flag is never stale, a denied Portal is stopped;
- session: user and token come and go together, a tab that is refused leaves,
  redirects end;
- pages: what is sent is what the form shows, a late answer harms nobody, what
  was begun is finished.

## 2. The plan

Order of work, the most important behaviour first. All of it is done but the
last two items.

1. `SseManager`: the connection life cycle, with proofs.
2. `RegistrationTokens`, with proofs.
3. `EndpointTraffic`: the account as an abstract specification for *every*
   caller, with proofs.
4. `PortalTraffic`: the program's own callers; composes `EndpointTraffic`
   (`T == INSTANCE EndpointTraffic`) and is checked, and proved, to implement it.
   `PortalLedger` adds a history to it, for the one property that speaks of the
   past.
5. `WebSocketHub`, with proofs.
6. `Subscription`, with proofs of all its safety properties.
7. `TrafficCalendar` and `TrafficPeriods`: the arithmetic of resets, and what
   an account promises of its periods. `EndpointPeriods` puts the calendar under
   `EndpointTraffic`, which is proved to implement `TrafficPeriods`.
8. `WebSession`: the session of a tab, with proofs of its invariants.
9. The pages, one module each, and `WebApp`, which composes them.
10. Proofs for `PortalTraffic`: `EditedIsAccounted`, `OlderEventNeverUndoesEdit`,
    that every step is a step of `T!Next` or a stutter, and, where they hold,
    `NeverCountsTwice` and `NothingLost`.
11. The rest of a tunnel's row: lost updates (`sse/service.go:437` saves a whole
    row it read before) and rows that come back (`sse/service.go:318`).
12. Proofs of what the pages promise, page by page: their types and all three
    formulas of `WebApp`.

Abstract specifications: `TrafficPeriods`, implemented by `EndpointTraffic`
(checked, and proved for all constants), which is in turn the abstract
specification of `PortalTraffic` (checked, and proved for all constants).

## 3. The modules and the code

### SseManager

One `EndpointConnection` object is a member of `Conns`, one activation of
`listenSSE` (with its context and its subscription goroutine) a member of
`Listeners`. `conns` is `m.connections`; `manual`, `connected`, `cancel` the
fields of the object; `lpc` and `sub` the control points of the two goroutines;
`status` is the row's column, `absent` when the row is gone. The daemon's pass
is cut where the code releases the lock: it copies the objects (`DaemonTick`),
reads one flag after the other, cancels, and connects by endpoint id
(`DaemonConnect`), so that everything can happen between its look and its
deed. API requests with two effects (create or reconnect, then connect; delete
of the connection, then of the row) are split in the same way by `requests`.

Objects nobody refers to any more are used again (`FreeConn`, `FreeListener`),
so the two sets bound what is alive at once and not the length of a behaviour.
Left out: URL and key of a connection, payloads other than shutdown notices,
the health check (it only logs), the r3labs client's own retries (external).
`lastConnectAttempt` is the choice `DaemonTooRecent`; what `hasActiveTunnels`
answers is arbitrary.

### RegistrationTokens

`tokens` is `s.tokens`, a function on the outstanding ones; a call carries the
clock it read before it got the lock. `UseReserve`, `CreateCheck`,
`CreateInsert`, `UseFinish` are the critical sections of `Use` and the two
statements of the callback; `CreateInsert` fails on the unique indexes when
another writer (`UserChanges`) was faster. `Restart` empties the store.
A panic in the callback is not modelled.

### EndpointTraffic, TrafficCalendar, TrafficPeriods, EndpointPeriods

In `EndpointTraffic`, `tx` is the transaction that holds the endpoint's row
lock: a copy of the account, the samples still to come, the time its caller read
before it waited. Samples are any, rows change at any time (`OthersWrite`), so
what holds here holds for any caller. One counter stands for the four of an
instance, which the code adds up alike. Boundaries are a constant here.

`TrafficCalendar` finds them as `NextReset` and `resetDue` do, over a calendar
of months of any lengths. Time zones are fixed offsets: a day of 23 or 25 hours
is not modelled. `TrafficPeriods` is three columns of the account - the plan's
schedule, the reset that is awaited, the one that began the period - and the two
whole transactions that change them, `Renew` and `Replan`. `EndpointPeriods`
gives `EndpointTraffic` the calendar's boundaries and maps its `usage` on those
columns; a commit is a `Renew` or a `Replan` for the time its caller read, or
nothing, and every other step a stutter.

### PortalTraffic

OpenCtrl's instances carry and report bytes (`Carry`, `Report`,
`InstanceRestarts`: external); events wait in order in `stream`, whose tail is
lost with the connection or when the queue is full (`Lose`); the worker
(`WorkerTake` to `WorkerDelete`) accounts an event in one transaction and
writes its row in another, each of which may fail; the scheduler syncs; one API
call at a time goes through the steps of its function (`ApiStart` to
`ApiWrite`, `ApiRefresh`). A behaviour has one of `Mixes`, the sets of calls (and a
bound on the time) that a run gives, so that one module serves all runs. `sent` and `asof` are what the program cannot see: the
bytes really carried, and how old the state a row shows really is.

The run `PortalTrafficCallers` has two mixes: edits among late events, or every
caller at once for a shorter time.

One clock stands for both machines, row writes are atomic at their commit, and
a crash loses the queue and rolls the transaction back.

`PortalLedger` EXTENDS it with `ledger` and `draft`, history variables that no
step looks at: for each instance and each time of a sample taken, the bytes by
which the total grew for the run the sample belongs to, in the committed account
and in the transaction's copy. `NothingLost` compares a row that goes with the
entry of its own instance and time.

### WebSocketHub

A topic is an endpoint id or an instance id; both kinds of client run through
the same code. A message is a slot of the client's `Send`. The `Hub`'s loop is
`RegisterClient`, `UnregisterClient`, `BroadcastBegin` with `Deliver` or `Kick`
per client, `HubDone`; each client is a handler (connect, register, ensure the
monitor) and two pumps. `CheckerLooks` asks the Hub, `CheckerUpdates` takes the
service's lock afterwards. `WritePump` sends all that is queued in one step, and
what a cancelled worker still had to say is left out.

### Subscription

A request is a plan: the sequence of the transactions its function makes
(`Plan`), each one action. `Account`, `Judge`, `List`, `StopInstance`,
`MarkStopped` are `AccountTraffic`, the read of `EnforceEntitlement`, the query
of `stopRunningSubscriptionTunnels`, the call to OpenCtrl and the row's update.
Enforcement is best effort: when a statement of it fails the request goes on,
otherwise it ends (`Fails`). One subscription; the four counters are one;
`math.MaxInt64` is `Cap`. `shown` is what the rows of linked tunnels have shown
to be carried, which is what the code can know; whether the rows tell the truth
is `PortalTraffic`'s matter.

### WebSession

A tab has its path, the gate's and the provider's state, a set of timers and a
set of requests under way; `token` and `stored` are what the browser keeps for
all tabs, `jti` the one token id the server accepts (`Restart` forgets it,
`LoginElsewhere` replaces it, `Expire` ends it). Every place that navigates is
an action of its own: `GuardActs` (RouteGuard's effect), `Redirect` (the
interceptor), `Navigate` (the login's timers), `LogoutDone`. Another tab is what
it writes (`OtherTabLogsIn`, `OtherTabClears`). All pages behind the login are
one path. A login page that is left keeps its request (`LoginUnmounted`), and one
that is mounted later may send another; of those left behind one is followed.

### The pages

Every page module has the same three variables. `ui` is React state, `net` what
is under way (requests with the values captured when they were sent, sockets,
goroutines the server has answered before), `srv` what the server and the other
clients make of it. A handler is cut at its awaits: the part before the request
is one action, what is done with its answer another, its `catch` a third. What
the user can do is guarded by what the page shows and disables; an action that
`setState` makes of the state of the last render takes that state, not the
newest. Effects and clean-ups are part of the action that triggers them.

| module | source | what is in it | property | mutant in the module |
|---|---|---|---|---|
| `WebSetup` | `pages/setup.tsx`, `cmd/server/setup.go` | the wizard, the server in set-up mode | `LeavesInitialized` | `SubmitReturnsAnyway` |
| `WebEndpointDetails` | `pages/endpoints/details` | connect, disconnect, edit, reset of the key, with the server's goroutines | `EditReconnects` | `WaitForNothing` |
| `WebEndpointData` | the same page | instances, statistics, logs, back-up and restore | `PicksAreShown` | `BackupKeepsPicks` |
| `WebNodes` | `pages/endpoints` | the list and its modals | `EditReconnects` | `NodeSelected` |
| `WebNodeAdd` | `add-endpoint-modal.tsx`, `guided-add-modal.tsx` | both ways to add a node | `IpIsOwnOrTyped`, `CommandFitsToken` | `FollowsWhenEmpty`, `BuildCommandOfScreen` |
| `WebNodesImport` | `pages/endpoints`, `api/data.go` | check, order, import, export | `SentAsConfirmed` | `MayCheckAny` |
| `WebTunnelForm` | `simple-create-tunnel-modal.tsx` | fields that depend on each other | `SavesWhatItOpened`, `SavesWhatCanRun` | `LeaveLoads`, `MuxAsShown` |
| `WebTunnelDetails` | `pages/tunnels/details` | the detail, its poll, four kinds of requests that overlap | `RestsOnTunnel` | `TurnedByNow` |
| `WebLogPanel` | `file-log-viewer.tsx` | a day's file or the live lines | `RestsOnFile` | `LiveOffByDate` |
| `WebTunnels` | `pages/tunnels` | pages, selection, deletion, a tunnel by URL | `ConfirmedStays` | `SelectedRows` |
| `WebTunnelActions` | the same page | single and batch actions | `BusyEnds` | `UnmarkPicked` |
| `WebTags` | `portal-tag-modal.tsx` | JSON and template of the tags | `TabsAgree` | `UpdateJsonOfStandardFields` |
| `WebGroups` | `group-management-drawer.tsx` | create, rename, delete | `AnswerKeepsOtherForms` | `NeverBusy` |
| `WebIconPicker` | `subscription-icon-picker.tsx` | load, move, zoom, crop | `InsideImage` | `NotClamped` |
| `WebSubscriptionForm` | `subscription-form-modal.tsx` | Portals, URLs and their order | `OrderIsComplete` | `RenameUriOnly` |
| `WebSubscriptions` | `pages/subscriptions`, `subscription-import-modal.tsx` | the list, confirmed actions, preferences | `NothingToSaveIsSaved` | `ShowSavedNow` |
| `WebCleanup` | `history-cleanup-settings.tsx`, `cleanup_service.go` | settings, a run and its polls | `OwnRunKeepsBusy`, `CompletedIsOver` | `BusyByFigures`, `PollsKept` |
| `WebMonitors` | the two WebSocket hooks and charts | sockets, readings, rates | `HoldsItsSocket`, `RatesOfOneSocket` | `DisconnectForgets`, `OpensWithOldReadings` |
| `WebSseDebug` | `pages/endpoints/sse-debug`, `use-nowhere-sse.ts` | the raw stream | `HoldsItsSource` | `NothingClosed`, `KeepsAll` |
| `WebTrend` | `use-metrics-trend.ts` | fetch, abort, poll | `NeverOlder` | `NoneAborted` |
| `WebUpdate` | `update-chip.tsx`, `version-settings.tsx`, `api/version.go` | two views of the update, the process | `PendingIsSeen` | `PollTakesAny` |

`WebApp` shows one page at a time, as the router does, and states in three
formulas what the pages promise; each conjunct is a property of the table, and
each mutant of the table breaks the formula its property is part of.
`FormsSendWhatTheyShow` and `WhatIsBegunIsFinished` are invariants;
`LateAnswersDoNoHarm` is about steps. The composition's own definitions have
names of their own (`AppInit`, `AppNext`, `AppSpec`, `PagesTypeOK`), since the
proofs extend it together with `WebSession`.

## 4. The runs

Twelve runs. Times are for two workers.

| run | asks | bounds | states |
|---|---|---|---|
| `SseManagerSafety` | no listener out of `Cancel`'s reach; no false "connected" | 1 endpoint, 2 objects, 2 activations alive at once, queue 1 | ~1 min |
| `SseManagerLive` | an orphan is reconnected; `Close` completes | 1 endpoint, 1 object, 2 activations | 174 k, 2.5 min |
| `SseManagerDisconnect` | *violated*: a manual disconnect holds against the daemon | as the first | - |
| `RegistrationTokens` | one endpoint per token, one call per reservation, no token busy for ever | 3 tokens, 2 calls, 2 URLs, cap 2 | 498 k, 1 min |
| `EndpointTraffic` | the account for every caller; its plan and periods are `TrafficPeriods`'s | 1 instance, readings -1 and 2, cap 3, months of 1 and 2 days, reset days 1 and 2, clock 0..2 | 623 k, 1.5 min |
| `PortalTrafficStream` | nothing counted twice, nothing lost with a row (`LedgerSpec`) | 1 instance, 3 bytes, 2 events under way, deletions | 3.9 M, 1.8 min |
| `PortalTrafficCallers` | what is edited is accounted; an older event never undoes an edit; all callers implement `EndpointTraffic` | 1 event under way; edits and resets with clock 0..2, or every caller, shutdown included, with clock 0..1 | 2 min |
| `PortalTrafficRefresh` | *violated*: nothing is counted twice after `refreshTunnels` | refresh | - |
| `WebSocketHub` | closed channels, forgotten clients, the worker follows those who watch | 1 topic, 2 clients, all capacities 1 | 271 k, 1.5 min |
| `Subscription` | charges, flags, denied Portals | 1 tunnel, 1 request beside the enforcer, limits 0 and 1, `Cap` 2 | 379 k, 2 min |
| `WebSession` | user and token, refused tabs, redirects | 2 logins, 1 address opened by hand | 414 k, 2 min |
| `WebApp` | forms, late answers, things begun | 2 of nearly everything a page can confuse, 1 of what it only carries | 4.1 M, 2 min |

Why the bounds are enough for what they are asked:

- *Manager.* Every hazard is between an old and a new activation of one object,
  or an old and a new object of one endpoint; endpoints share only `m.mu` and
  the daemon's list. Two objects and two activations give all pairs; the proofs
  cover any number. A queue of one is full after one notice.
- *Tokens.* Two calls race for one token, for two, and for one URL; three tokens
  over a cap of two reach and refuse the cap.
- *Account.* A cap of 3 and readings of 2 saturate at the second delta; -1 is
  clamped to zero and restarts a counter at 2.
- *Portals.* Two events under way are the fewest that can be overtaken by
  something in between; three bytes tell first, second and lost apart. The proofs
  cover any number.
- *Periods.* Reset days 1 and 2 in months of one and two days are to each other
  as the 28th and the 31st; the clock passes up to three resets at once. The
  proof covers all calendars.
- *Hub.* With capacities of one every channel is full and every client kicked
  within a few steps; two clients make the loop wait for itself.
- *Subscription.* One tunnel, because the liveness property needs the whole
  graph; links that come and go, restart and saturate all occur with one.
  `Cap = 2` saturates at the third byte. The proofs cover any number of tunnels
  and requests.
- *Session.* Two logins give a token that was replaced and one that is good;
  tokens that expire, restarts and other tabs come without a bound.
- *Pages.* What a page can confuse - two nodes, tunnels, hosts, files, settings,
  answers to two requests, two flows - there are two of; counters that only tell
  newer from older (`MaxRev`, `MaxVersion`, `MaxRuns`, `MaxSockets`, `MaxOps`,
  `MaxAsked`, `MaxLogs`) go to one, two or three. `Countdown = 1` is a
  countdown that can be interrupted before it ends. `MaxSaves = 2` are two saves
  of one subscription under way, which are answered in either order, fail after
  they were written, or are written after they have failed; `MaxFetches = 3`
  are the two fetches of one change of date and one that was under way before.
  The proofs cover any number of either.

Objects and activations are symmetric in `SseManagerSafety`; the runs with a
liveness property use no symmetry, for which it would be unsound.

Four runs do not check for deadlock, because the system may stop there: the
process ends after `Close` (`SseManagerLive`) and after `Stop` (`WebSocketHub`),
a browser may be left alone (`WebSession`), a page may come to rest (`WebApp`).

### Fairness

- `SseManager`: Go's scheduler runs what can run (WF on the daemon's, the
  listeners', the subscriptions' and the workers' steps); a `select` does not
  pass over a done context for ever (SF on `ListenerCancelled` and
  `WorkerExit`); the daemon does not find every attempt too recent (SF on
  `DaemonCancel`; thirty seconds pass between two ticks); `DaemonConnect` is SF
  because the model's activations, unlike the program's, can all be in use.
  Nothing is asked of the network or of users.
- `RegistrationTokens`: a call in progress runs to its end.
- `WebSocketHub`: SF on each case of the Hub's `select`, which Go chooses at
  random; WF on the loop over a broadcast's clients, on the checker's ticker and
  on a worker's query. Nothing is asked of peers or pumps.
- `Subscription`: the enforcer's ticker fires (WF); its statements and the calls
  to OpenCtrl do not fail every time (SF); the event that tells a row its
  instance's status arrives (WF).

- `WebSession`: the event loop runs effects and timers that are due (WF); the
  gate's question and a request are not lost every time (SF on their answers). A
  page behind the login asks the server when it is mounted (WF on `ApiSend`).
  Nothing is asked of users, other tabs or the token's life.

The pages are checked for safety only, so `WebApp` states no fairness.

`SseManagerLive` uses `ClosingSpec`: no connect or delete by hand and no
restart, since each of them ends the obligations of the properties.

## 5. Disagreements with the code's own words

1. `SseManagerDisconnect`: `manager.go:342` says a manual disconnect prevents
   automatic reconnection. The daemon reads the flag, lets go of the lock, and
   connects by id (`manager.go:203`); a disconnect in between is undone by a
   fresh object without the mark.
2. `PortalTrafficRefresh`: `endpointtraffic/service_test.go:78` says an old
   database snapshot must not count twice. `refreshTunnels` (`api/endpoint.go:742`)
   writes an old list with a NULL event time, so the next sync takes the
   counters for as new as `updated_at`.

What the models show besides, for which no comment or test promises otherwise
(hazards in `PROJECT.json` carry the lines): a `shutdown` event moves every
row's event time without accounting its counters, after which `NeverCountsTwice`
fails too; two reports of one instance within one tick of OpenCtrl's clock leave
the second one's bytes in the row only, which is why `NothingLost` is stated
for times that tell reports apart (`told`); a row that `UpdatePortal` stamps with
the time of its answer (`tunnel/service.go:322`) makes the account and the row
pass over an event of the time between, whose bytes are then known to nobody; when a broadcast meets more full
clients than `unregister` has room for, the Hub waits for itself (`Stuck`), and
`DeadIsForgotten` is stated up to that; an endpoint that was FAIL at a restart
stays out of the daemon's sight; a subscription renewed while the enforcer is at
work still has its Portals stopped.

Of the pages: a write that fails after the disconnect of an edit leaves the node
disconnected, and leaving the list clears the timer that would connect it again
(`pages/endpoints/index.tsx:1385`), so `EditReconnects` is stated of the
flows that came to their end; an `error` message leaves the stream of the debug page open
while the page says it is closed (`use-nowhere-sse.ts:86`); the finally of an
aborted trend request ends the spinner of its successor
(`use-metrics-trend.ts:172`); the preferences of a subscription are saved with
the whole row of the list, over what another tab has changed
(`subscription-import-modal.tsx:89`); a late answer to the connection test
vouches for the edited fields (`pages/setup.tsx:158`), which is why the server's
own test at the end matters; a save of preferences that is said to have failed
may have been written (`subscription/service.go:165` reads the answer after the
commit), and of two that overlap the older answer may come last, so that the
button says that nothing is left to save while the server has something else:
`NothingToSaveIsSaved` is about an answer that no other save overlapped and none
has failed since; after the first refresh a change of date fetches the day's log
twice (`file-log-viewer.tsx:189` and `:196`) and nothing aborts a fetch, so that
the lines of the day before may come last: `RestsOnFile` is about fetches that
did not cross those of another day; two updates may run at once (`api/version.go:408`).

## 6. The proofs

All from the named assumptions on the constants only.

- `SseManagerProofs`: `TypeCorrect`; `NoUnstoppableListener`
  (`LiveContextIsCancellable`) and `NoFalseConnected` (`ConnectedIsServed`), for
  any number of endpoints, objects and activations. The invariant `Inv` adds to
  the properties that the table and the owners agree and are injective
  (`TableOK`), and what the daemon holds (`DaemonOK`): without the first a new
  activation could take over an object another endpoint's entry points to,
  without the second the daemon's connect would have no endpoint.
- `RegistrationTokensProofs`: `TypeCorrect`, `OneEndpointPerToken`,
  `OneCallPerReservation`, `CapRespected`. `SpentOnce` is not inductive: one
  needs that a token which is still in the store and not settled has made no
  endpoint, and that its one running call is the only one that can make it.
- `EndpointTrafficProofs`: `TypeCorrect`, `PeriodWithinTotal`, `TotalMonotone`,
  `CursorMonotone`, `ResetIsDue`. The invariant relates the copy a transaction
  works on to what is committed; lemmas state what `Add`, `CounterDelta`,
  `Observed` and `ResetDue` return.
- `EndpointPeriodsProofs`, in three parts. The calendar: `NextResetIsFirst` and
  `MostRecentIsLatest`, for all month lengths, reset days and times of day; a
  month's reset lies in the month, so resets come in the order of the months.
  The periods: every step of `TrafficPeriods` leaves a plan that waits for a
  reset of its own schedule, ahead of its time. The account: `KeepsPeriods`, the
  refinement `Spec => PeriodsSpec`, and what follows from it for the account,
  `AwaitsItsOwn` and `ResetCatchesUp`. The invariant of `EndpointTrafficProofs`
  says that a transaction's copy is the account or its renewal; for an edit of
  the plan one must know besides that its copy was renewed before it began
  (`PlanIsRenewed`), or `Plan.Apply` could keep a reset that has passed. The
  boundaries and the calendar's resets coincide by the first part.
- `PortalTrafficProofs`, for any Portals, counters, length of the queue and
  times. `TypeCorrect` and `CallersImplementAccount` (`AccountSpec`): every step
  of the worker, the scheduler and the calls is a step of `EndpointTraffic` or
  leaves the account alone. The invariant `Base` says, besides types, whose
  transaction holds the endpoint's lock (`OwnOK`): while the worker or a call is
  inside its transaction, the account's `tx` has its operation and its sample,
  and the other is outside; and that nothing bears a time still to come.
  `ProgramAccount` then carries `TotalNeverShrinks`, `CursorNeverRewinds` and
  `UsedWithinTotal` from the account to the program. `EditsAreAccounted`
  (`EditedIsAccounted`): `EditedOK` adds that what is about to be written to a
  row has already been accounted (`Seen`), so that the cursor is there before the
  row's stamp. `EditsStay` (`OlderEventNeverUndoesEdit`): `OrderOK` adds that a
  row shows a state no younger than its stamp; that a row without one, which any
  event may overwrite, has no older event under way; and that no event tells of a
  Portal that does not exist yet.
- `PortalTrafficProofs`: `CountedOnce` (`NeverCountsTwice`) and `NothingIsLost`
  (`NothingLost`), as long as the only API calls are those of `DeletePortal`:
  the mix of `PortalTrafficStream`, for any Portals, reports, losses, deletions,
  failures and restarts. With a refresh or a shutdown `NeverCountsTwice` is
  false (section 5), so the theorems name the mix.
  `CountedOnce`: `usage.total <= sent` is not inductive, for it says nothing of
  what the queue, the rows and a transaction's copy will still add, and a counter
  that fell tells nothing of what it fell from. `HistoryOK` says
  that there is a history which explains them all: the bytes each
  Portal has carried (`carried`, disjoint, among `1 .. sent`) and the points of
  the past, each with an instance, a time, the counter then shown and the bytes
  carried until then (`LedgerOK`). From a point to a later one, the counter's
  difference, taken as `CounterDelta` takes it, is no more than the bytes carried
  between them, whatever restarts lie there (`Covers`). Every event under way,
  every row's sample and every sample of a transaction tells of a point
  (`Truthful`); a cursor that is set stands at one; and the total is no more than
  the bytes of the points the cursors stand at (`AccountedOK`). So neither order
  nor repetition of samples matters, and nothing is summed along the queue. The
  history is in no variable: each step of the proof gives the next one.
  `NothingIsLost` is about `LedgerSpec`: `PortalLedger` follows the account with
  two history variables that book, for every instance and every run of its
  counter, the bytes by which the total has grown, so that bytes of another
  Portal or of an earlier run cannot stand in for those of the row that goes.
  What a row says is booked under its time (`RowsIn`). Before the
  account is initialized nothing is written or deleted (`EnteredOK`), and the
  first transaction has every row to take in (`UncountedOK`); afterwards a row
  changes only to an event that was accounted first (`BookedOK`). That the event
  was not passed over is `FreshOK`: a report is newer than every cursor, row
  and sample known of its instance from the moment it is sent, since the worker
  takes events in the order they were sent, until the worker commits it; and no
  entry of the books becomes less (`BooksOK`), the account being below its
  largest number, as long as that is more than the Portals can carry.
- `SubscriptionProofs`, for any tunnels, requests, limits and MaxInt64:
  `TypeCorrect`; `OverFlagIsCurrent` (`OverIsCurrent`); `AccountMonotone`
  (`AccountNeverShrinks`); `Overcharge` (`NeverOvercharged`); `UsageCoversLinks`
  (`UsedCoversLinks`). For the first three the invariant says that a link's tunnel has
  a row and that the flag fits the row; the goroutines' own state matters only
  for the types, since every transaction reads what it writes. The last two are
  about a sum over the links. The sum's laws (a larger set, a larger summand, a
  summand changed) are proved first, without an induction over data: the fold of
  the community modules is unrolled by its definition, and a law that failed
  would fail for a smallest set, which is refuted. `SumInv` then says that the
  usage and what the linked counters still hold unseen (`Charged`) stay within
  what the Portals have shown, and that the usage covers the accounts of the
  links (`Covered`).
- `WebProofs`, of the session for any number of tokens and page loads:
  `SessionTypeCorrect` (`TypeOK`) and `UserComesWithToken` (`UserHasToken`).
  Whoever writes `nowhere.user` has a token in its hands: an answer that says "ok"
  carries one (`TabOK`). That no two logouts are sent, which no flag of its own
  guards, follows from the spinner that is shown meanwhile: no check of the
  session that would end it is pending when a logout is sent.
- `WebProofs`, of the pages for any constants: `FormsAreHonest`
  (`FormsSendWhatTheyShow`). `FormsInv` says of the page that is shown that its
  own invariant holds, and each page adds to its promise what its answers bring
  back. The node form: its types. The import: one request is under way, and a
  file being checked is the one the modal has, so that the results shown are
  that file's. The backup: the list is one the server may send. The tunnel form:
  a load that is not aborted belongs to the form that is open, and only a loaded
  form can be complete. The tags: either tab can be made from the other, whatever
  was typed in between. The icon: the shorter side fills the square at every
  zoom, so the margins an offset is clamped to are never negative. The list of
  subscriptions (`PlanSound`): at most one request under way has been alone since
  it was sent, what it wrote is what the server has, and while one that has
  failed may still be written nothing is said to be saved. The subscription form
  (`Ordered`): not only the form, the save under way and the server's row, too,
  have an order that lists each source exactly once; a tunnel that can be
  picked is not in the form yet; the URL whose name is edited is one of the
  form's. The lists of the form are appended to, filtered, moved and renamed
  without a repetition (`ListAppended`, `ListWithout`, `ListMoved`,
  `ListRenamed`), which is proved place by place and needs no induction over
  data.
- `WebProofs`: `WhatIsBegunEnds` (`WhatIsBegunIsFinished`). `BegunInv` says that
  the page that is shown keeps its own invariant, which relates what it has
  under way to what the server will answer. The set-up: one request to
  initialize is under way, from the last step, and its answer says what the
  server did. The node's page and the list of nodes: when a flow connects its
  node again, the disconnect it began with is over, or its own goroutine is
  still to come; a disconnect is of the flow's node. The clean-up: the page's
  own run is no later than the server's, it is awaited while it lasts, and no
  poll under way will say that it is over before it is. The update: what either
  view or an answer says of the present process is true of the server, and a
  process that was restarted is not the one the tab was loaded from. The log: a
  fetch under way is of the day that is chosen unless it crossed one of another
  day. The page of a tunnel (`TunnelSound`): a detail under way is the tunnel's,
  and the one that is shown differs from it only in what was carried out and is
  still to be answered, unless something crossed. The monitors: the hook has a reference only after it has tried to connect, and
  the readings it compares are of the socket that is open.
- `WebProofs`: `LateAnswersAreHarmless` (`LateAnswersDoNoHarm`), of every step.
  `LateInv` adds that while a group's name is being saved no other group's is
  edited, and that one trend request at most is under way, whose answer is no
  older than the charts.
- `WebProofs`: `PagesTypeCorrect` (`PagesTypeOK`), for which the invariants of
  all pages are taken together. The lists of the imports and of the form are no
  longer than there is something to put in them, because they are injective
  (`ListBounded`); an import that can be confirmed has a file.
- `WebSocketHubProofs`: `TypeCorrect`, `NoClosedChannel` (`RegisteredIsOpen`)
  and `ForgottenAreTold` (`ForgottenIsTold`), for any number of clients and
  topics and any capacities. The invariant (`Order`) follows a client through
  the register channel: it is in there at most once, not before its handler
  sent it and not after it became a member, so that a `Send` that was closed
  can never be registered again.

The assumptions are named in the modules that declare the constants and are
evaluated by the runs. Most of them only say what kind of value a constant is.
The others: the Portals are finitely many (`PortalTraffic`, `Subscription`), and
no more than `MaxBytes`, since each may have carried something when the program
starts; a calendar's months follow one another without a gap (`TrafficCalendar`);
the boundaries of `EndpointTraffic` are the calendar's resets, and for every time
of the clock one has passed and one is to come (`EndpointPeriods`); a counter is
no larger than MaxInt64 (`Cap`), and the marker for a NULL is none of the values
it stands beside (`Subscription`); there is a name to give to a node
(`WebNodeAdd`), and text that is no JSON object is not mistaken for tags
(`WebTags`).

Only model-checked, and why:

- Liveness under fairness and whatever needs ENABLED is beyond the prover:
  `OrphanIsReconnected`, `CloseCompletes`, `BusyEnds`, `DeadIsForgotten`,
  `WorkerFollowsWatchers`, `DeniedIsStopped`, `DeniedLeaves`, `NoRedirectLoop`.

Every invariant and every action property of the passing runs is proved; for
`NeverCountsTwice` and `NothingLost`, under the mix of their passing run.

There are no RECURSIVE operators.

## 7. Not modelled

`PROJECT.json` gives each part and the reason. In short: stateless code (URL
parsing, the OpenCtrl client, rendering of subscriptions), plain rows, I/O (the
download and exchange of the binary, log files, history batches), read-only
queries and caches (dashboard), passwords and OAuth's exchange, and packages the
server does not import (`internal/cleanup`, `memory`, `tunnelcache`,
`endpointcache`, `scheduler`, `traffic`). A tunnel's row is modelled by its
counters and times only (item 11 of the plan). Transactions are atomic where the
database makes them so; SQLite's retries on a locked file appear as statements
that fail.

Of the client: the set-up guide's form, the log clean-up card, the settings
drawer, the dashboard, the debug page and the network debugger send single
requests whose answers replace what is shown; billing fields and portal URLs
are conversions; layout, wording, themes and toasts are left out throughout.
Components no page imports (`navbar-user`, `use-tunnel-actions`,
`use-bidirectional-sync`, `version-check.ts`, `today-traffic-chart`,
`settings/system-settings`, `components/endpoints`, `useNowhereSSE` of
`use-sse.ts`) are dead code.
