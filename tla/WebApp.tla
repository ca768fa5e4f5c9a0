------------------------------- MODULE WebApp -------------------------------
(***************************************************************************)
(* The web application: one page of it is shown, with the modals and hooks *)
(* it is made of, each in a module of its own.  The state of a page is     *)
(* React state that the router throws away with the page, so no step of    *)
(* one page sees another's; what outlives them - the session, the theme -  *)
(* is WebSession's.  page is chosen at the start, and ui, net and srv are  *)
(* what its module says of them.                                           *)
(***************************************************************************)
EXTENDS Integers, FiniteSets

CONSTANTS
    None,                           \* nothing, no answer, nobody
    Conns, NoConn,                  \* WebSetup
    Countdown, MaxVersion,          \* WebSetup, WebUpdate, WebTrend
    Nodes, User,                    \* WebNodes
    DetailFlows, ListFlows, UpdateFlows,    \* the Flows of three modules
    MaxRev,                         \* WebEndpointDetails
    Insts,                          \* WebEndpointData, WebTrend
    Hosts, Names,                   \* WebNodeAdd, WebMonitors, subscriptions
    UrlHosts,                       \* WebSubscriptionForm's Hosts
    Files, Addrs,                   \* WebNodesImport
    Tunnels, New,                   \* WebTunnelForm
    Dates, Today, MaxFetches,       \* WebLogPanel
    MaxTunnel, PageSize, MaxLists,  \* WebTunnels
    Rows, MaxOps,                   \* WebTunnelActions
    Values, Bad, Scalar,            \* WebTags, WebCleanup
    Groups,                         \* WebGroups
    PreviewSize, MaxZoom,           \* WebIconPicker
    Portals,                        \* WebSubscriptionForm
    Subs, Prefs, Rests, MaxSaves,   \* WebSubscriptions
    Settings, MaxRuns,              \* WebCleanup
    MaxSockets, MaxBytes, MaxPoints,        \* WebMonitors
    MaxSources, MaxLogs,            \* WebSseDebug
    MaxAsked                        \* WebTrend, WebUpdate

\* Files to make an icon of, on their side and upright, and a pointer's moves.
Images == {<<PreviewSize, 2 * PreviewSize>>, <<PreviewSize, PreviewSize>>}
Steps == {-2, 0, 2}

VARIABLES page, ui, net, srv

appVars == <<page, ui, net, srv>>

Setup == INSTANCE WebSetup
Details == INSTANCE WebEndpointDetails WITH Flows <- DetailFlows
Data == INSTANCE WebEndpointData
NodeList == INSTANCE WebNodes WITH Flows <- ListFlows
NodeAdd == INSTANCE WebNodeAdd
Import == INSTANCE WebNodesImport
Form == INSTANCE WebTunnelForm
Tunnel == INSTANCE WebTunnelDetails
Log == INSTANCE WebLogPanel
TunnelList == INSTANCE WebTunnels
Actions == INSTANCE WebTunnelActions
Tags == INSTANCE WebTags
Grouping == INSTANCE WebGroups
Icon == INSTANCE WebIconPicker
Plan == INSTANCE WebSubscriptionForm WITH Hosts <- UrlHosts
PlanList == INSTANCE WebSubscriptions
Cleanup == INSTANCE WebCleanup
Charts == INSTANCE WebMonitors
Debug == INSTANCE WebSseDebug
Trend == INSTANCE WebTrend
Update == INSTANCE WebUpdate WITH Flows <- UpdateFlows

ASSUME PagesAssumption ==
    /\ Setup!SetupAssumption /\ Details!DetailsAssumption
    /\ Data!InstsAssumption /\ NodeList!NodesAssumption
    /\ NodeAdd!AddAssumption /\ Import!ImportAssumption
    /\ Form!FormAssumption /\ Log!DatesAssumption
    /\ TunnelList!TunnelsAssumption /\ Actions!ActionsAssumption
    /\ Tags!TagsAssumption /\ Grouping!GroupsAssumption
    /\ Icon!IconAssumption /\ Plan!FormAssumption
    /\ PlanList!SubscriptionsAssumption /\ Cleanup!CleanupAssumption
    /\ Charts!MonitorsAssumption /\ Debug!DebugAssumption
    /\ Trend!TrendAssumption /\ Update!UpdateAssumption

Shows(name) == page = name

PagesTypeOK ==
    /\ Shows("setup") => Setup!TypeOK
    /\ Shows("details") => Details!TypeOK
    /\ Shows("data") => Data!TypeOK
    /\ Shows("nodes") => NodeList!TypeOK
    /\ Shows("add") => NodeAdd!TypeOK
    /\ Shows("import") => Import!TypeOK
    /\ Shows("form") => Form!TypeOK
    /\ Shows("tunnel") => Tunnel!TypeOK
    /\ Shows("log") => Log!TypeOK
    /\ Shows("tunnels") => TunnelList!TypeOK
    /\ Shows("actions") => Actions!TypeOK
    /\ Shows("tags") => Tags!TypeOK
    /\ Shows("groups") => Grouping!TypeOK
    /\ Shows("icon") => Icon!TypeOK
    /\ Shows("plan") => Plan!TypeOK
    /\ Shows("plans") => PlanList!TypeOK
    /\ Shows("cleanup") => Cleanup!TypeOK
    /\ Shows("charts") => Charts!TypeOK
    /\ Shows("debug") => Debug!TypeOK
    /\ Shows("trend") => Trend!TypeOK
    /\ Shows("update") => Update!TypeOK

AppInit ==
    \/ page = "setup" /\ Setup!Init
    \/ page = "details" /\ Details!Init
    \/ page = "data" /\ Data!Init
    \/ page = "nodes" /\ NodeList!Init
    \/ page = "add" /\ NodeAdd!Init
    \/ page = "import" /\ Import!Init
    \/ page = "form" /\ Form!Init
    \/ page = "tunnel" /\ Tunnel!Init
    \/ page = "log" /\ Log!Init
    \/ page = "tunnels" /\ TunnelList!Init
    \/ page = "actions" /\ Actions!Init
    \/ page = "tags" /\ Tags!Init
    \/ page = "groups" /\ Grouping!Init
    \/ page = "icon" /\ Icon!Init
    \/ page = "plan" /\ Plan!Init
    \/ page = "plans" /\ PlanList!Init
    \/ page = "cleanup" /\ Cleanup!Init
    \/ page = "charts" /\ Charts!Init
    \/ page = "debug" /\ Debug!Init
    \/ page = "trend" /\ Trend!Init
    \/ page = "update" /\ Update!Init

AppNext ==
    /\ UNCHANGED page
    /\ \/ Shows("setup") /\ Setup!Next
       \/ Shows("details") /\ Details!Next
       \/ Shows("data") /\ Data!Next
       \/ Shows("nodes") /\ NodeList!Next
       \/ Shows("add") /\ NodeAdd!Next
       \/ Shows("import") /\ Import!Next
       \/ Shows("form") /\ Form!Next
       \/ Shows("tunnel") /\ Tunnel!Next
       \/ Shows("log") /\ Log!Next
       \/ Shows("tunnels") /\ TunnelList!Next
       \/ Shows("actions") /\ Actions!Next
       \/ Shows("tags") /\ Tags!Next
       \/ Shows("groups") /\ Grouping!Next
       \/ Shows("icon") /\ Icon!Next
       \/ Shows("plan") /\ Plan!Next
       \/ Shows("plans") /\ PlanList!Next
       \/ Shows("cleanup") /\ Cleanup!Next
       \/ Shows("charts") /\ Charts!Next
       \/ Shows("debug") /\ Debug!Next
       \/ Shows("trend") /\ Trend!Next
       \/ Shows("update") /\ Update!Next

AppSpec == AppInit /\ [][AppNext]_appVars

-----------------------------------------------------------------------------
(* What the pages promise.  Each part is stated, with its reasons, where    *)
(* the page is.                                                             *)

\* Fields that depend on each other are edited in any order, tabs and modals
\* come and go and answers arrive in between: what a form shows is what it
\* holds, and what is sent is what the user has seen and the server can take.
FormsSendWhatTheyShow ==
    /\ Shows("add") => NodeAdd!IpIsOwnOrTyped /\ NodeAdd!CommandFitsToken
    /\ Shows("import") => Import!SentAsConfirmed
    /\ Shows("data") => Data!PicksAreShown
    /\ Shows("form") => Form!SavesWhatItOpened /\ Form!SavesWhatCanRun
    /\ Shows("tags") => Tags!TabsAgree
    /\ Shows("icon") => Icon!InsideImage
    /\ Shows("plan") => Plan!OrderIsComplete
    /\ Shows("plans") => PlanList!NothingToSaveIsSaved

\* Polls, refreshes and the answers of what has been left overlap: none of
\* them takes away a name that is being typed, changes what is about to be
\* deleted, shows older figures or subtracts those of two sources, or says of
\* a run that goes on that it is over.
LateAnswersDoNoHarm ==
    [][/\ Shows("groups") => Grouping!AnswerKeepsOtherForms
       /\ Shows("tunnels") => TunnelList!ConfirmedStays
       /\ Shows("trend") => Trend!NeverOlder
       /\ Shows("charts") => Charts!RatesOfOneSocket
       /\ Shows("cleanup") => Cleanup!CompletedIsOver]_appVars

\* What is begun is carried through, whoever else acts meanwhile: a connection
\* has one owner and ends with it, nothing stays busy after the last action it
\* waits for, a flow that has come to its end - not one that was given up at a
\* write that failed - leaves no node cut off, and what is said to be done or
\* shown at rest is so.
WhatIsBegunIsFinished ==
    /\ Shows("setup") => Setup!LeavesInitialized
    /\ Shows("details") => Details!EditReconnects
    /\ Shows("nodes") => NodeList!EditReconnects
    /\ Shows("actions") => Actions!BusyEnds
    /\ Shows("cleanup") => Cleanup!OwnRunKeepsBusy
    /\ Shows("update") => Update!PendingIsSeen
    /\ Shows("log") => Log!RestsOnFile
    /\ Shows("tunnel") => Tunnel!RestsOnTunnel
    /\ Shows("charts") => Charts!HoldsItsSocket
    /\ Shows("debug") => Debug!HoldsItsSource
=============================================================================
